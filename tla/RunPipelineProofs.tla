------------------------- MODULE RunPipelineProofs -------------------------
(* Theorems of RunPipeline: the inductive invariant and what follows, and  *)
(* that the threads implement the sequential writer.                       *)
EXTENDS RunPipeline, SequenceTheorems, WellFoundedInduction, TLAPS

-----------------------------------------------------------------------------
(* Numbers.                                                                *)

(* A non-empty set of natural numbers has a least element.                 *)
LEMMA LeastNat ==
  ASSUME NEW T, T \subseteq Nat, T # {}
  PROVE  \E x \in T : \A y \in T : x <= y
<1> DEFINE Less == {p \in Nat \X Nat : p[1] < p[2]}
<1>1. IsWellFoundedOn(Less, Nat)
  BY Zenon, NatLessThanWellFounded DEF OpToRel
<1> HIDE DEF Less
<1>2. PICK x \in T : \A y \in T : ~ (<<y, x>> \in Less)
  BY <1>1, WFMin
<1>3. \A y \in T : ~ (y < x)
  BY <1>2 DEF Less
<1>4. QED
  BY <1>3

(* A number is its quotient times the divisor, plus a smaller remainder.   *)
LEMMA Quotient ==
  ASSUME NEW s \in Nat \ {0}, NEW u \in Nat
  PROVE  /\ u \div s \in Nat
         /\ u % s \in Nat /\ u % s < s
         /\ u = (u \div s) * s + (u % s)
<1>1. u \div s \in Nat /\ u % s \in Nat /\ u % s < s
  OBVIOUS
<1>2. \A q, r \in Nat : q = u \div s /\ r = u % s => u = q * s + r
  OBVIOUS
<1>3. QED
  BY <1>1, <1>2

(* And there is only one such pair.                                        *)
LEMMA QuotientUnique ==
  ASSUME NEW s \in Nat \ {0}, NEW q \in Nat, NEW r \in Nat, r < s
  PROVE  (q * s + r) \div s = q /\ (q * s + r) % s = r
  OBVIOUS

-----------------------------------------------------------------------------
(* The operators.                                                          *)

(* A run is at least one unit long.                                        *)
LEMMA RunUnitsType == RunUnits \in Nat /\ RunUnits >= 1
<1>1. \A a, b \in Nat \ {0} : a * b \in Nat /\ a * b >= 1
  OBVIOUS
<1>2. QED
  BY <1>1, UnitsAssumption DEF RunUnits

(* A read returns no more than a run, than was asked for and than there is.*)
LEMMA ReadNextType ==
  ASSUME NEW remain \in Nat \cup {READ_UNTIL_EOF}, NEW pos \in Nat,
         job \in Jobs, pos <= job.len
  PROVE  /\ ReadNext(remain, pos) \in [lo : Nat, size : Nat]
         /\ ReadNext(remain, pos).lo = pos
         /\ ReadNext(remain, pos).size <= RunUnits
         /\ ReadNext(remain, pos).size <= NextReadSize(remain)
         /\ pos + ReadNext(remain, pos).size <= job.len
         /\ NextReadSize(remain) \in Nat
<1>1. job.len \in Nat
  BY JobsAssumption DEF JobType
<1>2. QED
  BY <1>1, RunUnitsType DEF ReadNext, NextReadSize, MinOf, READ_UNTIL_EOF

LEMMA SectorsType == ASSUME NEW u \in Nat PROVE SectorsOf(u) \in Nat
  BY UnitsAssumption DEF SectorsOf

(* blockQueue keeps the list and links the block in front of the first     *)
(* entry that does not have a smaller index.                               *)
LEMMA QueuedProperties ==
  ASSUME pending \in Seq(BlockType), NEW b \in BlockType
  PROVE  /\ Queued(b) \in Seq(BlockType)
         /\ Len(Queued(b)) = Len(pending) + 1
         /\ \E k \in 0 .. Len(pending) :
              /\ \A i \in 1 .. k : /\ pending[i].idx < b.idx
                                   /\ Queued(b)[i] = pending[i]
              /\ Queued(b)[k + 1] = b
              /\ \A i \in k + 1 .. Len(pending) : Queued(b)[i + 1] = pending[i]
              /\ k < Len(pending) => pending[k + 1].idx >= b.idx
<1> DEFINE Stop == {k \in 0 .. Len(pending) :
                      k < Len(pending) => pending[k + 1].idx >= b.idx}
           Place(k) == /\ \A i \in 1 .. k : pending[i].idx < b.idx
                       /\ k < Len(pending) => pending[k + 1].idx >= b.idx
<1>a. /\ Len(pending) \in Nat
      /\ \A i \in 1 .. Len(pending) : pending[i] \in BlockType
  OBVIOUS
<1>b. \A c \in BlockType : c.idx \in Nat
  BY DEF BlockType
<1>0. /\ Len(pending) \in Nat
      /\ \A i \in 1 .. Len(pending) : pending[i] \in BlockType
      /\ \A i \in 1 .. Len(pending) : pending[i].idx \in Nat
      /\ b.idx \in Nat
  BY <1>a, <1>b
<1>1. PICK k0 \in Stop : \A k \in Stop : k0 <= k
  <2>1. Stop \subseteq Nat /\ Len(pending) \in Stop
    BY <1>0
  <2>2. QED
    BY <2>1, LeastNat
<1>2. \E k \in 0 .. Len(pending) : Place(k)
  <2>1. k0 \in Nat /\ k0 <= Len(pending)
    BY <1>0, <1>1
  <2>2. ASSUME NEW i \in 1 .. k0 PROVE pending[i].idx < b.idx
    <3>1. i - 1 \in 0 .. Len(pending) /\ i \in 1 .. Len(pending)
      BY <1>0, <2>1
    <3>2. i - 1 \notin Stop
      <4> HIDE DEF Stop
      <4>1. QED
        BY <1>1, <2>1, <3>1
    <3>3. ~(pending[i].idx >= b.idx)
      BY <1>0, <3>1, <3>2
    <3>4. QED
      BY <1>0, <3>1, <3>3
  <2>3. QED
    BY <1>1, <2>2
<1>3. /\ InsertionPoint(b.idx) \in 0 .. Len(pending)
      /\ Place(InsertionPoint(b.idx))
  BY <1>2 DEF InsertionPoint
<1> DEFINE k == InsertionPoint(b.idx)
<1>4. Queued(b) = [i \in 1 .. Len(pending) + 1 |->
                     IF i <= k THEN pending[i]
                     ELSE IF i = k + 1 THEN b ELSE pending[i - 1]]
  BY DEF Queued
<1> HIDE DEF k
<1>5. \A i \in 1 .. Len(pending) + 1 :
        (IF i <= k THEN pending[i]
         ELSE IF i = k + 1 THEN b ELSE pending[i - 1]) \in BlockType
  BY <1>0, <1>3 DEF k
<1>6. Queued(b) \in [1 .. Len(pending) + 1 -> BlockType]
  BY <1>4, <1>5
<1>7. Queued(b) \in Seq(BlockType) /\ Len(Queued(b)) = Len(pending) + 1
  BY <1>0, <1>6
<1>8. k \in 0 .. Len(pending) /\ Place(k)
  BY <1>3 DEF k
<1>9. \A i \in 1 .. k : Queued(b)[i] = pending[i]
  BY <1>0, <1>4, <1>8
<1>10. Queued(b)[k + 1] = b
  BY <1>0, <1>4, <1>8
<1>11. \A i \in k + 1 .. Len(pending) : Queued(b)[i + 1] = pending[i]
  BY <1>0, <1>4, <1>8
<1>12. QED
  BY <1>7, <1>8, <1>9, <1>10, <1>11

(* Queueing adds the block and nothing else, and keeps an increasing list  *)
(* increasing.                                                             *)
LEMMA QueuedEntries ==
  ASSUME pending \in Seq(BlockType), NEW b \in BlockType
  PROVE  /\ \A j \in DOMAIN Queued(b) :
              \/ Queued(b)[j] = b
              \/ \E l \in DOMAIN pending : Queued(b)[j] = pending[l]
         /\ \E j \in DOMAIN Queued(b) : Queued(b)[j] = b
         /\ \A l \in DOMAIN pending :
              \E j \in DOMAIN Queued(b) : Queued(b)[j] = pending[l]
         /\ (/\ \A k, l \in DOMAIN pending :
                   k < l => pending[k].idx < pending[l].idx
             /\ \A k \in DOMAIN pending : pending[k].idx # b.idx)
             => \A k, l \in DOMAIN Queued(b) :
                  k < l => Queued(b)[k].idx < Queued(b)[l].idx
<1>0. /\ Len(pending) \in Nat /\ DOMAIN pending = 1 .. Len(pending)
      /\ \A i \in 1 .. Len(pending) : pending[i] \in BlockType
  OBVIOUS
<1>1. /\ Queued(b) \in Seq(BlockType)
      /\ Len(Queued(b)) = Len(pending) + 1
  BY QueuedProperties
<1>2. DOMAIN Queued(b) = 1 .. Len(pending) + 1
  BY <1>1
<1>3. PICK k \in 0 .. Len(pending) :
              /\ \A i \in 1 .. k : /\ pending[i].idx < b.idx
                                   /\ Queued(b)[i] = pending[i]
              /\ Queued(b)[k + 1] = b
              /\ \A i \in k + 1 .. Len(pending) : Queued(b)[i + 1] = pending[i]
              /\ k < Len(pending) => pending[k + 1].idx >= b.idx
  BY QueuedProperties
<1>4. ASSUME NEW j \in DOMAIN Queued(b)
      PROVE  \/ j \in 1 .. k /\ Queued(b)[j] = pending[j]
             \/ j = k + 1 /\ Queued(b)[j] = b
             \/ j - 1 \in k + 1 .. Len(pending) /\ Queued(b)[j] = pending[j - 1]
  <2>1. \/ j \in 1 .. k
        \/ j = k + 1
        \/ j - 1 \in k + 1 .. Len(pending) /\ j = (j - 1) + 1
    BY <1>0, <1>2
  <2>2. CASE j - 1 \in k + 1 .. Len(pending) /\ j = (j - 1) + 1
    BY <1>3, <2>2
  <2>3. QED
    BY <1>3, <2>1, <2>2
<1>5. /\ \A j \in DOMAIN Queued(b) :
           \/ Queued(b)[j] = b
           \/ \E l \in DOMAIN pending : Queued(b)[j] = pending[l]
      /\ \E j \in DOMAIN Queued(b) : Queued(b)[j] = b
  BY <1>0, <1>2, <1>3, <1>4
<1>6. \A l \in DOMAIN pending :
        \E j \in DOMAIN Queued(b) : Queued(b)[j] = pending[l]
  <2>1. ASSUME NEW l \in DOMAIN pending, l <= k
        PROVE  l \in DOMAIN Queued(b) /\ Queued(b)[l] = pending[l]
    BY <1>0, <1>2, <1>3, <2>1
  <2>2. ASSUME NEW l \in DOMAIN pending, ~(l <= k)
        PROVE  l + 1 \in DOMAIN Queued(b) /\ Queued(b)[l + 1] = pending[l]
    BY <1>0, <1>2, <1>3, <2>2
  <2>3. QED
    BY <2>1, <2>2
<1>7. ASSUME \A m, n \in DOMAIN pending : m < n => pending[m].idx < pending[n].idx,
             \A m \in DOMAIN pending : pending[m].idx # b.idx,
             NEW m \in DOMAIN Queued(b), NEW n \in DOMAIN Queued(b), m < n
      PROVE  Queued(b)[m].idx < Queued(b)[n].idx
  <2>1. /\ b.idx \in Nat /\ k \in Nat /\ m \in Nat /\ n \in Nat
        /\ \A i \in 1 .. Len(pending) : pending[i].idx \in Nat
    BY <1>0, <1>2 DEF BlockType
  <2>2. ASSUME NEW i \in k + 1 .. Len(pending) PROVE pending[i].idx > b.idx
    <3>1. k + 1 \in DOMAIN pending /\ i \in DOMAIN pending /\ k < Len(pending)
      BY <1>0, <2>1
    <3>2. pending[k + 1].idx > b.idx
      BY <1>0, <1>3, <1>7, <2>1, <3>1
    <3>3. k + 1 = i \/ pending[k + 1].idx < pending[i].idx
      BY <1>7, <2>1, <3>1
    <3>4. QED
      BY <1>0, <2>1, <3>1, <3>2, <3>3
  <2>3. CASE m \in 1 .. k /\ Queued(b)[m] = pending[m]
    <3>1. m \in DOMAIN pending /\ pending[m].idx < b.idx
      BY <1>0, <1>3, <2>3
    <3>2. CASE n \in 1 .. k /\ Queued(b)[n] = pending[n]
      BY <1>0, <1>7, <2>3, <3>1, <3>2
    <3>3. CASE n = k + 1 /\ Queued(b)[n] = b
      BY <2>3, <3>1, <3>3
    <3>4. CASE n - 1 \in k + 1 .. Len(pending) /\ Queued(b)[n] = pending[n - 1]
      <4>1. pending[n - 1].idx > b.idx /\ pending[n - 1].idx \in Nat
        BY <1>0, <2>1, <2>2, <3>4
      <4>2. QED
        BY <1>0, <2>1, <2>3, <3>1, <3>4, <4>1
    <3>5. QED
      BY <1>4, <3>2, <3>3, <3>4
  <2>4. CASE m = k + 1 /\ Queued(b)[m] = b
    <3>1. n - 1 \in k + 1 .. Len(pending) /\ Queued(b)[n] = pending[n - 1]
      BY <1>4, <1>7, <2>1, <2>4
    <3>2. QED
      BY <2>2, <2>4, <3>1, <2>1, <1>0
  <2>5. CASE m - 1 \in k + 1 .. Len(pending) /\ Queued(b)[m] = pending[m - 1]
    <3>1. n - 1 \in k + 1 .. Len(pending) /\ Queued(b)[n] = pending[n - 1]
      BY <1>4, <1>7, <2>1, <2>5
    <3>2. m - 1 \in DOMAIN pending /\ n - 1 \in DOMAIN pending /\ m - 1 < n - 1
      BY <1>0, <1>7, <2>1, <2>5, <3>1
    <3>3. QED
      BY <1>7, <2>5, <3>1, <3>2
  <2>6. QED
    BY <1>4, <2>3, <2>4, <2>5
<1>8. QED
  BY <1>5, <1>6, <1>7

(* What Append does to a sequence, whatever it holds.                      *)
LEMMA AppendedTo ==
  ASSUME NEW S, NEW s \in Seq(S), NEW e
  PROVE  /\ Len(s) \in Nat /\ DOMAIN s = 1 .. Len(s)
         /\ DOMAIN Append(s, e) = 1 .. Len(s) + 1
         /\ Len(Append(s, e)) = Len(s) + 1
         /\ \A i \in DOMAIN s : Append(s, e)[i] = s[i]
         /\ Append(s, e)[Len(s) + 1] = e
<1>1. s \in Seq(S \cup {e}) /\ e \in S \cup {e}
  OBVIOUS
<1>2. QED
  BY <1>1

(* The write position is a file offset.                                    *)
LEMMA OutPosType == ASSUME TypeOK PROVE OutPos \in Nat
<1>1. CASE out = <<>>
  BY <1>1, UnitsAssumption DEF OutPos
<1>2. CASE out # <<>>
  <2> DEFINE Chunk == [idx : Nat, lo : Nat, have : Nat, keep : BOOLEAN,
                       off : Nat, size : Nat]
  <2>1. out \in Seq(Chunk)
    BY DEF TypeOK
  <2>2. \A c \in Chunk : c.off \in Nat /\ c.size \in Nat
    OBVIOUS
  <2> HIDE DEF Chunk
  <2>3. Len(out) \in 1 .. Len(out)
    BY <1>2, <2>1
  <2>4. out[Len(out)] \in Chunk
    BY <2>1, <2>3
  <2>5. QED
    BY <1>2, <2>2, <2>4 DEF OutPos
<1>3. QED
  BY <1>1, <1>2

(* Product and padding are natural numbers.                                *)
LEMMA InSizeType == ASSUME NEW b \in BlockType PROVE InSize(b) \in Nat
<1>1. b.count \in Nat /\ SectorUnits \in Nat
  BY UnitsAssumption DEF BlockType
<1>2. \A x, y \in Nat : x * y \in Nat
  OBVIOUS
<1>3. QED
  BY <1>1, <1>2 DEF InSize

(* The head of a non-empty list is a block.                                *)
LEMMA HeadType == ASSUME TypeOK, pending # <<>>
                  PROVE  pending[1] \in BlockType /\ 1 \in DOMAIN pending
  BY DEF TypeOK

-----------------------------------------------------------------------------
(* TypeOK.                                                                 *)

LEMMA InitTypeOK == Init => TypeOK
<1> SUFFICES ASSUME Init PROVE TypeOK
  OBVIOUS
<1>1. job \in JobType /\ job.len \in Nat
      /\ job.bytes \in Nat \cup {READ_UNTIL_EOF}
  BY JobsAssumption DEF Init, JobType
<1>2. ReadNext(job.bytes, 0) \in [lo : Nat, size : Nat]
  <2>1. job \in Jobs /\ 0 \in Nat /\ 0 <= job.len
    BY <1>1 DEF Init
  <2>2. QED
    BY <1>1, <2>1, ReadNextType
<1>3. pending \in Seq(BlockType) /\ DOMAIN runs \subseteq Nat
      /\ out \in Seq([idx : Nat, lo : Nat, have : Nat, keep : BOOLEAN,
                  off : Nat, size : Nat])
  BY DEF Init
<1>4. att \in [beforeU : Nat, beforeC : Nat, rawU : Int, rawC : Int,
              afterU : Int, afterC : Int]
  BY UnitsAssumption DEF Init
<1>5. QED
  BY <1>1, <1>2, <1>3, <1>4 DEF Init, TypeOK, Labels, KeepModes

LEMMA TypeStep ==
  ASSUME TypeOK, HolderInv, ReadInv, WriteInv, Next
  PROVE  TypeOK'
<1>1. job \in JobType /\ job.len \in Nat
  BY JobsAssumption DEF TypeOK, JobType
<1>2. ASSUME NEW t \in Threads, LockIn(t) PROVE TypeOK'
  BY <1>2 DEF TypeOK, LockIn, Goto, Labels, outVars
<1>3. ASSUME NEW t \in Threads, Leave(t) PROVE TypeOK'
  BY <1>3 DEF TypeOK, Leave, Goto, Labels, outVars
<1>4. ASSUME NEW t \in Threads, ShortRead(t) PROVE TypeOK'
  BY <1>4 DEF TypeOK, ShortRead, inVars, outVars
<1>5. ASSUME NEW t \in Threads, TakeBlock(t) PROVE TypeOK'
  <2>1. NextReadSize(bytesRemain) \in Nat
    BY RunUnitsType DEF TypeOK, NextReadSize
  <2>2. SectorsOf(nextIn.size) \in Nat
    BY SectorsType DEF TypeOK
  <2>3. bytesRemain' \in Nat \cup {READ_UNTIL_EOF}
    <3>1. CASE untilEOF
      BY <1>5, <3>1 DEF TakeBlock, Remaining, untilEOF
    <3>2. CASE ~untilEOF
      <4>1. bytesRemain \in Nat /\ nextIn.size \in Nat
        BY <3>2 DEF TypeOK, untilEOF
      <4>2. nextIn.size = NextReadSize(bytesRemain)
        BY <1>5, <3>2 DEF TakeBlock
      <4>3. nextIn.size <= bytesRemain
        BY <3>2, <4>1, <4>2, RunUnitsType DEF NextReadSize, untilEOF
      <4>4. bytesRemain' = bytesRemain - nextIn.size
        BY <1>5, <3>2 DEF TakeBlock, Remaining
      <4>5. QED
        BY <4>1, <4>3, <4>4
    <3>3. QED
      BY <3>1, <3>2
  <2>4. blk' \in [Threads -> BlockType \cup {NoBlock}]
    BY <1>5, <2>2 DEF TypeOK, TakeBlock, BlockType
  <2>5. curRun' \in Nat /\ curSector' \in Nat
    BY <1>5, <2>2 DEF TypeOK, TakeBlock
  <2>6. pc' \in [Threads -> Labels]
    BY <1>5 DEF TypeOK, TakeBlock, Goto, Labels
  <2>7. UNCHANGED <<job, inMut, inPos, nextIn, keepRaw, outVars, phase>>
    BY <1>5 DEF TakeBlock
  <2>8. QED
    BY <2>3, <2>4, <2>5, <2>6, <2>7 DEF TypeOK, outVars
<1>6. ASSUME NEW t \in Threads, ReadAhead(t) PROVE TypeOK'
  <2>1. ReadNext(bytesRemain, inPos) \in [lo : Nat, size : Nat]
    BY ReadNextType DEF TypeOK, ReadInv
  <2>2. KeepRawAfter(blk[t], ReadNext(bytesRemain, inPos)) \in KeepModes
    BY DEF TypeOK, KeepRawAfter, ShouldKeepRaw, KeepModes
  <2>3. keepRaw' \in KeepModes
    BY <1>6, <2>2 DEF TypeOK, ReadAhead
  <2>4. blk[t] \in BlockType
    BY <1>6 DEF HolderInv, Holds, ReadAhead, At
  <2>a. \A k \in BOOLEAN : [blk[t] EXCEPT !.keep = k] \in BlockType
    BY <2>4 DEF BlockType
  <2>b. \E k \in BOOLEAN :
          blk' = [blk EXCEPT ![t] = [blk[t] EXCEPT !.keep = k]]
    <3> DEFINE mode == IF job.attribution
                       THEN KeepRawAfter(blk[t], ReadNext(bytesRemain, inPos))
                       ELSE keepRaw
               kept == mode \in {"KeepCurrentRaw", "KeepCurrentAndNextRaw"}
    <3>1. blk' = [blk EXCEPT ![t] = [blk[t] EXCEPT !.keep = kept]]
      BY <1>6 DEF ReadAhead
    <3>2. kept \in BOOLEAN
      OBVIOUS
    <3> HIDE DEF kept
    <3>3. QED
      BY <3>1, <3>2
  <2>5. blk' \in [Threads -> BlockType \cup {NoBlock}]
    BY <2>a, <2>b DEF TypeOK
  <2>6. nextIn' \in [lo : Nat, size : Nat] /\ inPos' \in Nat
    BY <1>6, <2>1 DEF TypeOK, ReadAhead
  <2>7. pc' \in [Threads -> Labels] /\ inMut' \in Threads \cup {NoThread}
    BY <1>6 DEF TypeOK, ReadAhead, Goto, Labels
  <2>8. UNCHANGED <<job, bytesRemain, curRun, curSector, outVars, phase>>
    BY <1>6 DEF ReadAhead
  <2>9. QED
    BY <2>3, <2>5, <2>6, <2>7, <2>8 DEF TypeOK, outVars
<1>7. ASSUME NEW t \in Threads, Compress(t) PROVE TypeOK'
  <2>1. blk[t] \in BlockType
    BY <1>7 DEF HolderInv, Holds, Compress, At
  <2>2. InSize(blk[t]) \in Nat
    BY <2>1, InSizeType
  <2>3. PICK size \in CompressedSizes :
          LET raw == blk[t].keep \/ NoGain(size, blk[t].count)
          IN  blk' = [blk EXCEPT ![t] =
                        [blk[t] EXCEPT !.raw = raw,
                           !.size = IF raw THEN InSize(blk[t]) ELSE size]]
    BY <1>7 DEF Compress
  <2>4. /\ (blk[t].keep \/ NoGain(size, blk[t].count)) \in BOOLEAN
        /\ size \in Nat
    BY SizesAssumption, <2>1 DEF BlockType, NoGain
  <2>5. blk' \in [Threads -> BlockType \cup {NoBlock}]
    BY <2>1, <2>2, <2>3, <2>4 DEF TypeOK, BlockType
  <2>6. QED
    BY <1>7, <2>5 DEF TypeOK, Compress, Goto, Labels, inVars, outVars
<1>8. ASSUME NEW t \in Threads, LockOutAndQueue(t) PROVE TypeOK'
  <2>1. blk[t] \in BlockType
    BY <1>8 DEF HolderInv, Holds, LockOutAndQueue, At
  <2>2. Queued(blk[t]) \in Seq(BlockType)
    BY <2>1, QueuedProperties DEF TypeOK
  <2>3. QED
    BY <1>8, <2>2 DEF TypeOK, LockOutAndQueue, Goto, Labels, inVars
<1>9. ASSUME NEW t \in Threads, WriteBlock(t) PROVE TypeOK'
  <2>1. pending[1] \in BlockType
    BY <1>9, HeadType DEF WriteBlock, HeadIsNext
  <2>2. InSize(pending[1]) \in Nat /\ OutPos \in Nat
    BY <2>1, InSizeType, OutPosType
  <2>3. out' \in Seq([idx : Nat, lo : Nat, have : Nat, keep : BOOLEAN,
                      off : Nat, size : Nat])
    <3>1. [idx |-> pending[1].idx, lo |-> pending[1].lo,
           have |-> pending[1].have, keep |-> pending[1].keep,
           off |-> OutPos, size |-> pending[1].size]
            \in [idx : Nat, lo : Nat, have : Nat, keep : BOOLEAN,
                 off : Nat, size : Nat]
      BY <2>1, <2>2 DEF BlockType
    <3>2. QED
      BY <1>9, <3>1 DEF TypeOK, WriteBlock
  <2>4. Observed(pending[1]) \in [beforeU : Nat, beforeC : Nat, rawU : Int,
                                  rawC : Int, afterU : Int, afterC : Int]
    <3>1. /\ pending[1].size \in Nat /\ pending[1].keep \in BOOLEAN
          /\ InSize(pending[1]) \in Nat
      BY <2>1, <2>2 DEF BlockType
    <3> DEFINE Lengths == [beforeU : Nat, beforeC : Nat, rawU : Int,
                           rawC : Int, afterU : Int, afterC : Int]
    <3>2. att \in Lengths
      BY DEF TypeOK
    <3>2a. /\ att.beforeU \in Nat /\ att.beforeC \in Nat /\ att.rawU \in Int
           /\ att.rawC \in Int /\ att.afterU \in Int /\ att.afterC \in Int
      BY <3>2
    <3>2b. /\ \A x, y \in Int : [att EXCEPT !.rawU = x, !.rawC = y] \in Lengths
           /\ \A x, y \in Int :
                [att EXCEPT !.afterU = x, !.afterC = y] \in Lengths
           /\ \A x, y \in Nat :
                [att EXCEPT !.beforeU = x, !.beforeC = y] \in Lengths
      BY <3>2
    <3>2d. \A x, y \in Int : [att EXCEPT !.rawU = x, !.rawC = y,
                                        !.afterU = 0, !.afterC = 0] \in Lengths
      <4>1. 0 \in Int
        OBVIOUS
      <4>2. QED
        BY Zenon, <3>2, <4>1
    <3>3. CASE pending[1].keep /\ att.afterU < 0
      <4>1. Observed(pending[1]) =
              [att EXCEPT !.rawU = InSize(pending[1]), !.rawC = pending[1].size,
                          !.afterU = 0, !.afterC = 0]
        BY <3>2a, <3>3 DEF Observed
      <4>2. InSize(pending[1]) \in Int /\ pending[1].size \in Int
        BY <3>1
      <4>3. QED
        BY Zenon, <3>2d, <4>1, <4>2
    <3>4. CASE pending[1].keep /\ att.afterU >= 0
      <4>1. Observed(pending[1]) =
              [att EXCEPT !.rawU = att.rawU + InSize(pending[1]),
                          !.rawC = att.rawC + pending[1].size]
        BY <3>2a, <3>4 DEF Observed
      <4>2. /\ att.rawU + InSize(pending[1]) \in Int
            /\ att.rawC + pending[1].size \in Int
        BY <3>1, <3>2a
      <4>3. QED
        BY Zenon, <3>2b, <4>1, <4>2
    <3>5. CASE ~pending[1].keep /\ att.afterU < 0
      <4>1. Observed(pending[1]) =
              [att EXCEPT !.beforeU = att.beforeU + InSize(pending[1]),
                          !.beforeC = att.beforeC + pending[1].size]
        BY <3>2a, <3>5 DEF Observed
      <4>2. /\ att.beforeU + InSize(pending[1]) \in Nat
            /\ att.beforeC + pending[1].size \in Nat
        BY <3>1, <3>2a
      <4>3. QED
        BY Zenon, <3>2b, <4>1, <4>2
    <3>6. CASE ~pending[1].keep /\ att.afterU >= 0
      <4>1. Observed(pending[1]) =
              [att EXCEPT !.afterU = att.afterU + InSize(pending[1]),
                          !.afterC = att.afterC + pending[1].size]
        BY <3>2a, <3>6 DEF Observed
      <4>2. /\ att.afterU + InSize(pending[1]) \in Int
            /\ att.afterC + pending[1].size \in Int
        BY <3>1, <3>2a
      <4>3. QED
        BY Zenon, <3>2b, <4>1, <4>2
    <3>7. QED
      BY <3>1, <3>2a, <3>3, <3>4, <3>5, <3>6
  <2>5. att' \in [beforeU : Nat, beforeC : Nat, rawU : Int, rawC : Int,
                  afterU : Int, afterC : Int]
    BY <1>9, <2>4 DEF TypeOK, WriteBlock
  <2>6. DOMAIN runs' \subseteq Nat /\ roomForRuns' \in Nat
    <3>1. pending[1].idx \in Nat
      BY <2>1 DEF BlockType
    <3>2. DOMAIN runs' = (DOMAIN runs) \cup {pending[1].idx}
      BY <1>9 DEF WriteBlock
    <3>3. roomForRuns' \in Nat
      BY <1>9, <3>1 DEF TypeOK, WriteBlock, RoomFor
    <3>4. QED
      BY <3>1, <3>2, <3>3 DEF TypeOK
  <2>7. QED
    BY <1>9, <2>3, <2>5, <2>6 DEF TypeOK, WriteBlock, Goto, Labels, inVars
<1>10. ASSUME NEW t \in Threads, Advance(t) PROVE TypeOK'
  <2>1. pending' \in Seq(BlockType)
    BY <1>10 DEF TypeOK, Advance, WriteInv, Unlinking, HeadIsNext, At
  <2>2. QED
    BY <1>10, <2>1 DEF TypeOK, Advance, Goto, Labels, inVars
<1>11. ASSUME NEW t \in Threads, UnlockOut(t) PROVE TypeOK'
  BY <1>11 DEF TypeOK, UnlockOut, Goto, Labels, inVars
<1>12. ASSUME NEW t \in Threads, ExternalFailure(t) PROVE TypeOK'
  BY <1>12 DEF TypeOK, ExternalFailure, inVars, outVars
<1>13. CASE Finish
  <2>1. att' \in [beforeU : Nat, beforeC : Nat, rawU : Int, rawC : Int,
                  afterU : Int, afterC : Int]
    <3> DEFINE seen(n) == IF n < 0 THEN 0 ELSE n
    <3>1. \A n \in Int : seen(n) \in Int
      OBVIOUS
    <3>2. att' = [att EXCEPT !.rawU = seen(att.rawU), !.rawC = seen(att.rawC),
                             !.afterU = seen(att.afterU),
                             !.afterC = seen(att.afterC)]
          \/ att' = att
      BY <1>13 DEF TypeOK, Finish, Settled
    <3> HIDE DEF seen
    <3>3. QED
      BY <3>1, <3>2 DEF TypeOK
  <2>2. DOMAIN runs' \subseteq Nat /\ roomForRuns' \in Nat
    BY <1>13 DEF TypeOK, Finish, RoomFor
  <2>3. QED
    BY <1>13, <2>1, <2>2 DEF TypeOK, Finish, inVars
<1>14. CASE Over
  BY <1>14 DEF TypeOK, Over, vars, inVars, outVars
<1>15. QED
  BY <1>2, <1>3, <1>4, <1>5, <1>6, <1>7, <1>8, <1>9, <1>10, <1>11, <1>12,
     <1>13, <1>14 DEF Next, Worker

-----------------------------------------------------------------------------
(* The mutexes and the blocks the threads hold.                            *)

LEMMA LockStep ==
  ASSUME TypeOK, LockInv, Next
  PROVE  LockInv'
<1> USE ThreadsAssumption DEF LockInv, InLabels, OutLabels, TypeOK, Goto, At
<1>1. ASSUME NEW t \in Threads, LockIn(t) PROVE LockInv'
  BY <1>1 DEF LockIn, inVars, outVars
<1>2. ASSUME NEW t \in Threads, Leave(t) PROVE LockInv'
  BY <1>2 DEF Leave, inVars, outVars
<1>3. ASSUME NEW t \in Threads, ShortRead(t) PROVE LockInv'
  BY <1>3 DEF ShortRead, inVars, outVars
<1>4. ASSUME NEW t \in Threads, TakeBlock(t) PROVE LockInv'
  BY <1>4 DEF TakeBlock, inVars, outVars
<1>5. ASSUME NEW t \in Threads, ReadAhead(t) PROVE LockInv'
  BY <1>5 DEF ReadAhead, inVars, outVars
<1>6. ASSUME NEW t \in Threads, Compress(t) PROVE LockInv'
  BY <1>6 DEF Compress, inVars, outVars
<1>7. ASSUME NEW t \in Threads, LockOutAndQueue(t) PROVE LockInv'
  BY <1>7 DEF LockOutAndQueue, inVars, outVars
<1>8. ASSUME NEW t \in Threads, WriteBlock(t) PROVE LockInv'
  BY <1>8 DEF WriteBlock, inVars, outVars
<1>9. ASSUME NEW t \in Threads, Advance(t) PROVE LockInv'
  BY <1>9 DEF Advance, inVars, outVars
<1>10. ASSUME NEW t \in Threads, UnlockOut(t) PROVE LockInv'
  BY <1>10 DEF UnlockOut, inVars, outVars
<1>11. ASSUME NEW t \in Threads, ExternalFailure(t) PROVE LockInv'
  BY <1>11 DEF ExternalFailure, inVars, outVars
<1>12. CASE Finish
  BY <1>12 DEF Finish, inVars
<1>13. CASE Over
  BY <1>13 DEF Over, vars, inVars, outVars
<1>14. QED
  BY <1>1, <1>2, <1>3, <1>4, <1>5, <1>6, <1>7, <1>8, <1>9, <1>10, <1>11, <1>12,
     <1>13 DEF Next, Worker

LEMMA HolderStep ==
  ASSUME TypeOK, LockInv, HolderInv, Next
  PROVE  HolderInv'
<1> USE DEF HolderInv, Holds, TypeOK, Goto, At
<1>1. ASSUME NEW t \in Threads, LockIn(t) PROVE HolderInv'
  BY <1>1 DEF LockIn, inVars, outVars
<1>2. ASSUME NEW t \in Threads, Leave(t) PROVE HolderInv'
  BY <1>2 DEF Leave, inVars, outVars
<1>3. ASSUME NEW t \in Threads, ShortRead(t) PROVE HolderInv'
  BY <1>3 DEF ShortRead, inVars, outVars
<1>4. ASSUME NEW t \in Threads, TakeBlock(t) PROVE HolderInv'
  <2>1. SectorsOf(nextIn.size) \in Nat
    BY SectorsType
  <2>2. blk'[t] \in BlockType /\ blk'[t].idx = curRun /\ curRun' = curRun + 1
    BY <1>4, <2>1 DEF TakeBlock, BlockType
  <2>3. ASSUME NEW u \in Threads, u # t
        PROVE  pc'[u] = pc[u] /\ blk'[u] = blk[u] /\ pc[u] # "ahead"
    BY <1>4, <2>3 DEF TakeBlock, LockInv, InLabels
  <2>4. pc'[t] = "ahead"
    BY <1>4 DEF TakeBlock
  <2>5. ASSUME NEW u \in Threads
        PROVE  /\ Holds(u)' => blk'[u] \in BlockType
               /\ pc'[u] = "ahead" => blk'[u].idx = curRun' - 1
    <3>1. CASE u = t
      BY <2>2, <2>4, <3>1
    <3>2. CASE u # t
      BY <2>3, <3>2
    <3>3. QED
      BY <3>1, <3>2
  <2>6. QED
    BY <2>5
<1>5. ASSUME NEW t \in Threads, ReadAhead(t) PROVE HolderInv'
  <2>1. blk[t] \in BlockType
    BY <1>5 DEF ReadAhead
  <2>2. blk'[t] \in BlockType
    <3>1. \A k \in BOOLEAN : [blk[t] EXCEPT !.keep = k] \in BlockType
      BY <2>1 DEF BlockType
    <3> DEFINE mode == IF job.attribution
                       THEN KeepRawAfter(blk[t], ReadNext(bytesRemain, inPos))
                       ELSE keepRaw
               kept == mode \in {"KeepCurrentRaw", "KeepCurrentAndNextRaw"}
    <3>2. blk' = [blk EXCEPT ![t] = [blk[t] EXCEPT !.keep = kept]]
      BY <1>5 DEF ReadAhead
    <3>3. kept \in BOOLEAN
      OBVIOUS
    <3> HIDE DEF kept
    <3>4. QED
      BY <3>1, <3>2, <3>3
  <2>3. \A u \in Threads : u # t => pc'[u] = pc[u] /\ blk'[u] = blk[u]
    BY <1>5 DEF ReadAhead
  <2>4. pc'[t] = "compress" /\ curRun' = curRun
    BY <1>5 DEF ReadAhead
  <2>5. QED
    BY <2>2, <2>3, <2>4
<1>6. ASSUME NEW t \in Threads, Compress(t) PROVE HolderInv'
  <2>1. blk[t] \in BlockType
    BY <1>6 DEF Compress
  <2>2. InSize(blk[t]) \in Nat
    BY <2>1, InSizeType
  <2>3. blk'[t] \in BlockType
    <3>1. \A r \in BOOLEAN, z \in Nat :
            [blk[t] EXCEPT !.raw = r, !.size = z] \in BlockType
      BY <2>1 DEF BlockType
    <3>2. PICK r \in BOOLEAN, z \in Nat :
            blk'[t] = [blk[t] EXCEPT !.raw = r, !.size = z]
      <4>1. PICK z \in CompressedSizes :
              blk' = [blk EXCEPT ![t] =
                [blk[t] EXCEPT
                   !.raw = blk[t].keep \/ NoGain(z, blk[t].count),
                   !.size = IF blk[t].keep \/ NoGain(z, blk[t].count)
                            THEN InSize(blk[t]) ELSE z]]
        BY <1>6 DEF Compress
      <4>2. (blk[t].keep \/ NoGain(z, blk[t].count)) \in BOOLEAN /\ z \in Nat
        BY <2>1, SizesAssumption DEF BlockType, NoGain
      <4>3. (IF blk[t].keep \/ NoGain(z, blk[t].count)
             THEN InSize(blk[t]) ELSE z) \in Nat
        BY <2>2, <4>2
      <4>4. QED
        BY <4>1, <4>2, <4>3
    <3>3. [blk[t] EXCEPT !.raw = r, !.size = z] \in BlockType
      BY Zenon, <3>1
    <3>4. QED
      BY Zenon, <3>2, <3>3
  <2>4. \A u \in Threads : u # t => pc'[u] = pc[u] /\ blk'[u] = blk[u]
    BY <1>6 DEF Compress
  <2>5. pc'[t] = "queue" /\ curRun' = curRun
    BY <1>6 DEF Compress, inVars
  <2>6. QED
    BY <2>3, <2>4, <2>5
<1>7. ASSUME NEW t \in Threads, LockOutAndQueue(t) PROVE HolderInv'
  BY <1>7 DEF LockOutAndQueue, inVars, outVars
<1>8. ASSUME NEW t \in Threads, WriteBlock(t) PROVE HolderInv'
  BY <1>8 DEF WriteBlock, inVars, outVars
<1>9. ASSUME NEW t \in Threads, Advance(t) PROVE HolderInv'
  BY <1>9 DEF Advance, inVars, outVars
<1>10. ASSUME NEW t \in Threads, UnlockOut(t) PROVE HolderInv'
  BY <1>10 DEF UnlockOut, inVars, outVars
<1>11. ASSUME NEW t \in Threads, ExternalFailure(t) PROVE HolderInv'
  BY <1>11 DEF ExternalFailure, inVars, outVars
<1>12. CASE Finish
  BY <1>12 DEF Finish, inVars
<1>13. CASE Over
  BY <1>13 DEF Over, vars, inVars, outVars
<1>14. QED
  BY <1>1, <1>2, <1>3, <1>4, <1>5, <1>6, <1>7, <1>8, <1>9, <1>10, <1>11, <1>12,
     <1>13 DEF Next, Worker

-----------------------------------------------------------------------------
(* The reader's side.  Only TakeBlock and ReadAhead change it.             *)

QuietIn == /\ UNCHANGED <<job, inPos, nextIn, bytesRemain, curRun>>
           /\ Refilling' <=> Refilling

LEMMA InFrame ==
  ASSUME TypeOK, LockInv, Next
  PROVE  \/ \E t \in Threads : TakeBlock(t) \/ ReadAhead(t)
         \/ QuietIn
<1> USE DEF TypeOK, Goto, At, QuietIn, Refilling
<1>1. ASSUME NEW t \in Threads, LockIn(t) PROVE QuietIn
  BY <1>1 DEF LockIn, inVars, outVars
<1>2. ASSUME NEW t \in Threads, Leave(t) PROVE QuietIn
  BY <1>2 DEF Leave, inVars, outVars
<1>3. ASSUME NEW t \in Threads, ShortRead(t) PROVE QuietIn
  BY <1>3 DEF ShortRead, inVars, outVars
<1>4. ASSUME NEW t \in Threads, Compress(t) PROVE QuietIn
  BY <1>4 DEF Compress, inVars, outVars
<1>5. ASSUME NEW t \in Threads, LockOutAndQueue(t) PROVE QuietIn
  BY <1>5 DEF LockOutAndQueue, inVars, outVars
<1>6. ASSUME NEW t \in Threads, WriteBlock(t) PROVE QuietIn
  BY <1>6 DEF WriteBlock, inVars, outVars
<1>7. ASSUME NEW t \in Threads, Advance(t) PROVE QuietIn
  BY <1>7 DEF Advance, inVars, outVars
<1>8. ASSUME NEW t \in Threads, UnlockOut(t) PROVE QuietIn
  BY <1>8 DEF UnlockOut, inVars, outVars
<1>9. ASSUME NEW t \in Threads, ExternalFailure(t) PROVE QuietIn
  BY <1>9 DEF ExternalFailure, inVars, outVars
<1>10. CASE Finish
  BY <1>10 DEF Finish, inVars
<1>11. CASE Over
  BY <1>11 DEF Over, vars, inVars, outVars
<1>12. QED
  BY <1>1, <1>2, <1>3, <1>4, <1>5, <1>6, <1>7, <1>8, <1>9, <1>10, <1>11 DEF Next, Worker

(* The two steps that move the refilling thread in and out.                *)
LEMMA RefillSteps ==
  ASSUME TypeOK, LockInv, NEW t \in Threads
  PROVE  /\ TakeBlock(t) => ~Refilling /\ Refilling'
         /\ ReadAhead(t) => Refilling /\ ~Refilling'
<1> USE DEF TypeOK, LockInv, InLabels, Goto, At, Refilling
<1>1. TakeBlock(t) => ~Refilling /\ Refilling'
  BY DEF TakeBlock
<1>2. ReadAhead(t) => Refilling /\ ~Refilling'
  BY DEF ReadAhead
<1>3. QED
  BY <1>1, <1>2

(* The next run starts one run further on.                                 *)
LEMMA NextRun ==
  ASSUME NEW c \in Nat
  PROVE  /\ c * RunUnits \in Nat
         /\ (c + 1) * RunUnits = c * RunUnits + RunUnits
         /\ c >= 1 => (c - 1) * RunUnits + RunUnits = c * RunUnits
<1>1. \A a, b \in Nat : a * b \in Nat /\ (a + 1) * b = a * b + b
  OBVIOUS
<1>2. c >= 1 => c - 1 \in Nat /\ (c - 1) + 1 = c
  OBVIOUS
<1>3. QED
  BY <1>1, <1>2, RunUnitsType

(* A block is handed out only if something was read; a short one exhausts  *)
(* the input.                                                              *)
LEMMA TakenBlock ==
  ASSUME TypeOK, LockInv, ReadInv, NEW t \in Threads, TakeBlock(t)
  PROVE  /\ nextIn.size # 0
         /\ nextIn.lo = curRun * RunUnits
         /\ nextIn.size = RunUnits \/ ReadNext(bytesRemain', inPos').size = 0
         /\ UNCHANGED <<job, inPos, nextIn>>
         /\ curRun' = curRun + 1
<1>1. ~Refilling
  BY RefillSteps
<1>2. UNCHANGED <<job, inPos, nextIn>> /\ curRun' = curRun + 1
  BY DEF TakeBlock
<1>3. /\ job.len \in Nat /\ inPos \in Nat /\ nextIn.size \in Nat
      /\ nextIn.lo \in Nat /\ bytesRemain \in Nat \cup {READ_UNTIL_EOF}
  BY JobsAssumption DEF TypeOK, JobType
<1>4. nextIn.size # 0
  BY DEF TakeBlock
<1>5. nextIn.lo = curRun * RunUnits
  BY <1>1, <1>4 DEF ReadInv
<1>6. /\ inPos = nextIn.lo + nextIn.size
      /\ inPos <= job.len
      /\ nextIn.size = MinOf(NextReadSize(bytesRemain), job.len - nextIn.lo)
  BY <1>1 DEF ReadInv, ReadNext
<1>7. ASSUME nextIn.size # RunUnits
      PROVE  ReadNext(bytesRemain', inPos').size = 0
  <2>1. CASE untilEOF
    <3>1. NextReadSize(bytesRemain) = RunUnits /\ bytesRemain' = bytesRemain
      BY <2>1 DEF NextReadSize, untilEOF, TakeBlock, Remaining
    <3>2. inPos = job.len
      BY <1>3, <1>6, <1>7, <3>1, RunUnitsType DEF MinOf
    <3>3. QED
      BY <1>2, <1>3, <3>1, <3>2, RunUnitsType DEF ReadNext, MinOf
  <2>2. CASE ~untilEOF
    <3>1. /\ nextIn.size = NextReadSize(bytesRemain)
          /\ bytesRemain' = bytesRemain - nextIn.size
          /\ bytesRemain \in Nat
      BY <1>3, <2>2 DEF untilEOF, TakeBlock, Remaining
    <3>2. nextIn.size = bytesRemain
      BY <1>7, <3>1 DEF NextReadSize
    <3>3. bytesRemain' = 0
      BY <3>1, <3>2
    <3>4. NextReadSize(0) = 0
      BY RunUnitsType DEF NextReadSize, READ_UNTIL_EOF
    <3>5. QED
      BY <1>2, <1>3, <1>6, <3>3, <3>4 DEF ReadNext, MinOf
  <2>3. QED
    BY <2>1, <2>2
<1>8. QED
  BY <1>2, <1>4, <1>5, <1>7

LEMMA ReadStep ==
  ASSUME TypeOK, LockInv, ReadInv, Next
  PROVE  ReadInv'
<1>1. CASE QuietIn
  BY <1>1 DEF QuietIn, ReadInv, Dry, ReadNext, MinOf
<1>2. ASSUME NEW t \in Threads, TakeBlock(t) PROVE ReadInv'
  <2>1. ~Refilling /\ Refilling'
    BY <1>2, RefillSteps
  <2>2. curRun \in Nat
    BY DEF TypeOK
  <2>3. /\ UNCHANGED <<job, inPos, nextIn>> /\ curRun' = curRun + 1
        /\ nextIn.lo = curRun * RunUnits
        /\ nextIn.size = RunUnits \/ ReadNext(bytesRemain', inPos').size = 0
    BY <1>2, TakenBlock
  <2>4. nextIn'.size = RunUnits \/ Dry'
    BY <2>1, <2>3 DEF Dry, ReadNext, MinOf
  <2>5. curRun' >= 1 /\ nextIn'.lo = (curRun' - 1) * RunUnits
    BY <2>2, <2>3
  <2>6. QED
    BY <2>1, <2>3, <2>4, <2>5 DEF ReadInv
<1>3. ASSUME NEW t \in Threads, ReadAhead(t) PROVE ReadInv'
  <2>1. Refilling /\ ~Refilling'
    BY <1>3, RefillSteps
  <2>2. /\ nextIn' = ReadNext(bytesRemain, inPos)
        /\ inPos' = inPos + nextIn'.size
        /\ UNCHANGED <<job, bytesRemain, curRun>>
    BY <1>3 DEF ReadAhead
  <2>3. /\ inPos \in Nat /\ inPos <= job.len /\ job \in Jobs /\ curRun \in Nat
        /\ nextIn.size \in Nat /\ nextIn.lo \in Nat
        /\ bytesRemain \in Nat \cup {READ_UNTIL_EOF}
    BY DEF TypeOK, ReadInv
  <2>4. /\ nextIn'.lo = inPos /\ nextIn'.size <= RunUnits
        /\ inPos' <= job.len
    BY <2>2, <2>3, ReadNextType
  <2>5. nextIn'.size = ReadNext(bytesRemain', nextIn'.lo).size
    BY <2>2, <2>4
  <2>6. (ReadNext(bytesRemain, nextIn.lo).size)'
          = ReadNext(bytesRemain', nextIn'.lo).size
    BY <2>2 DEF ReadNext, MinOf
  <2>7. nextIn'.size = 0 \/ nextIn'.lo = curRun' * RunUnits
    <3>1. CASE nextIn.size = RunUnits
      BY <2>1, <2>2, <2>3, <2>4, <3>1, NextRun DEF ReadInv
    <3>2. CASE Dry
      BY <2>1, <2>2, <3>2 DEF Dry
    <3>3. QED
      BY <2>1, <3>1, <3>2 DEF ReadInv
  <2>8. QED
    BY <2>1, <2>2, <2>4, <2>5, <2>6, <2>7 DEF ReadInv
<1>4. QED
  BY <1>1, <1>2, <1>3, InFrame

-----------------------------------------------------------------------------
(* Every block is the slice of the input its index names.                  *)

(* Until the next block is taken, the input stays as exhausted as it is.   *)
LEMMA SliceKept ==
  ASSUME TypeOK, LockInv, ReadInv, Next,
         \A t \in Threads : ~TakeBlock(t)
  PROVE  \A b : Slice(b) => Slice(b)'
<1>1. curRun' = curRun /\ (Dry' <=> Dry)
  <2>1. CASE QuietIn
    BY <2>1 DEF QuietIn, Dry, ReadNext, MinOf
  <2>2. ASSUME NEW t \in Threads, ReadAhead(t)
        PROVE  curRun' = curRun /\ (Dry' <=> Dry)
    BY <2>2, RefillSteps DEF ReadAhead, Dry
  <2>3. QED
    BY <2>1, <2>2, InFrame
<1>2. QED
  BY <1>1 DEF Slice

(* When a block is taken, all those before it were full runs.              *)
LEMMA SliceGrown ==
  ASSUME TypeOK, LockInv, ReadInv, NEW t \in Threads, TakeBlock(t)
  PROVE  \A b : Slice(b) => Slice(b)'
<1>1. ~Refilling /\ nextIn.size # 0
  BY RefillSteps, TakenBlock
<1>2. ~Dry
  BY <1>1 DEF Dry
<1>3. QED
  BY <1>2 DEF Slice

(* Neither the attribution's verdict nor the compression changes which     *)
(* part of the input a block is.                                           *)
LEMMA BlockKept ==
  ASSUME TypeOK, HolderInv, NEW t \in Threads, ReadAhead(t) \/ Compress(t)
  PROVE  /\ blk'[t].lo = blk[t].lo
         /\ blk'[t].have = blk[t].have
         /\ blk'[t].idx = blk[t].idx
<1>0. blk[t] \in BlockType
  BY DEF ReadAhead, Compress, At, HolderInv, Holds
<1>1. /\ \A k : LET c == [blk[t] EXCEPT !.keep = k]
               IN  c.lo = blk[t].lo /\ c.have = blk[t].have /\ c.idx = blk[t].idx
      /\ \A r, z : LET c == [blk[t] EXCEPT !.raw = r, !.size = z]
                  IN  c.lo = blk[t].lo /\ c.have = blk[t].have /\ c.idx = blk[t].idx
  BY <1>0 DEF BlockType
<1>2. CASE ReadAhead(t)
  <2> DEFINE mode == IF job.attribution
                     THEN KeepRawAfter(blk[t], ReadNext(bytesRemain, inPos))
                     ELSE keepRaw
             kept == mode \in {"KeepCurrentRaw", "KeepCurrentAndNextRaw"}
  <2>1. blk' = [blk EXCEPT ![t] = [blk[t] EXCEPT !.keep = kept]]
    BY <1>2 DEF ReadAhead
  <2> HIDE DEF kept
  <2>2. blk'[t] = [blk[t] EXCEPT !.keep = kept]
    BY <2>1 DEF TypeOK
  <2>3. QED
    BY <1>1, <2>2
<1>3. CASE Compress(t)
  <2>1. \E r, z : blk' = [blk EXCEPT ![t] =
                          [blk[t] EXCEPT !.raw = r, !.size = z]]
    BY <1>3 DEF Compress
  <2>2. PICK r, z : blk' = [blk EXCEPT ![t] =
                          [blk[t] EXCEPT !.raw = r, !.size = z]]
    BY <2>1
  <2>3. blk'[t] = [blk[t] EXCEPT !.raw = r, !.size = z]
    BY <2>2 DEF TypeOK
  <2>4. QED
    BY <1>1, <2>3
<1>4. QED
  BY <1>2, <1>3

LEMMA SliceStep ==
  ASSUME TypeOK, LockInv, HolderInv, ReadInv, WriteInv, SliceInv, Next
  PROVE  SliceInv'
<1>0. \A b : Slice(b) => Slice(b)'
  BY SliceKept, SliceGrown
<1> DEFINE Lo(b) == b.lo = b.idx * RunUnits
           Have(b) == b.have = RunUnits \/ (b.idx = curRun' - 1 /\ Dry')
<1>a. \A b : Slice(b) => Lo(b) /\ Have(b)
  BY <1>0 DEF Slice
<1>b. /\ \A t \in Threads : Holds(t) => Lo(blk[t]) /\ Have(blk[t])
      /\ \A k \in DOMAIN pending : Lo(pending[k]) /\ Have(pending[k])
      /\ \A i \in DOMAIN out : Lo(out[i]) /\ Have(out[i])
  BY <1>a DEF SliceInv
<1> SUFFICES
      /\ \A t \in Threads : Holds(t)' => Lo(blk'[t]) /\ Have(blk'[t])
      /\ \A k \in DOMAIN pending' : Lo(pending'[k]) /\ Have(pending'[k])
      /\ \A i \in DOMAIN out' : Lo(out'[i]) /\ Have(out'[i])
  BY DEF SliceInv, Slice
<1> DEFINE Goal == /\ \A t \in Threads : Holds(t)' => Lo(blk'[t]) /\ Have(blk'[t])
                   /\ \A k \in DOMAIN pending' :
                        Lo(pending'[k]) /\ Have(pending'[k])
                   /\ \A i \in DOMAIN out' : Lo(out'[i]) /\ Have(out'[i])
<1>1. ASSUME NEW t \in Threads,
             LockIn(t) \/ Leave(t) \/ ShortRead(t) \/ UnlockOut(t)
               \/ ExternalFailure(t)
      PROVE  Goal
  <2>1. UNCHANGED <<blk, pending, out>>
    BY <1>1 DEF LockIn, Leave, ShortRead, UnlockOut, ExternalFailure, outVars
  <2>2. \A u \in Threads : Holds(u)' => Holds(u)
    BY <1>1 DEF LockIn, Leave, ShortRead, UnlockOut, ExternalFailure, Holds,
                Goto, TypeOK
  <2> HIDE DEF Lo, Have
  <2>3. QED
    BY <1>b, <2>1, <2>2
<1>2. ASSUME NEW t \in Threads, TakeBlock(t) PROVE Goal
  <2>1. UNCHANGED <<pending, out>>
    BY <1>2 DEF TakeBlock, outVars
  <2>2. ASSUME NEW u \in Threads, Holds(u)'
        PROVE  Lo(blk'[u]) /\ Have(blk'[u])
    <3>1. CASE u = t
      <4>1. blk'[t].lo = nextIn.lo /\ blk'[t].have = nextIn.size
            /\ blk'[t].idx = curRun
        BY <1>2 DEF TakeBlock, TypeOK
      <4>2. Refilling' /\ curRun \in Nat
        BY <1>2, RefillSteps DEF TypeOK
      <4>3. Dry' <=> ReadNext(bytesRemain', inPos').size = 0
        BY <1>2, <4>2, TakenBlock DEF Dry, ReadNext, MinOf
      <4>4. QED
        BY <1>2, <3>1, <4>1, <4>2, <4>3, TakenBlock
    <3>2. CASE u # t
      <4>1. blk'[u] = blk[u] /\ Holds(u)
        BY <1>2, <2>2, <3>2 DEF TakeBlock, Goto, Holds, TypeOK
      <4> HIDE DEF Lo, Have
      <4>2. QED
        BY <1>b, <4>1
    <3>3. QED
      BY <3>1, <3>2
  <2> HIDE DEF Lo, Have
  <2>3. QED
    BY <1>b, <2>1, <2>2
<1>3. ASSUME NEW t \in Threads, ReadAhead(t) \/ Compress(t) PROVE Goal
  <2>1. UNCHANGED <<pending, out>>
    BY <1>3 DEF ReadAhead, Compress, outVars
  <2>2. blk[t] \in BlockType /\ Holds(t)
    BY <1>3 DEF ReadAhead, Compress, At, HolderInv, Holds
  <2>3. /\ blk'[t].lo = blk[t].lo
        /\ blk'[t].have = blk[t].have
        /\ blk'[t].idx = blk[t].idx
    BY <1>3, BlockKept
  <2>4. ASSUME NEW u \in Threads, u # t, Holds(u)'
        PROVE  blk'[u] = blk[u] /\ Holds(u)
    BY <1>3, <2>4 DEF ReadAhead, Compress, Goto, Holds, TypeOK
  <2>5. Lo(blk'[t]) /\ Have(blk'[t])
    BY <1>b, <2>2, <2>3
  <2> HIDE DEF Lo, Have
  <2>6. QED
    BY <1>b, <2>1, <2>4, <2>5
<1>4. ASSUME NEW t \in Threads, LockOutAndQueue(t) PROVE Goal
  <2>1. blk[t] \in BlockType /\ Holds(t)
    BY <1>4 DEF LockOutAndQueue, At, HolderInv, Holds
  <2>2. pending' = Queued(blk[t]) /\ out' = out
    BY <1>4 DEF LockOutAndQueue
  <2>3. \A j \in DOMAIN pending' :
          pending'[j] = blk[t] \/ \E l \in DOMAIN pending : pending'[j] = pending[l]
    BY <2>1, <2>2, QueuedEntries DEF TypeOK
  <2>4. \A u \in Threads : Holds(u)' => Holds(u) /\ blk'[u] = blk[u]
    BY <1>4 DEF LockOutAndQueue, Goto, Holds, TypeOK
  <2> HIDE DEF Lo, Have
  <2>5. QED
    BY <1>b, <2>1, <2>2, <2>3, <2>4
<1>5. ASSUME NEW t \in Threads, WriteBlock(t) PROVE Goal
  <2>1. UNCHANGED <<blk, pending>>
    BY <1>5 DEF WriteBlock
  <2>2. \A u \in Threads : Holds(u)' => Holds(u)
    BY <1>5 DEF WriteBlock, Goto, Holds, TypeOK
  <2>3. 1 \in DOMAIN pending
    BY <1>5, HeadType DEF WriteBlock, HeadIsNext
  <2>4. \E new : /\ out' = Append(out, new)
                 /\ new.lo = pending[1].lo /\ new.have = pending[1].have
                 /\ new.idx = pending[1].idx
    BY <1>5 DEF WriteBlock
  <2>5. PICK new : /\ out' = Append(out, new)
                   /\ new.lo = pending[1].lo /\ new.have = pending[1].have
                   /\ new.idx = pending[1].idx
    BY <2>4
  <2>6. Lo(new) /\ Have(new)
    BY <1>b, <2>3, <2>5
  <2>7. \A i \in DOMAIN out' : out'[i] = new \/ (i \in DOMAIN out /\ out'[i] = out[i])
    <3>1. \E S : out \in Seq(S)
      BY DEF TypeOK
    <3>2. /\ DOMAIN out = 1 .. Len(out) /\ DOMAIN out' = 1 .. Len(out) + 1
          /\ Len(out) \in Nat
          /\ \A i \in DOMAIN out : out'[i] = out[i]
          /\ out'[Len(out) + 1] = new
      BY <2>5, <3>1, AppendedTo
    <3>3. QED
      BY <3>2
  <2> HIDE DEF Lo, Have
  <2>8. QED
    BY <1>b, <2>1, <2>2, <2>6, <2>7
<1>6. ASSUME NEW t \in Threads, Advance(t) PROVE Goal
  <2>1. UNCHANGED <<blk, out>> /\ pending' = Tail(pending)
    BY <1>6 DEF Advance
  <2>2. \A u \in Threads : Holds(u)' => Holds(u)
    BY <1>6 DEF Advance, Goto, Holds, TypeOK
  <2>3. pending # <<>>
    BY <1>6 DEF Advance, At, WriteInv, Unlinking, HeadIsNext
  <2>4. \A k \in DOMAIN pending' : k + 1 \in DOMAIN pending
                                   /\ pending'[k] = pending[k + 1]
    BY <2>1, <2>3 DEF TypeOK
  <2> HIDE DEF Lo, Have
  <2>5. QED
    BY <1>b, <2>1, <2>2, <2>4
<1>7. CASE Finish \/ Over
  <2>1. UNCHANGED <<pc, blk, pending, out>>
    BY <1>7 DEF Finish, Over, vars, outVars
  <2> HIDE DEF Lo, Have
  <2>2. QED
    BY <1>b, <2>1 DEF Holds
<1>8. QED
  BY <1>1, <1>2, <1>3, <1>4, <1>5, <1>6, <1>7 DEF Next, Worker

-----------------------------------------------------------------------------
(* The writer's side.                                                      *)

QuietOut == /\ UNCHANGED <<outMut, pending, nextPending, roomForRuns, runs, out>>
            /\ Unlinking' <=> Unlinking

OutStep(t) == \/ LockOutAndQueue(t) \/ WriteBlock(t) \/ Advance(t)
              \/ UnlockOut(t)

LEMMA OutFrame ==
  ASSUME TypeOK, Next
  PROVE  QuietOut \/ Finish \/ \E t \in Threads : OutStep(t)
<1> USE DEF TypeOK, Goto, At, QuietOut, Unlinking, OutStep
<1>1. ASSUME NEW t \in Threads, LockIn(t) PROVE QuietOut
  BY <1>1 DEF LockIn, outVars
<1>2. ASSUME NEW t \in Threads, Leave(t) PROVE QuietOut
  BY <1>2 DEF Leave, outVars
<1>3. ASSUME NEW t \in Threads, ShortRead(t) PROVE QuietOut
  BY <1>3 DEF ShortRead, outVars
<1>4. ASSUME NEW t \in Threads, TakeBlock(t) PROVE QuietOut
  BY <1>4 DEF TakeBlock, outVars
<1>5. ASSUME NEW t \in Threads, ReadAhead(t) PROVE QuietOut
  BY <1>5 DEF ReadAhead, outVars
<1>6. ASSUME NEW t \in Threads, Compress(t) PROVE QuietOut
  BY <1>6 DEF Compress, outVars
<1>7. ASSUME NEW t \in Threads, ExternalFailure(t) PROVE QuietOut
  BY <1>7 DEF ExternalFailure, outVars
<1>8. CASE Over
  BY <1>8 DEF Over, vars, outVars
<1>9. QED
  BY <1>1, <1>2, <1>3, <1>4, <1>5, <1>6, <1>7, <1>8 DEF Next, Worker

(* Only the owner of outMut can be writing or unlinking.                   *)
LEMMA WriterSteps ==
  ASSUME TypeOK, LockInv, NEW t \in Threads
  PROVE  /\ LockOutAndQueue(t) => ~Unlinking /\ ~Unlinking'
         /\ WriteBlock(t)      => ~Unlinking /\ Unlinking'
         /\ Advance(t)         => Unlinking /\ ~Unlinking'
         /\ UnlockOut(t)       => ~Unlinking /\ ~Unlinking'
<1> USE ThreadsAssumption
    DEF TypeOK, LockInv, OutLabels, Goto, At, Unlinking
<1>1. LockOutAndQueue(t) => ~Unlinking /\ ~Unlinking'
  BY DEF LockOutAndQueue
<1>2. WriteBlock(t) => ~Unlinking /\ Unlinking'
  BY DEF WriteBlock
<1>3. Advance(t) => Unlinking /\ ~Unlinking'
  BY DEF Advance
<1>4. UnlockOut(t) => ~Unlinking /\ ~Unlinking'
  BY DEF UnlockOut
<1>5. QED
  BY <1>1, <1>2, <1>3, <1>4

(* What unlinking the head leaves.                                         *)
LEMMA TailEntries ==
  ASSUME TypeOK, pending # <<>>
  PROVE  /\ Tail(pending) \in Seq(BlockType)
         /\ \A k \in DOMAIN Tail(pending) :
              /\ k \in Nat /\ k >= 1
              /\ k + 1 \in DOMAIN pending
              /\ Tail(pending)[k] = pending[k + 1]
         /\ \A l \in DOMAIN pending :
              l # 1 => /\ l - 1 \in DOMAIN Tail(pending)
                       /\ Tail(pending)[l - 1] = pending[l]
<1>1. /\ pending \in Seq(BlockType) /\ Len(pending) \in Nat /\ Len(pending) >= 1
      /\ DOMAIN pending = 1 .. Len(pending)
  BY DEF TypeOK
<1>2. /\ Tail(pending) \in Seq(BlockType)
      /\ DOMAIN Tail(pending) = 1 .. Len(pending) - 1
      /\ \A k \in 1 .. Len(pending) - 1 : Tail(pending)[k] = pending[k + 1]
  BY <1>1
<1>3. QED
  BY <1>1, <1>2

(* The runs counted are numbers, so that the prover may compare them.      *)
LEMMA Indices ==
  ASSUME TypeOK, HolderInv
  PROVE  /\ nextPending \in Nat /\ curRun \in Nat
         /\ \A k \in DOMAIN pending : k \in Nat /\ pending[k].idx \in Nat
         /\ \A t \in Threads : Holds(t) => blk[t].idx \in Nat
<1>1. \A b \in BlockType : b.idx \in Nat
  BY DEF BlockType
<1>2. \A k \in DOMAIN pending : k \in Nat /\ pending[k] \in BlockType
  BY DEF TypeOK
<1>3. QED
  BY <1>1, <1>2 DEF TypeOK, HolderInv

LEMMA CurRunGrows ==
  ASSUME TypeOK, LockInv, Next
  PROVE  curRun' = curRun \/ curRun' = curRun + 1
<1>1. ASSUME NEW t \in Threads, TakeBlock(t) \/ ReadAhead(t)
      PROVE  curRun' = curRun \/ curRun' = curRun + 1
  BY <1>1 DEF TakeBlock, ReadAhead
<1>2. QED
  BY <1>1, InFrame DEF QuietIn

LEMMA WriteStep ==
  ASSUME TypeOK, LockInv, HolderInv, WriteInv, OneOwner, Next
  PROVE  WriteInv'
<1>0. /\ nextPending \in Nat /\ curRun \in Nat /\ Len(out) \in Nat
      /\ curRun' = curRun \/ curRun' = curRun + 1
  <2>1. \E S : out \in Seq(S)
    BY DEF TypeOK
  <2>2. QED
    BY <2>1, Indices, CurRunGrows
<1>1. CASE QuietOut
  <2>1. nextPending' <= curRun'
    BY <1>0, <1>1 DEF QuietOut, WriteInv
  <2>2. QED
    BY <1>1, <2>1 DEF QuietOut, WriteInv, HeadIsNext
<1>2. ASSUME NEW t \in Threads, LockOutAndQueue(t) PROVE WriteInv'
  <2>1. /\ ~Unlinking /\ ~Unlinking'
        /\ UNCHANGED <<out, nextPending, curRun>>
        /\ outMut' # NoThread /\ pending' = Queued(blk[t])
    BY <1>2, WriterSteps, ThreadsAssumption DEF LockOutAndQueue, inVars
  <2>2. blk[t] \in BlockType /\ Holds(t)
    BY <1>2 DEF LockOutAndQueue, At, HolderInv, Holds
  <2>3. \A k \in DOMAIN pending : pending[k].idx # blk[t].idx
    BY <2>2 DEF OneOwner
  <2>4. \A k, l \in DOMAIN pending' : k < l => pending'[k].idx < pending'[l].idx
    BY <2>1, <2>2, <2>3, QueuedEntries DEF TypeOK, WriteInv
  <2>5. QED
    BY <2>1, <2>4 DEF WriteInv
<1>3. ASSUME NEW t \in Threads, WriteBlock(t) PROVE WriteInv'
  <2>1. /\ ~Unlinking /\ Unlinking' /\ HeadIsNext
        /\ UNCHANGED <<pending, nextPending, outMut, curRun>>
    BY <1>3, WriterSteps DEF WriteBlock, inVars
  <2>2. outMut # NoThread
    BY <1>3, ThreadsAssumption DEF WriteBlock, At, LockInv, OutLabels
  <2>3. Len(out') = Len(out) + 1
    <3>1. \E S : out \in Seq(S)
      BY DEF TypeOK
    <3>2. \E e : out' = Append(out, e)
      BY <1>3 DEF WriteBlock
    <3>3. QED
      BY <3>1, <3>2, AppendedTo
  <2>4. QED
    BY <2>1, <2>2, <2>3 DEF WriteInv, HeadIsNext
<1>4. ASSUME NEW t \in Threads, Advance(t) PROVE WriteInv'
  <2>1. /\ Unlinking /\ ~Unlinking' /\ pending' = Tail(pending)
        /\ nextPending' = nextPending + 1
        /\ UNCHANGED <<out, outMut, curRun>>
    BY <1>4, WriterSteps DEF Advance, inVars
  <2>2. outMut # NoThread
    BY <1>4, ThreadsAssumption DEF Advance, At, LockInv, OutLabels
  <2>3. Len(out) = nextPending + 1 /\ HeadIsNext
    BY <2>1 DEF WriteInv
  <2>4. nextPending' <= curRun'
    <3>1. pending[1].idx \in nextPending .. curRun - 1
      BY <2>3, HeadType DEF HeadIsNext, OneOwner
    <3>2. QED
      BY <1>0, <2>1, <3>1
  <2>5. \A k, l \in DOMAIN pending' : k < l => pending'[k].idx < pending'[l].idx
    BY <2>1, <2>3, TailEntries DEF HeadIsNext, WriteInv
  <2>6. QED
    BY <2>1, <2>2, <2>3, <2>4, <2>5 DEF WriteInv
<1>5. ASSUME NEW t \in Threads, UnlockOut(t) PROVE WriteInv'
  <2>1. /\ ~Unlinking /\ ~Unlinking' /\ ~HeadIsNext
        /\ UNCHANGED <<out, pending, nextPending, curRun>>
    BY <1>5, WriterSteps DEF UnlockOut, inVars
  <2>2. QED
    BY <2>1 DEF WriteInv, HeadIsNext
<1>6. CASE Finish
  BY <1>6 DEF Finish, inVars, WriteInv, Unlinking, HeadIsNext
<1>7. QED
  BY <1>1, <1>2, <1>3, <1>4, <1>5, <1>6, OutFrame DEF OutStep

(* When every thread has left its loop, every run taken has been written.  *)
LEMMA AllWritten ==
  ASSUME TypeOK, LockInv, HolderInv, WriteInv, OneOwner,
         \A t \in Threads : pc[t] = "done"
  PROVE  Len(out) = curRun /\ nextPending = curRun /\ pending = <<>>
<1>1. ~Unlinking /\ \A t \in Threads : ~Holds(t)
  BY DEF Unlinking, Holds
<1>2. outMut = NoThread
  BY DEF TypeOK, LockInv, OutLabels
<1>3. ~HeadIsNext /\ Len(out) = nextPending /\ nextPending <= curRun
  BY <1>1, <1>2 DEF WriteInv
<1>4. ASSUME NEW k \in DOMAIN pending PROVE FALSE
  <2>1. pending # <<>> /\ 1 \in DOMAIN pending /\ k \in Nat /\ k >= 1
    BY DEF TypeOK
  <2>2. nextPending \in nextPending .. curRun - 1
    BY <2>1, Indices DEF OneOwner
  <2>3. PICK l \in DOMAIN pending : pending[l].idx = nextPending
    BY <1>1, <2>2 DEF OneOwner, QueuedAt, HeldBy
  <2>4. l = 1 \/ 1 < l
    BY <2>3 DEF TypeOK
  <2>5. pending[1].idx >= nextPending
    BY <2>1 DEF OneOwner
  <2>6. pending[1].idx = nextPending
    BY <2>1, <2>3, <2>4, <2>5, Indices DEF WriteInv
  <2>7. QED
    BY <1>3, <2>1, <2>6 DEF HeadIsNext
<1>5. pending = <<>>
  BY <1>4, HeadType
<1>6. nextPending = curRun
  <2>1. ASSUME nextPending < curRun PROVE FALSE
    <3>1. nextPending \in nextPending .. curRun - 1
      BY <2>1, Indices
    <3>2. QED
      BY <1>1, <1>4, <3>1 DEF OneOwner, HeldBy
  <2>2. QED
    BY <1>3, <2>1, Indices
<1>7. QED
  BY <1>3, <1>5, <1>6

LEMMA TableStep ==
  ASSUME TypeOK, LockInv, HolderInv, WriteInv, TableInv, OneOwner, Next
  PROVE  TableInv'
<1>0. /\ nextPending \in Nat /\ curRun \in Nat /\ Len(out) \in Nat
      /\ roomForRuns \in Nat
  <2>1. \E S : out \in Seq(S)
    BY DEF TypeOK
  <2>2. QED
    BY <2>1, Indices DEF TypeOK
<1>a. CASE phase # "joining"
  <2>1. UNCHANGED vars
    BY <1>a DEF Next, Worker, LockIn, Leave, ShortRead, TakeBlock, ReadAhead,
                Compress, LockOutAndQueue, WriteBlock, Advance, UnlockOut,
                ExternalFailure, Finish, Over, At, Running
  <2>2. QED
    BY <2>1 DEF vars, inVars, outVars, TableInv
<1>b. CASE phase = "joining"
  <2>0. DOMAIN runs = 0 .. Len(out) - 1 /\ roomForRuns >= 2
        /\ Len(out) <= roomForRuns
    BY <1>b DEF TableInv
  <2>1. CASE QuietOut /\ ~Finish
    <3>1. phase' # "finished"
      BY <1>b, <2>1 DEF Next, Worker, LockIn, Leave, ShortRead, TakeBlock,
                ReadAhead, Compress, LockOutAndQueue, WriteBlock, Advance,
                UnlockOut, ExternalFailure, Over, vars
    <3>2. QED
      BY <2>0, <2>1, <3>1 DEF QuietOut, TableInv
  <2>2. ASSUME NEW t \in Threads, LockOutAndQueue(t) \/ Advance(t) \/ UnlockOut(t)
        PROVE  TableInv'
    <3>1. UNCHANGED <<roomForRuns, runs, out, phase>>
      BY <2>2 DEF LockOutAndQueue, Advance, UnlockOut
    <3>2. QED
      BY <1>b, <2>0, <3>1 DEF TableInv
  <2>3. ASSUME NEW t \in Threads, WriteBlock(t) PROVE TableInv'
    <3>1. pending[1].idx = nextPending /\ Len(out) = nextPending
      BY <2>3, WriterSteps DEF WriteBlock, HeadIsNext, WriteInv
    <3>2. Len(out') = Len(out) + 1
      <4>1. \E S : out \in Seq(S)
        BY DEF TypeOK
      <4>2. \E e : out' = Append(out, e)
        BY <2>3 DEF WriteBlock
      <4>3. QED
        BY <4>1, <4>2, AppendedTo
    <3>3. DOMAIN runs' = (DOMAIN runs) \cup {pending[1].idx}
      BY <2>3 DEF WriteBlock
    <3>4. DOMAIN runs' = 0 .. Len(out') - 1
      BY <1>0, <2>0, <3>1, <3>2, <3>3
    <3>5. /\ roomForRuns' = RoomFor(Len(out))
          /\ phase' = phase
      BY <2>3, <3>1 DEF WriteBlock
    <3>6. roomForRuns' >= 2 /\ Len(out') <= roomForRuns'
      BY <1>0, <2>0, <3>2, <3>5 DEF RoomFor
    <3>7. QED
      BY <1>b, <3>4, <3>5, <3>6 DEF TableInv
  <2>4. CASE Finish
    <3>1. Len(out) = curRun
      BY <2>4, AllWritten DEF Finish
    <3>2. /\ DOMAIN runs' = (DOMAIN runs) \cup {curRun}
          /\ roomForRuns' = RoomFor(curRun)
          /\ UNCHANGED <<out, curRun, pc>> /\ phase' = "finished"
          /\ \A t \in Threads : pc[t] = "done"
      BY <2>4 DEF Finish, inVars
    <3>3. DOMAIN runs' = 0 .. curRun'
      BY <1>0, <2>0, <3>1, <3>2
    <3>4. roomForRuns' >= 2 /\ Len(out') <= roomForRuns' /\ curRun' < roomForRuns'
      BY <1>0, <2>0, <3>1, <3>2 DEF RoomFor
    <3>5. QED
      BY <3>2, <3>3, <3>4 DEF TableInv
  <2>5. QED
    BY <2>1, <2>2, <2>3, <2>4, OutFrame DEF OutStep
<1>c. QED
  BY <1>a, <1>b

-----------------------------------------------------------------------------
(* Every run taken and not yet written has exactly one owner.              *)

(* A step that moves no run keeps the owners.                              *)
LEMMA OwnersKept ==
  ASSUME OneOwner, UNCHANGED <<pending, nextPending, curRun>>,
         \A t \in Threads : Holds(t)' => Holds(t),
         \A t \in Threads : Holds(t) => Holds(t)' /\ blk'[t].idx = blk[t].idx
  PROVE  OneOwner'
<1>1. /\ \A u \in Threads : Holds(u)' => blk'[u].idx \in nextPending .. curRun - 1
      /\ \A u, v \in Threads :
           Holds(u)' /\ Holds(v)' /\ blk'[u].idx = blk'[v].idx => u = v
      /\ \A u \in Threads, k \in DOMAIN pending :
           Holds(u)' => blk'[u].idx # pending[k].idx
  BY DEF OneOwner
<1>2. \A i \in nextPending .. curRun - 1 :
        \/ /\ \E u \in Threads : Holds(u)' /\ blk'[u].idx = i
           /\ \A k \in DOMAIN pending : ~(pending[k].idx = i)
        \/ \E k \in DOMAIN pending : pending[k].idx = i
  BY DEF OneOwner, QueuedAt, HeldBy
<1>3. /\ \A k \in DOMAIN pending : pending[k].idx \in nextPending .. curRun - 1
      /\ \A k, l \in DOMAIN pending : pending[k].idx = pending[l].idx => k = l
  BY DEF OneOwner
<1>4. QED
  BY <1>1, <1>2, <1>3 DEF OneOwner, QueuedAt, HeldBy

LEMMA OwnerStep ==
  ASSUME TypeOK, LockInv, HolderInv, WriteInv, OneOwner, Next,
         TypeOK', HolderInv', WriteInv'
  PROVE  OneOwner'
<1>0. /\ nextPending \in Nat /\ curRun \in Nat
      /\ \A k \in DOMAIN pending : k \in Nat /\ pending[k].idx \in Nat
      /\ \A t \in Threads : Holds(t) => blk[t].idx \in Nat
  BY Indices
<1>a. \A k, l \in DOMAIN pending' : pending'[k].idx = pending'[l].idx => k = l
  <2>1. \A k \in DOMAIN pending' : k \in Nat /\ pending'[k].idx \in Nat
    <3>1. \A b \in BlockType : b.idx \in Nat
      BY DEF BlockType
    <3>2. pending' \in Seq(BlockType)
      BY DEF TypeOK
    <3>3. \A k \in DOMAIN pending' : k \in Nat /\ pending'[k] \in BlockType
      BY <3>2
    <3>4. QED
      BY <3>1, <3>3
  <2>2. \A k, l \in DOMAIN pending' : k < l => pending'[k].idx < pending'[l].idx
    BY DEF WriteInv
  <2>3. QED
    BY <2>1, <2>2
<1>2. ASSUME NEW t \in Threads,
             \/ LockIn(t) \/ Leave(t) \/ ShortRead(t) \/ WriteBlock(t)
             \/ UnlockOut(t) \/ ExternalFailure(t)
      PROVE  OneOwner'
  <2>1. UNCHANGED <<blk, pending, nextPending, curRun>>
    BY <1>2 DEF LockIn, Leave, ShortRead, WriteBlock, UnlockOut,
                ExternalFailure, inVars, outVars
  <2>2. \A u \in Threads : Holds(u)' <=> Holds(u)
    BY <1>2 DEF LockIn, Leave, ShortRead, WriteBlock, UnlockOut,
                ExternalFailure, Holds, At, Goto, TypeOK
  <2>3. QED
    BY <2>1, <2>2, OwnersKept
<1>3. ASSUME NEW t \in Threads, ReadAhead(t) \/ Compress(t) PROVE OneOwner'
  <2>1. UNCHANGED <<pending, nextPending, curRun>>
    BY <1>3 DEF ReadAhead, Compress, inVars, outVars
  <2>2. \A u \in Threads : Holds(u)' <=> Holds(u)
    BY <1>3 DEF ReadAhead, Compress, Holds, At, Goto, TypeOK
  <2>3. blk'[t].idx = blk[t].idx
    BY <1>3, BlockKept
  <2>4. \A u \in Threads : u # t => blk'[u] = blk[u]
    BY <1>3 DEF ReadAhead, Compress, TypeOK
  <2>5. QED
    BY <2>1, <2>2, <2>3, <2>4, OwnersKept
<1>4. CASE Finish \/ Over
  <2>1. UNCHANGED <<pc, blk, pending, nextPending, curRun>>
    BY <1>4 DEF Finish, Over, vars, inVars, outVars
  <2>2. QED
    BY <2>1, OwnersKept DEF Holds
<1>5. ASSUME NEW t \in Threads, TakeBlock(t) PROVE OneOwner'
  <2>1. /\ UNCHANGED <<pending, nextPending>>
        /\ curRun' = curRun + 1
        /\ ~Holds(t) /\ Holds(t)' /\ blk'[t].idx = curRun
        /\ \A u \in Threads : u # t => /\ Holds(u)' <=> Holds(u)
                                      /\ blk'[u] = blk[u]
    BY <1>5 DEF TakeBlock, outVars, At, Goto, Holds, TypeOK
  <2>2. nextPending <= curRun
    BY DEF WriteInv
  <2>3. \A u \in Threads : Holds(u)' => blk'[u].idx \in nextPending .. curRun
    BY <1>0, <2>1, <2>2 DEF OneOwner
  <2>4. \A k \in DOMAIN pending : pending[k].idx \in nextPending .. curRun - 1
    BY DEF OneOwner
  <2>5. ASSUME NEW i \in nextPending .. curRun
        PROVE  \/ /\ \E u \in Threads : HeldBy(i, u)'
                  /\ \A k \in DOMAIN pending : ~QueuedAt(i, k)
               \/ \E k \in DOMAIN pending : QueuedAt(i, k)
    <3>1. CASE i = curRun
      BY <1>0, <2>1, <2>4, <3>1 DEF HeldBy, QueuedAt
    <3>2. CASE i \in nextPending .. curRun - 1
      BY <2>1, <3>2 DEF OneOwner, HeldBy
    <3>3. QED
      BY <1>0, <3>1, <3>2
  <2>6. ASSUME NEW u \in Threads, NEW v \in Threads, Holds(u)', Holds(v)',
               blk'[u].idx = blk'[v].idx
        PROVE  u = v
    <3>1. \A w \in Threads : w # t /\ Holds(w)' => blk'[w].idx < curRun
      BY <1>0, <2>1 DEF OneOwner
    <3>2. CASE u # t /\ v # t
      BY <2>1, <2>6, <3>2 DEF OneOwner
    <3>3. CASE u = t \/ v = t
      BY <1>0, <2>1, <2>6, <3>1, <3>3
    <3>4. QED
      BY <3>2, <3>3
  <2>7. ASSUME NEW u \in Threads, NEW k \in DOMAIN pending, Holds(u)'
        PROVE  blk'[u].idx # pending[k].idx
    BY <1>0, <2>1, <2>4, <2>7 DEF OneOwner
  <2>8. curRun' - 1 = curRun
    BY <1>0, <2>1
  <2>9. QED
    BY <1>a, <2>1, <2>3, <2>4, <2>5, <2>6, <2>7, <2>8, <1>0 DEF OneOwner, QueuedAt
<1>6. ASSUME NEW t \in Threads, LockOutAndQueue(t) PROVE OneOwner'
  <2>1. /\ UNCHANGED <<nextPending, curRun>>
        /\ pending' = Queued(blk[t])
        /\ Holds(t) /\ ~Holds(t)'
        /\ \A u \in Threads : u # t => /\ Holds(u)' <=> Holds(u)
                                      /\ blk'[u] = blk[u]
    BY <1>6 DEF LockOutAndQueue, inVars, At, Goto, Holds, TypeOK
  <2>2. blk[t] \in BlockType
    BY <2>1 DEF HolderInv
  <2>3. /\ \A j \in DOMAIN pending' :
              \/ pending'[j] = blk[t]
              \/ \E l \in DOMAIN pending : pending'[j] = pending[l]
        /\ \E j \in DOMAIN pending' : pending'[j] = blk[t]
        /\ \A l \in DOMAIN pending :
              \E j \in DOMAIN pending' : pending'[j] = pending[l]
    <3>1. pending \in Seq(BlockType)
      BY DEF TypeOK
    <3>2. /\ \A j \in DOMAIN Queued(blk[t]) :
                \/ Queued(blk[t])[j] = blk[t]
                \/ \E l \in DOMAIN pending : Queued(blk[t])[j] = pending[l]
          /\ \E j \in DOMAIN Queued(blk[t]) : Queued(blk[t])[j] = blk[t]
          /\ \A l \in DOMAIN pending :
                \E j \in DOMAIN Queued(blk[t]) : Queued(blk[t])[j] = pending[l]
      BY <2>2, <3>1, QueuedEntries
    <3>3. QED
      BY <2>1, <3>2
  <2>4. \A u \in Threads : Holds(u)' => u # t /\ Holds(u) /\ blk'[u] = blk[u]
    BY <2>1
  <2>5. \A u \in Threads : Holds(u)' => blk'[u].idx \in nextPending .. curRun - 1
    BY <2>4 DEF OneOwner
  <2>6. \A k \in DOMAIN pending' : pending'[k].idx \in nextPending .. curRun - 1
    BY <2>1, <2>3 DEF OneOwner
  <2>7. ASSUME NEW i \in nextPending .. curRun - 1
        PROVE  \/ /\ \E u \in Threads : HeldBy(i, u)'
                  /\ \A k \in DOMAIN pending' : ~(pending'[k].idx = i)
               \/ \E k \in DOMAIN pending' : pending'[k].idx = i
    <3>1. CASE \E k \in DOMAIN pending : QueuedAt(i, k)
      BY <2>3, <3>1 DEF QueuedAt
    <3>2. CASE blk[t].idx = i
      BY <2>3, <3>2
    <3>3. CASE \E u \in Threads : u # t /\ HeldBy(i, u)
      BY <2>1, <3>3 DEF HeldBy
    <3>4. QED
      BY <3>1, <3>2, <3>3 DEF OneOwner, HeldBy
  <2>8. \A u, v \in Threads :
          Holds(u)' /\ Holds(v)' /\ blk'[u].idx = blk'[v].idx => u = v
    BY <2>4 DEF OneOwner
  <2>9. \A u \in Threads, k \in DOMAIN pending' :
          Holds(u)' => blk'[u].idx # pending'[k].idx
    BY <2>1, <2>3, <2>4 DEF OneOwner
  <2>10. QED
    BY <1>a, <2>1, <2>5, <2>6, <2>7, <2>8, <2>9 DEF OneOwner, QueuedAt
<1>7. ASSUME NEW t \in Threads, Advance(t) PROVE OneOwner'
  <2>1. /\ nextPending' = nextPending + 1 /\ pending' = Tail(pending)
        /\ UNCHANGED <<blk, curRun>>
        /\ \A u \in Threads : Holds(u)' <=> Holds(u)
    BY <1>7 DEF Advance, inVars, At, Goto, Holds, TypeOK
  <2>2. pending # <<>> /\ pending[1].idx = nextPending /\ 1 \in DOMAIN pending
    BY <1>7, WriterSteps, HeadType DEF WriteInv, HeadIsNext
  <2>3. /\ \A k \in DOMAIN pending' : /\ k \in Nat /\ k >= 1
                                     /\ k + 1 \in DOMAIN pending
                                     /\ pending'[k] = pending[k + 1]
        /\ \A l \in DOMAIN pending :
             l # 1 => l - 1 \in DOMAIN pending' /\ pending'[l - 1] = pending[l]
    BY <2>1, <2>2, TailEntries
  <2>4. \A u \in Threads :
          Holds(u)' => blk'[u].idx \in nextPending + 1 .. curRun - 1
    <3>1. \A u \in Threads : Holds(u) => /\ blk[u].idx \in nextPending .. curRun - 1
                                        /\ blk[u].idx # pending[1].idx
      BY <2>2 DEF OneOwner
    <3>2. QED
      BY <1>0, <2>1, <2>2, <3>1
  <2>5. \A k \in DOMAIN pending' :
          pending'[k].idx \in nextPending + 1 .. curRun - 1
    <3>1. ASSUME NEW k \in DOMAIN pending'
          PROVE  pending[k + 1].idx > pending[1].idx
      BY <1>0, <2>2, <2>3 DEF WriteInv
    <3>2. \A k \in DOMAIN pending' : pending[k + 1].idx \in nextPending .. curRun - 1
      BY <2>3 DEF OneOwner
    <3>3. QED
      BY <1>0, <2>2, <2>3, <3>1, <3>2
  <2>6. ASSUME NEW i \in nextPending + 1 .. curRun - 1
        PROVE  \/ /\ \E u \in Threads : HeldBy(i, u)'
                  /\ \A k \in DOMAIN pending' : ~(pending'[k].idx = i)
               \/ \E k \in DOMAIN pending' : pending'[k].idx = i
    <3>1. i \in nextPending .. curRun - 1 /\ i # nextPending
      BY <1>0
    <3>2. CASE \E u \in Threads : HeldBy(i, u)
      <4>1. \E u \in Threads : HeldBy(i, u)'
        BY <2>1, <3>2 DEF HeldBy
      <4>2. QED
        BY <4>1
    <3>3. CASE \E k \in DOMAIN pending : QueuedAt(i, k)
      <4>1. PICK k \in DOMAIN pending : pending[k].idx = i
        BY <3>3 DEF QueuedAt
      <4>2. k # 1
        BY <2>2, <3>1, <4>1
      <4>3. k - 1 \in DOMAIN pending' /\ pending'[k - 1].idx = i
        BY <2>3, <4>1, <4>2
      <4>4. QED
        BY <4>3
    <3>4. QED
      BY <3>1, <3>2, <3>3 DEF OneOwner
  <2>7. \A u, v \in Threads :
          Holds(u)' /\ Holds(v)' /\ blk'[u].idx = blk'[v].idx => u = v
    BY <2>1 DEF OneOwner
  <2>8. \A u \in Threads, k \in DOMAIN pending' :
          Holds(u)' => blk'[u].idx # pending'[k].idx
    BY <2>1, <2>3 DEF OneOwner
  <2>9. QED
    BY <1>a, <2>1, <2>4, <2>5, <2>6, <2>7, <2>8 DEF OneOwner, QueuedAt
<1>8. QED
  BY <1>2, <1>3, <1>4, <1>5, <1>6, <1>7 DEF Next, Worker

-----------------------------------------------------------------------------
(* What is written continues what was written.                             *)

LEMMA OrderStep ==
  ASSUME TypeOK, LockInv, HolderInv, WriteInv, OneOwner, SliceInv,
         OutputInOrder, Next
  PROVE  OutputInOrder'
<1>1. CASE out' = out
  BY <1>1 DEF OutputInOrder
<1>2. ASSUME NEW t \in Threads, WriteBlock(t) PROVE OutputInOrder'
  <2> DEFINE b == pending[1]
             new == [idx |-> b.idx, lo |-> b.lo, have |-> b.have,
                     keep |-> b.keep, off |-> OutPos, size |-> b.size]
  <2>1. out' = Append(out, new)
    BY <1>2 DEF WriteBlock
  <2>2. /\ Len(out) \in Nat /\ DOMAIN out = 1 .. Len(out)
        /\ DOMAIN out' = 1 .. Len(out) + 1
        /\ \A i \in DOMAIN out : out'[i] = out[i]
        /\ out'[Len(out) + 1] = new
    <3>1. \E S : out \in Seq(S)
      BY DEF TypeOK
    <3>2. QED
      BY <2>1, <3>1, AppendedTo
  <2>3. /\ b.idx = nextPending /\ Len(out) = nextPending /\ 1 \in DOMAIN pending
    BY <1>2, WriterSteps, HeadType DEF WriteBlock, HeadIsNext, WriteInv
  <2>4. b.lo = nextPending * RunUnits /\ b.idx <= curRun - 1
    BY <2>3, Indices DEF SliceInv, Slice, OneOwner
  <2>5. /\ new.idx = nextPending /\ new.lo = b.lo /\ new.off = OutPos
    BY <2>3
  <2> HIDE DEF new, b
  <2>6. CASE out = <<>>
    <3>1. Len(out) = 0 /\ OutPos = OutStart
      BY <2>6 DEF OutPos
    <3>2. new.lo = 0
      BY <2>3, <2>4, <2>5, <3>1, RunUnitsType
    <3>3. QED
      BY <2>2, <2>3, <2>5, <3>1, <3>2 DEF OutputInOrder
  <2>7. CASE out # <<>>
    <3>1. Len(out) >= 1 /\ Len(out) \in DOMAIN out
      BY <2>2, <2>7 DEF TypeOK
    <3>2. out[Len(out)].idx = Len(out) - 1
      BY <3>1 DEF OutputInOrder
    <3>3. /\ out[Len(out)].lo = (Len(out) - 1) * RunUnits
          /\ out[Len(out)].have = RunUnits
      BY <2>2, <2>3, <2>4, <3>1, <3>2, Indices DEF SliceInv, Slice
    <3>4. new.lo = out[Len(out)].lo + out[Len(out)].have
      BY <2>2, <2>3, <2>4, <2>5, <3>1, <3>3, NextRun
    <3>5. new.off = out[Len(out)].off + out[Len(out)].size
      BY <2>5, <2>7 DEF OutPos
    <3>6. ASSUME NEW i \in DOMAIN out'
          PROVE  /\ out'[i].idx = i - 1
                 /\ IF i = 1 THEN out'[i].lo = 0 /\ out'[i].off = OutStart
                    ELSE /\ out'[i].lo = out'[i - 1].lo + out'[i - 1].have
                         /\ out'[i].off = out'[i - 1].off + out'[i - 1].size
      <4>1. CASE i \in DOMAIN out
        <5>1. i # 1 => i - 1 \in DOMAIN out
          BY <2>2, <4>1
        <5>2. QED
          BY <2>2, <4>1, <5>1 DEF OutputInOrder
      <4>2. CASE i = Len(out) + 1
        <5>1. i # 1 /\ i - 1 = Len(out)
          BY <2>2, <3>1, <4>2
        <5>2. out'[i - 1] = out[Len(out)] /\ out'[i] = new
          BY <2>2, <3>1, <4>2, <5>1
        <5>3. out'[i].idx = i - 1
          BY <2>3, <2>5, <5>1, <5>2
        <5>4. QED
          BY <3>4, <3>5, <5>1, <5>2, <5>3
      <4>3. QED
        BY <2>2, <4>1, <4>2
    <3>7. QED
      BY <3>6 DEF OutputInOrder
  <2>8. QED
    BY <2>6, <2>7
<1>3. ASSUME NEW t \in Threads,
             LockOutAndQueue(t) \/ Advance(t) \/ UnlockOut(t)
      PROVE  out' = out
  BY <1>3 DEF LockOutAndQueue, Advance, UnlockOut
<1>4. QED
  BY <1>1, <1>2, <1>3, OutFrame DEF QuietOut, Finish, OutStep

-----------------------------------------------------------------------------
(* The inductive invariant.                                                *)

LEMMA InitIndInv == Init => IndInv
<1> SUFFICES ASSUME Init PROVE IndInv
  OBVIOUS
<1>1. TypeOK
  BY InitTypeOK
<1>2. LockInv
  BY ThreadsAssumption DEF Init, LockInv, InLabels, OutLabels
<1>3. \A t \in Threads : ~Holds(t)
  BY DEF Init, Holds
<1>4. HolderInv
  BY <1>3 DEF Init, HolderInv
<1>5. ~Refilling /\ ~Unlinking
  BY DEF Init, Refilling, Unlinking
<1>6. ReadInv
  <2>1. /\ job.len \in Nat /\ job.len >= 0
        /\ job.bytes \in Nat \cup {READ_UNTIL_EOF}
    BY <1>1, JobsAssumption DEF TypeOK, JobType
  <2>2. /\ nextIn = ReadNext(bytesRemain, 0) /\ inPos = nextIn.size
        /\ job \in Jobs /\ curRun = 0
        /\ bytesRemain \in Nat \cup {READ_UNTIL_EOF}
    BY <2>1 DEF Init
  <2>3. /\ nextIn.lo = 0 /\ nextIn.size <= RunUnits /\ nextIn.size \in Nat
        /\ 0 + nextIn.size <= job.len
    BY <2>1, <2>2, ReadNextType
  <2>4. inPos = nextIn.lo + nextIn.size /\ inPos <= job.len
    BY <2>2, <2>3
  <2>5. nextIn.lo = curRun * RunUnits
    BY <2>2, <2>3, RunUnitsType
  <2>6. nextIn.size = ReadNext(bytesRemain, nextIn.lo).size
    BY <2>2, <2>3
  <2>7. QED
    BY <1>5, <2>3, <2>4, <2>5, <2>6 DEF ReadInv
<1>7. pending = <<>> /\ nextPending = 0 /\ curRun = 0 /\ out = <<>>
      /\ Len(out) = 0 /\ Len(pending) = 0 /\ DOMAIN pending = {} /\ DOMAIN out = {}
  BY DEF Init
<1>8. WriteInv
  BY <1>5, <1>7 DEF WriteInv, HeadIsNext
<1>9. TableInv
  <2>1. /\ roomForRuns = 2 /\ phase = "joining" /\ DOMAIN runs = {}
    BY DEF Init
  <2>2. 0 .. Len(out) - 1 = {}
    BY <1>7
  <2>3. QED
    BY <1>7, <2>1, <2>2 DEF TableInv
<1>10. OneOwner
  <2>1. nextPending .. curRun - 1 = {}
    BY <1>7
  <2>2. QED
    BY <1>3, <1>7, <2>1 DEF OneOwner
<1>11. SliceInv
  BY <1>3, <1>7 DEF SliceInv
<1>12. OutputInOrder
  BY <1>7 DEF OutputInOrder
<1>13. QED
  BY <1>1, <1>2, <1>4, <1>6, <1>8, <1>9, <1>10, <1>11, <1>12 DEF IndInv

LEMMA StepIndInv == IndInv /\ [Next]_vars => IndInv'
<1>1. ASSUME IndInv, Next PROVE IndInv'
  <2> USE <1>1 DEF IndInv
  <2>1. TypeOK'
    BY TypeStep
  <2>2. LockInv' /\ HolderInv'
    BY LockStep, HolderStep
  <2>3. ReadInv' /\ SliceInv'
    BY ReadStep, SliceStep
  <2>4. WriteInv' /\ TableInv'
    BY WriteStep, TableStep
  <2>5. OneOwner'
    BY <2>1, <2>2, <2>4, OwnerStep
  <2>6. OutputInOrder'
    BY OrderStep
  <2>7. QED
    BY <2>1, <2>2, <2>3, <2>4, <2>5, <2>6
<1>2. ASSUME IndInv, UNCHANGED vars PROVE IndInv'
  <2>1. TypeOK' /\ LockInv' /\ TableInv'
    BY <1>2 DEF IndInv, TypeOK, LockInv, TableInv, vars, inVars, outVars
  <2>2. HolderInv'
    BY <1>2 DEF IndInv, HolderInv, vars, inVars, outVars, Holds
  <2>3. ReadInv'
    BY <1>2 DEF IndInv, ReadInv, vars, inVars, outVars, Refilling, Dry,
                ReadNext, MinOf
  <2>4. WriteInv'
    BY <1>2 DEF IndInv, WriteInv, vars, inVars, outVars, Unlinking, HeadIsNext
  <2>5. OneOwner'
    BY <1>2 DEF IndInv, OneOwner, vars, inVars, outVars, Holds, HeldBy,
                QueuedAt
  <2>6. SliceInv'
    BY <1>2 DEF IndInv, SliceInv, vars, inVars, outVars, Holds, Slice,
                Refilling, Dry, ReadNext, MinOf
  <2>7. OutputInOrder'
    BY <1>2 DEF IndInv, OutputInOrder, vars, inVars, outVars
  <2>8. QED
    BY <2>1, <2>2, <2>3, <2>4, <2>5, <2>6, <2>7 DEF IndInv
<1>3. QED
  BY <1>1, <1>2

(* The invariant of insertBLKX: the two locks, the read-ahead, the ordered *)
(* list and the run table stay consistent, for any number of threads, any  *)
(* sizes, any input and any choice of the scheduler.                       *)
THEOREM Inductive == Spec => []IndInv
  BY InitIndInv, StepIndInv, PTL DEF Spec

(* Every variable keeps its type, bytesRemain above all: the unsigned      *)
(* subtraction of blockRead never wraps.                                   *)
THEOREM TypeCorrect == Spec => []TypeOK
<1>1. IndInv => TypeOK
  BY DEF IndInv
<1>2. QED
  BY <1>1, Inductive, PTL

(* No run is dropped and none is written twice.                            *)
THEOREM EveryRunOwned == Spec => []OneOwner
<1>1. IndInv => OneOwner
  BY DEF IndInv
<1>2. QED
  BY <1>1, Inductive, PTL

(* The file holds the runs in order, without gaps, whatever the order in   *)
(* which the threads finished them.                                        *)
THEOREM OrderedOutput == Spec => []OutputInOrder
<1>1. IndInv => OutputInOrder
  BY DEF IndInv
<1>2. QED
  BY <1>1, Inductive, PTL

(* blockWrite never stores beyond the run table.                           *)
THEOREM TableFits == Spec => []RunTableFits
<1>1. IndInv => RunTableFits
  <2> SUFFICES ASSUME IndInv PROVE RunTableFits
    OBVIOUS
  <2>1. /\ curRun \in Nat /\ roomForRuns \in Nat /\ Len(out) \in Nat
    <3>1. \E S : out \in Seq(S)
      BY DEF IndInv, TypeOK
    <3>2. QED
      BY <3>1 DEF IndInv, TypeOK
  <2>2. QED
    BY <2>1 DEF IndInv, TableInv, RunTableFits
<1>2. QED
  BY <1>1, Inductive, PTL

(* When insertBLKX returns, every run it read is in the file.              *)
THEOREM AllRunsWritten == Spec => []NothingLeftBehind
<1>1. IndInv => NothingLeftBehind
  BY AllWritten DEF IndInv, TableInv, NothingLeftBehind
<1>2. QED
  BY <1>1, Inductive, PTL

(* A run table entry is written once: blockWrite never meets an index      *)
(* again, and the terminator takes one that no run has.                    *)
THEOREM FinalRuns == Spec => RunsAreFinal
<1> DEFINE Kept == \A i \in DOMAIN runs : i \in DOMAIN runs' /\ runs'[i] = runs[i]
<1>1. ASSUME IndInv, [Next]_vars PROVE [Kept]_vars
  <2> USE DEF IndInv
  <2>1. CASE runs' = runs
    BY <2>1
  <2>2. Len(out) \in Nat /\ curRun \in Nat
    <3>1. \E S : out \in Seq(S)
      BY <1>1 DEF TypeOK
    <3>2. QED
      BY <1>1, <3>1 DEF TypeOK
  <2>3. ASSUME NEW t \in Threads, WriteBlock(t) PROVE Kept
    <3>1. pending[1].idx = Len(out)
      BY <1>1, <2>3, WriterSteps DEF WriteBlock, HeadIsNext, WriteInv
    <3>2. DOMAIN runs = 0 .. Len(out) - 1
      BY <1>1, <2>3 DEF TableInv, WriteBlock, At, Running
    <3>3. pending[1].idx \notin DOMAIN runs
      BY <2>2, <3>1, <3>2
    <3>4. QED
      BY <2>3, <3>3 DEF WriteBlock
  <2>4. CASE Finish
    <3>1. Len(out) = curRun
      BY <1>1, <2>4, AllWritten DEF Finish
    <3>2. DOMAIN runs = 0 .. Len(out) - 1
      BY <1>1, <2>4 DEF TableInv, Finish, Running
    <3>3. curRun \notin DOMAIN runs
      BY <2>2, <3>1, <3>2
    <3>4. QED
      BY <2>4, <3>3 DEF Finish
  <2>5. ASSUME NEW t \in Threads,
               LockOutAndQueue(t) \/ Advance(t) \/ UnlockOut(t)
        PROVE  runs' = runs
    BY <2>5 DEF LockOutAndQueue, Advance, UnlockOut
  <2>6. QED
    BY <1>1, <2>1, <2>3, <2>4, <2>5, OutFrame DEF QuietOut, OutStep, vars, outVars
<1>2. QED
  BY <1>1, Inductive, PTL DEF Spec, RunsAreFinal

-----------------------------------------------------------------------------
(***************************************************************************)
(* The data: the threads of insertBLKX implement the sequential writer,    *)
(* and what that takes: every block is determined by its place in the      *)
(* input.                                                                  *)
(***************************************************************************)

(* The input.                                                              *)

(* The amounts of a job are numbers, and the call never wants less than    *)
(* nothing.                                                                *)
LEMMA JobFacts ==
  ASSUME job \in Jobs
  PROVE  /\ job.len \in Nat
         /\ job.bytes \in Nat \cup {READ_UNTIL_EOF}
         /\ Total \in Nat
         /\ job.bytes # READ_UNTIL_EOF => Total = job.bytes
         /\ job.bytes = READ_UNTIL_EOF /\ job.eof => Total = job.len
         /\ job.bytes = READ_UNTIL_EOF /\ ~job.eof => Total = job.len + RunUnits
<1>1. /\ job.len \in Nat /\ job.bytes \in Nat \cup {READ_UNTIL_EOF}
  BY JobsAssumption DEF JobType
<1>2. QED
  BY <1>1, RunUnitsType DEF Total, READ_UNTIL_EOF

(* The job is never changed, so neither is what the sequential writer      *)
(* makes of it.                                                            *)
LEMMA JobKept ==
  ASSUME Next
  PROVE  job' = job
<1>1. ASSUME NEW t \in Threads, Worker(t) \/ ExternalFailure(t) PROVE job' = job
  BY <1>1 DEF Worker, ExternalFailure, LockIn, Leave, ShortRead, TakeBlock,
              ReadAhead, Compress, LockOutAndQueue, WriteBlock, Advance, UnlockOut
<1>2. CASE Finish \/ Over
  BY <1>2 DEF Finish, Over, vars
<1>3. QED
  BY <1>1, <1>2 DEF Next

(* The marks that the sequential writer sees.                              *)
Marks == IF job.attribution THEN job.marks ELSE {}

LEMMA WithinMeans ==
  ASSUME NEW i \in Nat, NEW n \in Nat
  PROVE  Image!Within(i, n) <=>
           \E m \in Marks :
             /\ i * RunUnits <= m
             /\ m + SentinelLen <= MinOf((i + n) * RunUnits, MinOf(job.len, Total))
  BY DEF Image!Within, Image!Least, MinOf, Marks

LEMMA VerdictKept ==
  ASSUME job' = job
  PROVE  /\ Total' = Total
         /\ \A i, n : Image!Within(i, n)' <=> Image!Within(i, n)
         /\ \A i : Image!FirstSight(i)' <=> Image!FirstSight(i)
         /\ \A i : Image!Raw(i)' <=> Image!Raw(i)
<1>1. Total' = Total
  BY DEF Total
<1>2. \A i, n : Image!Within(i, n)' <=> Image!Within(i, n)
  BY <1>1 DEF Image!Within, Image!Least, MinOf
<1>3. \A i : Image!FirstSight(i)' <=> Image!FirstSight(i)
  BY <1>2 DEF Image!FirstSight
<1>4. \A i : Image!Raw(i)' <=> Image!Raw(i)
  BY <1>2, <1>3 DEF Image!Raw
<1>5. QED
  BY <1>1, <1>2, <1>3, <1>4

(* The bounds the sequential writer searches within, as plain arithmetic.  *)
LEMMA Bounds ==
  ASSUME job \in Jobs, NEW i \in Nat
  PROVE  /\ i * RunUnits \in Nat
         /\ (i + 1) * RunUnits = i * RunUnits + RunUnits
         /\ (i + 2) * RunUnits = i * RunUnits + 2 * RunUnits
         /\ MinOf(job.len, Total) \in Nat
<1>1. \A a, b \in Nat : (a + 2) * b = a * b + 2 * b
  OBVIOUS
<1>2. QED
  BY <1>1, NextRun, RunUnitsType, JobFacts DEF MinOf

(* What lies within one run lies within two.                               *)
LEMMA WithinGrows ==
  ASSUME job \in Jobs, NEW i \in Nat, Image!Within(i, 1)
  PROVE  Image!Within(i, 2)
<1>1. PICK m \in Marks :
        /\ i * RunUnits <= m
        /\ m + SentinelLen <= MinOf((i + 1) * RunUnits, MinOf(job.len, Total))
  BY WithinMeans
<1>2. m \in Nat /\ SentinelLen \in Nat
  BY JobsAssumption, UnitsAssumption DEF Marks, JobType
<1>3. m + SentinelLen <= MinOf((i + 2) * RunUnits, MinOf(job.len, Total))
  BY <1>1, <1>2, Bounds, RunUnitsType DEF MinOf
<1>4. QED
  BY <1>1, <1>3, WithinMeans

(* The sentinel is sighted first from one run only.                        *)
LEMMA SightUnique ==
  ASSUME NEW i \in Nat, NEW j \in Nat,
         Image!FirstSight(i), Image!FirstSight(j)
  PROVE  i = j
<1>1. ~(i < j)
  BY DEF Image!FirstSight
<1>2. ~(j < i)
  BY DEF Image!FirstSight
<1>3. QED
  BY <1>1, <1>2

-----------------------------------------------------------------------------
(* Where the blocks of the next state come from.                           *)

(* A block that is held was held before and the same, unless its thread    *)
(* has just taken it, looked at it or compressed it.                       *)
LEMMA HeldAfter ==
  ASSUME TypeOK, Next, NEW u \in Threads, Holds(u)'
  PROVE  \/ Holds(u) /\ pc'[u] = pc[u] /\ blk'[u] = blk[u]
         \/ TakeBlock(u) \/ ReadAhead(u) \/ Compress(u)
<1> DEFINE Same == Holds(u) /\ pc'[u] = pc[u] /\ blk'[u] = blk[u]
<1> USE DEF TypeOK, Goto, At, Holds
<1>1. ASSUME NEW t \in Threads, LockIn(t) \/ Leave(t) \/ ShortRead(t)
      PROVE  Same
  BY <1>1 DEF LockIn, Leave, ShortRead
<1>2. ASSUME NEW t \in Threads, WriteBlock(t) \/ Advance(t) \/ UnlockOut(t)
      PROVE  Same
  BY <1>2 DEF WriteBlock, Advance, UnlockOut
<1>3. ASSUME NEW t \in Threads, TakeBlock(t), t # u PROVE Same
  BY <1>3 DEF TakeBlock
<1>4. ASSUME NEW t \in Threads, ReadAhead(t), t # u PROVE Same
  BY <1>4 DEF ReadAhead
<1>5. ASSUME NEW t \in Threads, Compress(t), t # u PROVE Same
  BY <1>5 DEF Compress
<1>6. ASSUME NEW t \in Threads, LockOutAndQueue(t) PROVE Same
  BY <1>6 DEF LockOutAndQueue
<1>7. ASSUME NEW t \in Threads, ExternalFailure(t) PROVE Same
  BY <1>7 DEF ExternalFailure
<1>8. CASE Finish \/ Over
  BY <1>8 DEF Finish, Over, vars
<1>9. QED
  BY <1>1, <1>2, <1>3, <1>4, <1>5, <1>6, <1>7, <1>8 DEF Next, Worker

(* A waiting block waited before, or its thread has just linked it in.     *)
LEMMA QueuedAfter ==
  ASSUME TypeOK, HolderInv, Next, NEW k \in DOMAIN pending'
  PROVE  \/ \E l \in DOMAIN pending : pending'[k] = pending[l]
         \/ \E t \in Threads : /\ pc[t] = "queue" /\ Holds(t)
                               /\ pending'[k] = blk[t]
<1>1. CASE pending' = pending
  BY <1>1
<1>2. ASSUME NEW t \in Threads, LockOutAndQueue(t)
      PROVE  \/ \E l \in DOMAIN pending : pending'[k] = pending[l]
             \/ pending'[k] = blk[t]
  <2>1. blk[t] \in BlockType /\ pending' = Queued(blk[t])
    BY <1>2 DEF LockOutAndQueue, At, HolderInv, Holds
  <2>2. QED
    BY <2>1, QueuedEntries DEF TypeOK
<1>3. ASSUME NEW t \in Threads, LockOutAndQueue(t)
      PROVE  pc[t] = "queue" /\ Holds(t)
  BY <1>3 DEF LockOutAndQueue, At, Holds
<1>4. ASSUME NEW t \in Threads, Advance(t)
      PROVE  \E l \in DOMAIN pending : pending'[k] = pending[l]
  <2>1. pending' = Tail(pending)
    BY <1>4 DEF Advance
  <2>2. CASE pending # <<>>
    BY <2>1, <2>2, TailEntries
  <2>3. CASE pending = <<>>
    <3>1. pending' = pending
      BY <1>4, <2>3 DEF Advance
    <3>2. QED
      BY <3>1
  <2>4. QED
    BY <2>2, <2>3
<1>5. ASSUME NEW t \in Threads, WriteBlock(t) \/ UnlockOut(t)
      PROVE  pending' = pending
  BY <1>5 DEF WriteBlock, UnlockOut
<1>6. QED
  BY <1>1, <1>2, <1>3, <1>4, <1>5, OutFrame DEF QuietOut, Finish, OutStep

(* The file grows by the head of the list, the next run in order.          *)
LEMMA OutAfter ==
  ASSUME IndInv, Next
  PROVE  \/ out' = out /\ (Finish \/ UNCHANGED <<runs, att>>)
         \/ \E t \in Threads :
              /\ WriteBlock(t)
              /\ 1 \in DOMAIN pending /\ pending[1] \in BlockType
              /\ pending[1].idx = Len(out)
              /\ Len(out) \in Nat /\ DOMAIN out = 1 .. Len(out)
              /\ DOMAIN out' = 1 .. Len(out) + 1
              /\ \A i \in DOMAIN out : out'[i] = out[i]
              /\ out'[Len(out) + 1] =
                   [idx |-> pending[1].idx, lo |-> pending[1].lo,
                    have |-> pending[1].have, keep |-> pending[1].keep,
                    off |-> OutPos, size |-> pending[1].size]
<1> USE DEF IndInv
<1>1. ASSUME NEW t \in Threads, WriteBlock(t)
      PROVE  /\ 1 \in DOMAIN pending /\ pending[1] \in BlockType
             /\ pending[1].idx = Len(out)
             /\ Len(out) \in Nat /\ DOMAIN out = 1 .. Len(out)
             /\ DOMAIN out' = 1 .. Len(out) + 1
             /\ \A i \in DOMAIN out : out'[i] = out[i]
             /\ out'[Len(out) + 1] =
                  [idx |-> pending[1].idx, lo |-> pending[1].lo,
                   have |-> pending[1].have, keep |-> pending[1].keep,
                   off |-> OutPos, size |-> pending[1].size]
  <2>1. /\ pending # <<>> /\ pending[1].idx = nextPending
        /\ Len(out) = nextPending
    BY <1>1, WriterSteps DEF WriteBlock, HeadIsNext, WriteInv
  <2>2. \E S : out \in Seq(S)
    BY DEF TypeOK
  <2>3. out' = Append(out, [idx |-> pending[1].idx, lo |-> pending[1].lo,
                   have |-> pending[1].have, keep |-> pending[1].keep,
                   off |-> OutPos, size |-> pending[1].size])
    BY <1>1 DEF WriteBlock
  <2>4. QED
    BY <2>1, <2>2, <2>3, AppendedTo, HeadType
<1>2. ASSUME ~(\E t \in Threads : WriteBlock(t))
      PROVE  out' = out /\ (Finish \/ UNCHANGED <<runs, att>>)
  <2>1. ASSUME NEW t \in Threads, Worker(t) \/ ExternalFailure(t)
        PROVE  UNCHANGED <<out, runs, att>>
    BY <1>2, <2>1 DEF Worker, ExternalFailure, LockIn, Leave, ShortRead, TakeBlock,
              ReadAhead, Compress, LockOutAndQueue, Advance, UnlockOut, outVars
  <2>2. CASE Finish \/ Over
    BY <2>2 DEF Finish, Over, vars, outVars
  <2>3. QED
    BY <2>1, <2>2 DEF Next
<1>3. QED
  BY <1>1, <1>2

-----------------------------------------------------------------------------
(* InputInv: what is left is what was asked for less what was handed out.  *)

(* A block is the whole of what its place in the input holds, and follows  *)
(* what was handed out before it.                                          *)
LEMMA TakenPortion ==
  ASSUME IndInv, InputInv, NEW t \in Threads, TakeBlock(t)
  PROVE  /\ nextIn.lo = curRun * RunUnits
         /\ nextIn.lo = Handed
         /\ nextIn.size \in Nat /\ nextIn.size >= 1
         /\ nextIn.size = MinOf(RunUnits, Total - nextIn.lo)
         /\ Handed' = nextIn.lo + nextIn.size
         /\ inPos = nextIn.lo + nextIn.size
         /\ untilEOF \/ nextIn.size <= bytesRemain
<1> USE DEF IndInv
<1>1. /\ ~Refilling /\ nextIn.size # 0 /\ nextIn.lo = curRun * RunUnits
      /\ UNCHANGED <<job, inPos, nextIn>> /\ curRun' = curRun + 1
  BY RefillSteps, TakenBlock
<1>2. /\ nextIn.lo \in Nat /\ nextIn.size \in Nat /\ inPos \in Nat
      /\ bytesRemain \in Nat \cup {READ_UNTIL_EOF} /\ curRun \in Nat
      /\ job \in Jobs /\ nextIn.size <= RunUnits
  BY DEF TypeOK, ReadInv
<1>3. nextIn.lo = Handed
  BY <1>1 DEF InputInv
<1>4. /\ inPos = nextIn.lo + nextIn.size
      /\ inPos <= job.len
      /\ nextIn.size = MinOf(NextReadSize(bytesRemain), job.len - nextIn.lo)
  BY <1>1 DEF ReadInv, ReadNext
<1>5. nextIn.size = MinOf(RunUnits, Total - nextIn.lo)
      /\ (untilEOF \/ nextIn.size <= bytesRemain)
  <2>1. CASE ~untilEOF
    <3>1. nextIn.size = NextReadSize(bytesRemain) /\ bytesRemain \in Nat
      BY <1>2, <2>1 DEF TakeBlock, untilEOF
    <3>2. bytesRemain = Total - nextIn.lo
      BY <1>3, <2>1 DEF InputInv
    <3>3. QED
      BY <1>2, <2>1, <3>1, <3>2, RunUnitsType, JobFacts
         DEF NextReadSize, MinOf, untilEOF
  <2>2. CASE untilEOF
    <3>1. NextReadSize(bytesRemain) = RunUnits /\ job.bytes = READ_UNTIL_EOF
      BY <2>2 DEF NextReadSize, untilEOF, InputInv
    <3>2. CASE job.eof
      BY <1>2, <1>4, <2>2, <3>1, <3>2, JobFacts, RunUnitsType DEF MinOf
    <3>3. CASE ~job.eof
      <4>1. nextIn.size = RunUnits
        BY <3>1, <3>3 DEF TakeBlock
      <4>2. Total = job.len + RunUnits
        BY <1>2, <3>1, <3>3, JobFacts
      <4>3. QED
        BY <1>2, <1>4, <2>2, <4>1, <4>2, JobFacts, RunUnitsType DEF MinOf
    <3>4. QED
      BY <3>2, <3>3
  <2>3. QED
    BY <2>1, <2>2
<1>6. Handed' = nextIn.lo + nextIn.size
  <2>1. Handed' = MinOf((curRun + 1) * RunUnits, Total)
    BY <1>1, VerdictKept DEF Handed, MinOf
  <2>2. (curRun + 1) * RunUnits = nextIn.lo + RunUnits
    BY <1>1, <1>2, NextRun
  <2>3. QED
    BY <1>2, <1>5, <2>1, <2>2, JobFacts, RunUnitsType DEF MinOf
<1>7. QED
  BY <1>1, <1>2, <1>3, <1>4, <1>5, <1>6

(* A thread that is done was done, unless it has just found nothing left.  *)
LEMMA DoneAfter ==
  ASSUME TypeOK, Next, NEW u \in Threads, pc'[u] = "done"
  PROVE  pc[u] = "done" \/ Leave(u)
<1> USE DEF TypeOK, Goto, At
<1>1. ASSUME NEW t \in Threads, Worker(t) PROVE pc[u] = "done" \/ Leave(u)
  <2>1. CASE LockIn(t) \/ ShortRead(t) \/ TakeBlock(t)
    BY <2>1 DEF LockIn, ShortRead, TakeBlock
  <2>2. CASE Leave(t)
    BY <2>2 DEF Leave
  <2>3. CASE ReadAhead(t) \/ Compress(t) \/ LockOutAndQueue(t)
    BY <2>3 DEF ReadAhead, Compress, LockOutAndQueue
  <2>4. CASE WriteBlock(t) \/ Advance(t) \/ UnlockOut(t)
    BY <2>4 DEF WriteBlock, Advance, UnlockOut
  <2>5. QED
    BY <1>1, <2>1, <2>2, <2>3, <2>4 DEF Worker
<1>2. ASSUME NEW t \in Threads, ExternalFailure(t) PROVE pc[u] = "done"
  BY <1>2 DEF ExternalFailure
<1>3. CASE Finish \/ Over
  BY <1>3 DEF Finish, Over, vars
<1>4. QED
  BY <1>1, <1>2, <1>3 DEF Next

(* Nothing is wanted only when nothing remains of the length given.        *)
LEMMA NothingWanted ==
  ASSUME NEW remain \in Nat \cup {READ_UNTIL_EOF}
  PROVE  NextReadSize(remain) = 0 <=> remain = 0
  BY RunUnitsType DEF NextReadSize, READ_UNTIL_EOF

LEMMA InputStep ==
  ASSUME IndInv, InputInv, Next
  PROVE  InputInv'
<1> USE DEF IndInv
<1>0. /\ job' = job /\ Total' = Total /\ job \in Jobs
      /\ bytesRemain \in Nat \cup {READ_UNTIL_EOF}
  BY JobKept, VerdictKept DEF TypeOK
<1> DEFINE Spent == bytesRemain = 0 \/ (untilEOF /\ job.eof /\ nextIn.size = 0)
<1>1. ASSUME NEW t \in Threads, TakeBlock(t) PROVE InputInv'
  <2>1. /\ Refilling' /\ UNCHANGED <<inPos, nextIn>>
        /\ bytesRemain' = Remaining(nextIn.size)
    BY <1>1, RefillSteps DEF TakeBlock
  <2>2. /\ nextIn.lo = Handed /\ nextIn.size \in Nat /\ nextIn.size >= 1
        /\ Handed' = nextIn.lo + nextIn.size /\ inPos = Handed'
        /\ untilEOF \/ nextIn.size <= bytesRemain
        /\ nextIn.lo \in Nat
    BY <1>1, TakenPortion DEF TypeOK
  <2>3. (untilEOF' <=> untilEOF) /\ (~untilEOF => bytesRemain' = Total' - Handed')
    BY <1>0, <2>1, <2>2, JobFacts DEF untilEOF, Remaining, InputInv, READ_UNTIL_EOF
  <2>4. ~\E u \in Threads : pc'[u] = "done"
    <3>1. ~Spent
      BY <1>0, <1>1, <2>2, NothingWanted DEF TakeBlock
    <3>2. ~\E u \in Threads : pc[u] = "done"
      BY <3>1 DEF InputInv
    <3>3. QED
      BY <1>1, <3>2 DEF TakeBlock, Goto, TypeOK
  <2>5. QED
    BY <1>0, <2>1, <2>2, <2>3, <2>4 DEF InputInv
<1>2. ASSUME NEW t \in Threads, ReadAhead(t) PROVE InputInv'
  <2>1. /\ Refilling /\ ~Refilling' /\ UNCHANGED <<curRun, bytesRemain>>
        /\ nextIn' = ReadNext(bytesRemain, inPos)
    BY <1>2, RefillSteps DEF ReadAhead
  <2>2. Handed' = Handed /\ nextIn'.lo = inPos
    BY <1>0, <2>1 DEF Handed, ReadNext, MinOf
  <2>3. ~\E u \in Threads : pc'[u] = "done"
    BY <1>2, <2>1 DEF InputInv, ReadAhead, Goto, TypeOK
  <2>4. QED
    BY <1>0, <2>1, <2>2, <2>3 DEF InputInv, untilEOF
<1>3. CASE QuietIn
  <2>1. Handed' = Handed
    BY <1>0, <1>3 DEF QuietIn, Handed, MinOf
  <2>2. ASSUME NEW u \in Threads, pc'[u] = "done"
        PROVE  ~Refilling /\ Spent
    <3>1. CASE pc[u] = "done"
      BY <3>1 DEF InputInv
    <3>2. CASE Leave(u)
      <4>1. ~Refilling
        BY <3>2 DEF Leave, At, LockInv, InLabels, Refilling
      <4>2. Spent
        BY <1>0, <3>2, NothingWanted DEF Leave
      <4>3. QED
        BY <4>1, <4>2
    <3>3. QED
      BY <2>2, <3>1, <3>2, DoneAfter
  <2>3. QED
    BY <1>0, <1>3, <2>1, <2>2 DEF InputInv, QuietIn, untilEOF
<1>4. QED
  BY <1>1, <1>2, <1>3, InFrame

-----------------------------------------------------------------------------
(* VerdictInv: the attribution's verdict depends on the input alone.       *)

(* What the attribution finds in the block just read and in the read-ahead *)
(* is what lies within one run and within two.                             *)
LEMMA SearchMeans ==
  ASSUME IndInv, InputInv, ContentInv, NEW t \in Threads, ReadAhead(t)
  PROVE  LET b    == blk[t]
             next == ReadNext(bytesRemain, inPos)
             d    == curRun - 1
         IN  /\ d \in Nat /\ b.idx = d
             /\ job.attribution =>
                  /\ FindSentinel(b.lo, b.lo + b.have) <=> Image!Within(d, 1)
                  /\ ~Image!Within(d, 1) =>
                       (next.size > 0 /\ FindSentinel(b.lo, next.lo + next.size)
                          <=> Image!Within(d, 2))
<1> USE DEF IndInv
<1> DEFINE b    == blk[t]
           next == ReadNext(bytesRemain, inPos)
           d    == curRun - 1
           Lim1 == MinOf((d + 1) * RunUnits, MinOf(job.len, Total))
           Lim2 == MinOf((d + 2) * RunUnits, MinOf(job.len, Total))
<1>1. /\ Refilling /\ Holds(t) /\ b \in BlockType /\ b.idx = curRun - 1
  BY RefillSteps DEF ReadAhead, At, HolderInv, Holds
<1>2. /\ b.lo \in Nat /\ b.have \in Nat /\ b.idx \in Nat /\ curRun \in Nat
      /\ inPos \in Nat /\ job \in Jobs /\ inPos <= job.len
      /\ bytesRemain \in Nat \cup {READ_UNTIL_EOF}
  BY <1>1 DEF BlockType, TypeOK, ReadInv
<1>3. d \in Nat /\ d + 1 = curRun
  BY <1>1, <1>2
<1>4. /\ b.lo = d * RunUnits /\ b.have = MinOf(RunUnits, Total - b.lo)
      /\ b.have >= 1
      /\ b.have = RunUnits \/ next.size = 0
  BY <1>1 DEF SliceInv, Slice, ContentInv, Portion, Dry
<1>5. /\ job.len \in Nat /\ Total \in Nat
      /\ (d + 1) * RunUnits = b.lo + RunUnits
      /\ (d + 2) * RunUnits = b.lo + 2 * RunUnits
      /\ RunUnits \in Nat /\ RunUnits >= 1
  BY <1>2, <1>3, <1>4, JobFacts, Bounds, RunUnitsType
<1>6. inPos = Handed /\ Handed = MinOf(b.lo + RunUnits, Total)
  BY <1>1, <1>3, <1>5 DEF InputInv, Handed
<1>7. b.lo + b.have = inPos /\ inPos = Lim1
  BY <1>2, <1>4, <1>5, <1>6 DEF MinOf
<1>8. /\ next.lo = inPos /\ next.size \in Nat
      /\ next.size = MinOf(NextReadSize(bytesRemain), job.len - inPos)
  BY <1>2, ReadNextType DEF ReadNext
<1>9. /\ untilEOF => job.len <= Total
      /\ ~untilEOF => bytesRemain = Total - inPos
  BY <1>2, <1>5, <1>6, JobFacts DEF InputInv
<1>10. CASE next.size = 0
  <2>1. MinOf(job.len, Total) <= inPos
    <3>1. CASE NextReadSize(bytesRemain) = 0
      <4>1. bytesRemain = 0
        BY <1>2, <3>1, NothingWanted
      <4>2. ~untilEOF
        BY <4>1 DEF untilEOF, READ_UNTIL_EOF
      <4>3. QED
        BY <1>2, <1>5, <1>9, <4>1, <4>2 DEF MinOf
    <3>2. CASE NextReadSize(bytesRemain) # 0
      BY <1>2, <1>5, <1>8, <1>10, <3>2 DEF MinOf
    <3>3. QED
      BY <3>1, <3>2
  <2>2. Lim2 = Lim1
    BY <1>2, <1>5, <1>7, <2>1 DEF MinOf
  <2>3. Image!Within(d, 2) <=> Image!Within(d, 1)
    BY <1>3, <2>2, WithinMeans
  <2>4. FindSentinel(b.lo, b.lo + b.have) <=>
          \E m \in job.marks : d * RunUnits <= m /\ m + SentinelLen <= Lim1
    BY <1>4, <1>7 DEF FindSentinel
  <2>5. job.attribution =>
          (FindSentinel(b.lo, b.lo + b.have) <=> Image!Within(d, 1))
    BY <1>3, <2>4, WithinMeans DEF Marks
  <2>6. QED
    BY <1>1, <1>3, <1>10, <2>3, <2>5
<1>11. CASE next.size # 0
  <2>1. next.lo + next.size = Lim2
    <3>1. inPos = b.lo + RunUnits
      BY <1>4, <1>7, <1>11
    <3>2. CASE untilEOF
      <4>1. NextReadSize(bytesRemain) = RunUnits
        BY <3>2 DEF untilEOF, NextReadSize
      <4>2. QED
        BY <1>2, <1>5, <1>8, <1>9, <3>1, <3>2, <4>1 DEF MinOf
    <3>3. CASE ~untilEOF
      <4>1. NextReadSize(bytesRemain) = MinOf(RunUnits, Total - inPos)
        BY <1>2, <1>5, <1>9, <3>3 DEF NextReadSize, MinOf, untilEOF
      <4>2. QED
        BY <1>2, <1>5, <1>8, <3>1, <4>1 DEF MinOf
    <3>4. QED
      BY <3>2, <3>3
  <2>2. FindSentinel(b.lo, b.lo + b.have) <=>
          \E m \in job.marks : d * RunUnits <= m /\ m + SentinelLen <= Lim1
    BY <1>4, <1>7 DEF FindSentinel
  <2>3. FindSentinel(b.lo, next.lo + next.size) <=>
          \E m \in job.marks : d * RunUnits <= m /\ m + SentinelLen <= Lim2
    BY <1>4, <2>1 DEF FindSentinel
  <2>4. job.attribution =>
          /\ FindSentinel(b.lo, b.lo + b.have) <=> Image!Within(d, 1)
          /\ FindSentinel(b.lo, next.lo + next.size) <=> Image!Within(d, 2)
    BY <1>3, <2>2, <2>3, WithinMeans DEF Marks
  <2>5. next.size > 0
    BY <1>8, <1>11
  <2>6. QED
    BY <1>1, <1>3, <2>4, <2>5
<1>12. QED
  BY <1>10, <1>11

(* Without attribution there is nothing to see.                            *)
LEMMA NothingToSee ==
  ASSUME ~job.attribution, NEW i \in Nat, NEW n \in Nat
  PROVE  ~Image!Within(i, n)
  BY WithinMeans DEF Marks

(* blockRead's verdict on a run is the sequential writer's, and the state  *)
(* it leaves the automaton in tells where the first sight lies.            *)
LEMMA VerdictOn ==
  ASSUME IndInv, InputInv, ContentInv, VerdictInv,
         NEW t \in Threads, ReadAhead(t)
  PROVE  /\ VerdictInv'
         /\ keepRaw' \in {"KeepCurrentRaw", "KeepCurrentAndNextRaw"}
              <=> Image!Raw(curRun - 1)
<1> USE DEF IndInv
<1> DEFINE b    == blk[t]
           next == ReadNext(bytesRemain, inPos)
           d    == curRun - 1
<1>1. /\ Refilling /\ ~Refilling' /\ curRun' = curRun /\ job' = job
      /\ keepRaw' = IF job.attribution THEN KeepRawAfter(b, next) ELSE keepRaw
      /\ job \in Jobs /\ keepRaw \in KeepModes
  BY RefillSteps DEF ReadAhead, TypeOK
<1>2. d \in Nat /\ curRun = d + 1
  BY SearchMeans DEF TypeOK
<1> HIDE DEF d
<1> DEFINE Unseen(n) == \A i \in 0 .. n : ~Image!Within(i, 2)
           Whole(i)  == Image!FirstSight(i) /\ Image!Within(i, 1)
           Split(i)  == Image!FirstSight(i) /\ ~Image!Within(i, 1)
           Past(n)   == \E i \in 0 .. n :
                          Image!FirstSight(i) /\ (Image!Within(i, 1) \/ i <= n - 1)
<1> DEFINE Told(mode, n) ==
             /\ mode = "KeepNoneRaw" => Unseen(n - 1)
             /\ mode = "KeepCurrentAndNextRaw" => n >= 1 /\ Split(n - 1)
             /\ mode = "KeepCurrentRaw" => \/ n >= 1 /\ Whole(n - 1)
                                           \/ n >= 2 /\ Split(n - 2)
             /\ mode = "KeepRemainingRaw" => Past(n - 2)
           Keeps(mode) == mode \in {"KeepCurrentRaw", "KeepCurrentAndNextRaw"}
<1>3. Told(keepRaw, d)
  <2>1. (d - 2) - 1 = d - 3
    BY <1>2
  <2>2. QED
    BY <1>1, <2>1 DEF VerdictInv, d
<1>4. ASSUME Told(keepRaw', d + 1), Keeps(keepRaw') <=> Image!Raw(d)
      PROVE  /\ VerdictInv'
             /\ Keeps(keepRaw') <=> Image!Raw(curRun - 1)
  <2>1. /\ (d + 1) - 1 = d /\ (d + 1) - 2 = d - 1 /\ (d - 1) - 1 = d - 2
        /\ curRun' - 1 = d /\ curRun' - 2 = d - 1 /\ curRun' - 3 = d - 2
    BY <1>1, <1>2
  <2>2. Told(keepRaw', curRun')
    BY <1>1, <1>2, <1>4
  <2>3. /\ keepRaw' = "KeepNoneRaw" =>
             \A i \in 0 .. curRun' - 1 : ~Image!Within(i, 2)'
        /\ keepRaw' = "KeepCurrentAndNextRaw" =>
             /\ curRun' >= 1
             /\ Image!FirstSight(curRun - 1)' /\ ~Image!Within(curRun - 1, 1)'
        /\ keepRaw' = "KeepCurrentRaw" =>
             \/ /\ curRun' >= 1
                /\ Image!FirstSight(curRun - 1)' /\ Image!Within(curRun - 1, 1)'
             \/ /\ curRun' >= 2
                /\ Image!FirstSight(curRun - 2)' /\ ~Image!Within(curRun - 2, 1)'
        /\ keepRaw' = "KeepRemainingRaw" =>
             \E i \in 0 .. curRun' - 2 :
               Image!FirstSight(i)' /\ (Image!Within(i, 1)' \/ i <= curRun' - 3)
    BY <1>1, <2>1, <2>2, VerdictKept
  <2>4. VerdictInv'
    BY <1>1, <2>3 DEF VerdictInv
  <2>5. QED
    BY <1>2, <1>4, <2>4 DEF d
<1>5. /\ Image!Within(d, 1) => Image!Within(d, 2)
      /\ Unseen(d - 1) => (Image!FirstSight(d) <=> Image!Within(d, 2))
      /\ \A i \in Nat : i < d /\ Image!FirstSight(i) => ~Image!FirstSight(d)
      /\ Unseen(d - 1) => ~(d > 0 /\ Image!FirstSight(d - 1))
  BY <1>1, <1>2, WithinGrows, SightUnique DEF Image!FirstSight
<1>6. CASE ~job.attribution
  <2>1. keepRaw' = keepRaw /\ \A i \in Nat : ~Image!FirstSight(i) /\ ~Image!Within(i, 2)
    BY <1>1, <1>6, NothingToSee DEF Image!FirstSight
  <2>2. keepRaw = "KeepNoneRaw"
    BY <1>1, <1>2, <1>3, <2>1 DEF KeepModes
  <2>3. ~Image!Raw(d)
    BY <1>2, <2>1 DEF Image!Raw
  <2>4. Told(keepRaw', d + 1)
    BY <1>2, <2>1, <2>2
  <2>5. QED
    BY <1>4, <2>1, <2>2, <2>3, <2>4
<1>7. ASSUME job.attribution, keepRaw = "KeepNoneRaw"
      PROVE  Told(keepRaw', d + 1) /\ (Keeps(keepRaw') <=> Image!Raw(d))
  <2>1. keepRaw' = IF Image!Within(d, 1) THEN "KeepCurrentRaw"
                   ELSE IF Image!Within(d, 2) THEN "KeepCurrentAndNextRaw"
                   ELSE "KeepNoneRaw"
    BY <1>1, <1>7, SearchMeans DEF KeepRawAfter, ShouldKeepRaw, d
  <2>2. Unseen(d - 1) /\ (Image!FirstSight(d) <=> Image!Within(d, 2))
    BY <1>3, <1>5, <1>7
  <2>3. Image!Raw(d) <=> Image!Within(d, 2)
    BY <1>2, <1>5, <2>2 DEF Image!Raw
  <2>4. ~Image!Within(d, 2) => Unseen(d)
    BY <1>2, <2>2
  <2>5. (d + 1) - 1 = d /\ d + 1 >= 1
    BY <1>2
  <2> HIDE DEF Unseen
  <2>6. QED
    BY <1>5, <2>1, <2>2, <2>3, <2>4, <2>5
<1>8. ASSUME job.attribution, keepRaw = "KeepCurrentAndNextRaw"
      PROVE  Told(keepRaw', d + 1) /\ (Keeps(keepRaw') <=> Image!Raw(d))
  <2>1. keepRaw' = "KeepCurrentRaw" /\ d >= 1 /\ Split(d - 1)
    BY <1>1, <1>3, <1>8 DEF KeepRawAfter
  <2>2. Image!Raw(d)
    BY <1>2, <2>1 DEF Image!Raw
  <2>3. (d + 1) - 2 = d - 1 /\ d + 1 >= 2
    BY <1>2, <2>1
  <2>4. QED
    BY <2>1, <2>2, <2>3
<1>9. ASSUME job.attribution, keepRaw = "KeepCurrentRaw"
      PROVE  Told(keepRaw', d + 1) /\ (Keeps(keepRaw') <=> Image!Raw(d))
  <2>1. keepRaw' = "KeepRemainingRaw"
    BY <1>1, <1>9 DEF KeepRawAfter
  <2>2. (d >= 1 /\ Whole(d - 1)) \/ (d >= 2 /\ Split(d - 2))
    BY <1>3, <1>9
  <2>3. Past(d - 1)
    <3>1. CASE d >= 1 /\ Whole(d - 1)
      BY <1>2, <3>1
    <3>2. CASE d >= 2 /\ Split(d - 2)
      <4>1. d - 2 \in 0 .. d - 1 /\ d - 2 <= (d - 1) - 1
        BY <1>2, <3>2
      <4>2. QED
        BY <3>2, <4>1
    <3>3. QED
      BY <2>2, <3>1, <3>2
  <2>4. ~Image!Raw(d)
    <3>1. PICK i \in 0 .. d - 1 : /\ Image!FirstSight(i)
                                  /\ Image!Within(i, 1) \/ i <= (d - 1) - 1
      BY <2>3
    <3>2. ~Image!FirstSight(d) /\ i \in Nat
      BY <1>2, <1>5, <3>1
    <3>3. d > 0 /\ Image!FirstSight(d - 1) => i = d - 1
      BY <1>2, <3>1, <3>2, SightUnique
    <3>4. QED
      BY <1>2, <3>1, <3>2, <3>3 DEF Image!Raw
  <2>5. (d + 1) - 2 = d - 1
    BY <1>2
  <2>6. QED
    BY <2>1, <2>3, <2>4, <2>5
<1>10. ASSUME job.attribution, keepRaw = "KeepRemainingRaw"
       PROVE  Told(keepRaw', d + 1) /\ (Keeps(keepRaw') <=> Image!Raw(d))
  <2>1. keepRaw' = "KeepRemainingRaw"
    BY <1>1, <1>10 DEF KeepRawAfter
  <2>2. PICK i \in 0 .. d - 2 : /\ Image!FirstSight(i)
                                /\ Image!Within(i, 1) \/ i <= (d - 2) - 1
    BY <1>3, <1>10
  <2>3. i \in 0 .. d - 1 /\ i \in Nat /\ i < d - 1 /\ i <= (d - 1) - 1
    BY <1>2, <2>2
  <2>4. ~Image!FirstSight(d)
    BY <1>5, <2>2, <2>3, <1>2
  <2>5. ~(d > 0 /\ Image!FirstSight(d - 1))
    <3>1. ASSUME d > 0, Image!FirstSight(d - 1) PROVE FALSE
      <4>1. d - 1 \in Nat
        BY <1>2, <3>1
      <4>2. QED
        BY <1>2, <2>2, <2>3, <3>1, <4>1, SightUnique
    <3>2. QED
      BY <3>1
  <2>6. ~Image!Raw(d)
    BY <2>4, <2>5 DEF Image!Raw
  <2>7. (d + 1) - 2 = d - 1
    BY <1>2
  <2>8. QED
    BY <2>1, <2>2, <2>3, <2>6, <2>7
<1>11. QED
  BY <1>1, <1>4, <1>6, <1>7, <1>8, <1>9, <1>10 DEF KeepModes

LEMMA VerdictStep ==
  ASSUME IndInv, InputInv, ContentInv, VerdictInv, Next
  PROVE  VerdictInv'
<1> USE DEF IndInv
<1>1. job' = job /\ curRun \in Nat
  BY JobKept DEF TypeOK
<1>2. CASE \E t \in Threads : ReadAhead(t)
  BY <1>2, VerdictOn
<1>3. ASSUME ~(\E t \in Threads : ReadAhead(t)) PROVE VerdictInv'
  <2>1. keepRaw' = keepRaw
    <3>1. ASSUME NEW t \in Threads, Worker(t) \/ ExternalFailure(t)
          PROVE  keepRaw' = keepRaw
      BY <1>3, <3>1 DEF Worker, ExternalFailure, LockIn, Leave, ShortRead,
           TakeBlock, Compress, LockOutAndQueue, WriteBlock, Advance, UnlockOut,
           inVars
    <3>2. CASE Finish \/ Over
      BY <3>2 DEF Finish, Over, vars, inVars
    <3>3. QED
      BY <3>1, <3>2 DEF Next
  <2>2. (IF Refilling' THEN curRun' - 1 ELSE curRun')
          = (IF Refilling THEN curRun - 1 ELSE curRun)
    <3>1. ASSUME NEW t \in Threads, TakeBlock(t)
          PROVE  ~Refilling /\ Refilling' /\ curRun' - 1 = curRun
      BY <1>1, <3>1, RefillSteps, TakenBlock
    <3>2. QED
      BY <1>3, <3>1, InFrame DEF QuietIn
  <2>3. QED
    BY <1>1, <2>1, <2>2, VerdictKept DEF VerdictInv
<1>4. QED
  BY <1>2, <1>3

-----------------------------------------------------------------------------
(* ContentInv: every block is determined by its place in the input.        *)

(* Whole sectors count one each; so a run is RunSectors of them.           *)
LEMMA SectorsAdd ==
  ASSUME NEW k \in Nat, NEW u \in Nat
  PROVE  SectorsOf(k * SectorUnits + u) = k + SectorsOf(u)
<1> DEFINE q == u \div SectorUnits
           r == u % SectorUnits
<1>1. SectorUnits \in Nat \ {0}
  BY UnitsAssumption
<1>2. q \in Nat /\ r \in Nat /\ r < SectorUnits /\ u = q * SectorUnits + r
  BY <1>1, Quotient
<1>3. SectorsOf(u) = q + (IF r # 0 THEN 1 ELSE 0)
  BY DEF SectorsOf
<1> HIDE DEF q, r
<1>4. k * SectorUnits + u = (k + q) * SectorUnits + r
  <2>1. \A x, y, z \in Nat : (x + y) * z = x * z + y * z /\ x * z \in Nat
    OBVIOUS
  <2>2. QED
    BY <1>1, <1>2, <2>1
<1>5. /\ (k * SectorUnits + u) \div SectorUnits = k + q
      /\ (k * SectorUnits + u) % SectorUnits = r
  BY <1>1, <1>2, <1>4, QuotientUnique
<1>6. QED
  BY <1>2, <1>3, <1>5 DEF SectorsOf

LEMMA SectorsOfRuns ==
  ASSUME NEW c \in Nat, NEW u \in Nat
  PROVE  SectorsOf(c * RunUnits + u) = c * RunSectors + SectorsOf(u)
<1>1. c * RunSectors \in Nat /\ c * RunUnits = (c * RunSectors) * SectorUnits
  <2>1. \A x, y, z \in Nat : x * y \in Nat /\ x * (y * z) = (x * y) * z
    OBVIOUS
  <2>2. QED
    BY <2>1, UnitsAssumption DEF RunUnits
<1>2. QED
  BY <1>1, SectorsAdd

(* Something needs at least one sector.                                    *)
LEMMA SectorsPositive ==
  ASSUME NEW u \in Nat, u >= 1
  PROVE  SectorsOf(u) >= 1 /\ SectorsOf(0) = 0
<1> DEFINE q == u \div SectorUnits
           r == u % SectorUnits
<1>1. SectorUnits \in Nat \ {0}
  BY UnitsAssumption
<1>2. q \in Nat /\ r \in Nat /\ u = q * SectorUnits + r
  BY <1>1, Quotient
<1>3. SectorsOf(u) = q + (IF r # 0 THEN 1 ELSE 0)
  BY DEF SectorsOf
<1> HIDE DEF q, r
<1>4. q = 0 => q * SectorUnits = 0
  BY <1>1
<1>5. SectorsOf(u) >= 1
  BY <1>2, <1>3, <1>4
<1>6. 0 \div SectorUnits = 0 /\ 0 % SectorUnits = 0
  BY <1>1
<1>7. QED
  BY <1>5, <1>6 DEF SectorsOf

(* A block that has been taken is its slice of the input.                  *)
LEMMA TakenContent ==
  ASSUME IndInv, InputInv, EntryInv, NEW t \in Threads, TakeBlock(t)
  PROVE  /\ Portion(blk[t])' /\ Placed(blk[t])'
         /\ curSector' = SectorsOf(Handed')
<1> USE DEF IndInv
<1>1. blk'[t] = [idx |-> curRun, start |-> curSector,
                 count |-> SectorsOf(nextIn.size), lo |-> nextIn.lo,
                 have |-> nextIn.size, keep |-> FALSE, raw |-> FALSE, size |-> 0]
      /\ curSector' = curSector + SectorsOf(nextIn.size)
  BY DEF TakeBlock, TypeOK
<1>2. /\ nextIn.lo = curRun * RunUnits /\ nextIn.lo = Handed
      /\ nextIn.size \in Nat /\ nextIn.size >= 1
      /\ nextIn.size = MinOf(RunUnits, Total - nextIn.lo)
      /\ Handed' = nextIn.lo + nextIn.size
  BY TakenPortion
<1>3. Total' = Total
  BY VerdictKept DEF TakeBlock
<1>4. curRun \in Nat /\ curSector = SectorsOf(nextIn.lo)
  BY <1>2 DEF TypeOK, EntryInv
<1>5. curSector = curRun * RunSectors
  <2>1. SectorsOf(curRun * RunUnits + 0) = curRun * RunSectors + SectorsOf(0)
    BY <1>4, SectorsOfRuns
  <2>2. curRun * RunUnits + 0 = curRun * RunUnits /\ curRun * RunSectors \in Nat
    BY <1>4, NextRun, UnitsAssumption
  <2>3. QED
    BY <1>2, <1>4, <2>1, <2>2, SectorsPositive
<1>6. curSector' = SectorsOf(Handed')
  BY <1>1, <1>2, <1>4, <1>5, SectorsOfRuns
<1>7. QED
  BY <1>1, <1>2, <1>3, <1>5, <1>6 DEF Portion, Placed

(* The attribution's verdict changes nothing but the mark of the block.    *)
LEMMA LookedAt ==
  ASSUME TypeOK, HolderInv, NEW t \in Threads, ReadAhead(t)
  PROVE  LET b == blk[t] c == blk'[t]
         IN  /\ c.idx = b.idx /\ c.start = b.start /\ c.count = b.count
             /\ c.lo = b.lo /\ c.have = b.have
             /\ c.keep <=> keepRaw' \in {"KeepCurrentRaw", "KeepCurrentAndNextRaw"}
<1>1. blk[t] \in BlockType
  BY DEF ReadAhead, At, HolderInv, Holds
<1>2. \A k : LET c == [blk[t] EXCEPT !.keep = k]
             IN  /\ c.idx = blk[t].idx /\ c.start = blk[t].start
                 /\ c.count = blk[t].count
                 /\ c.lo = blk[t].lo /\ c.have = blk[t].have /\ c.keep = k
  BY <1>1 DEF BlockType
<1> DEFINE kept == keepRaw' \in {"KeepCurrentRaw", "KeepCurrentAndNextRaw"}
<1>3. blk' = [blk EXCEPT ![t] = [blk[t] EXCEPT !.keep = kept]]
  BY DEF ReadAhead
<1> HIDE DEF kept
<1>4. blk'[t] = [blk[t] EXCEPT !.keep = kept]
  BY <1>3 DEF TypeOK
<1>5. (blk'[t]).keep = kept /\ kept \in BOOLEAN
  BY <1>2, <1>4 DEF kept
<1>6. /\ (blk'[t]).idx = blk[t].idx /\ (blk'[t]).start = blk[t].start
      /\ (blk'[t]).count = blk[t].count
      /\ (blk'[t]).lo = blk[t].lo /\ (blk'[t]).have = blk[t].have
  BY <1>2, <1>4
<1>7. (blk'[t]).keep <=> keepRaw' \in {"KeepCurrentRaw", "KeepCurrentAndNextRaw"}
  BY <1>5 DEF kept
<1>8. QED
  BY <1>6, <1>7

(* Compression changes nothing but how and how large a block is stored.    *)
LEMMA Compressed ==
  ASSUME TypeOK, HolderInv, ContentInv, NEW t \in Threads, Compress(t)
  PROVE  LET b == blk[t] c == blk'[t]
         IN  /\ c.idx = b.idx /\ c.start = b.start /\ c.count = b.count
             /\ c.lo = b.lo /\ c.have = b.have /\ c.keep = b.keep
             /\ c.size >= 1
<1>1. blk[t] \in BlockType /\ Holds(t)
  BY DEF Compress, At, HolderInv, Holds
<1>2. \A r, z : LET c == [blk[t] EXCEPT !.raw = r, !.size = z]
                IN  /\ c.idx = blk[t].idx /\ c.start = blk[t].start
                    /\ c.count = blk[t].count /\ c.keep = blk[t].keep
                    /\ c.lo = blk[t].lo /\ c.have = blk[t].have /\ c.size = z
  BY <1>1 DEF BlockType
<1>3. PICK size \in CompressedSizes, r \in {TRUE, FALSE} :
        blk' = [blk EXCEPT ![t] =
                  [blk[t] EXCEPT !.raw = blk[t].keep \/ NoGain(size, blk[t].count),
                                 !.size = IF blk[t].keep \/ NoGain(size, blk[t].count)
                                          THEN InSize(blk[t]) ELSE size]]
  BY DEF Compress
<1> DEFINE raw == blk[t].keep \/ NoGain(size, blk[t].count)
           z   == IF raw THEN InSize(blk[t]) ELSE size
<1>4. blk' = [blk EXCEPT ![t] = [blk[t] EXCEPT !.raw = raw, !.size = z]]
  BY <1>3
<1>5. z >= 1
  <2>1. /\ blk[t].count = SectorsOf(blk[t].have) /\ blk[t].have >= 1
        /\ blk[t].have \in Nat /\ blk[t].count \in Nat
    BY <1>1 DEF ContentInv, Portion, Placed, BlockType
  <2>2. blk[t].count >= 1
    BY <2>1, SectorsPositive
  <2>3. \A a, c \in Nat : a >= 1 /\ c >= 1 => a * c >= 1
    OBVIOUS
  <2>4. InSize(blk[t]) >= 1
    BY <2>1, <2>2, <2>3, UnitsAssumption DEF InSize
  <2>5. size \in Nat /\ size >= 1
    BY SizesAssumption
  <2>6. QED
    BY <2>4, <2>5
<1> HIDE DEF raw, z
<1>6. blk'[t] = [blk[t] EXCEPT !.raw = raw, !.size = z]
  BY <1>4 DEF TypeOK
<1>7. QED
  BY <1>2, <1>5, <1>6

LEMMA ContentStep ==
  ASSUME IndInv, InputInv, VerdictInv, ContentInv, EntryInv, Next
  PROVE  ContentInv'
<1> USE DEF IndInv
<1>1. /\ job' = job /\ Total' = Total
      /\ \A b : Portion(b)' <=> Portion(b)
      /\ \A b : Placed(b)' <=> Placed(b)
      /\ \A b : Judged(b)' <=> Judged(b)
  BY JobKept, VerdictKept DEF Portion, Placed, Judged
<1>2. ASSUME NEW u \in Threads, Holds(u)'
      PROVE  /\ Portion(blk[u])' /\ Placed(blk[u])'
             /\ pc'[u] \in {"compress", "queue"} => Judged(blk[u])'
             /\ pc'[u] = "queue" => blk'[u].size >= 1
  <2>1. CASE Holds(u) /\ pc'[u] = pc[u] /\ blk'[u] = blk[u]
    BY <1>1, <2>1 DEF ContentInv
  <2>2. CASE TakeBlock(u)
    <3>1. pc'[u] = "ahead"
      BY <2>2 DEF TakeBlock, Goto, TypeOK
    <3>2. QED
      BY <2>2, <3>1, TakenContent
  <2>3. CASE ReadAhead(u)
    <3>1. pc'[u] = "compress" /\ pc[u] = "ahead" /\ Holds(u)
      BY <2>3 DEF ReadAhead, Goto, At, Holds, TypeOK
    <3>2. Portion(blk[u]) /\ Placed(blk[u]) /\ blk[u].idx = curRun - 1
      BY <3>1 DEF ContentInv, HolderInv
    <3>3. Portion(blk'[u]) /\ Placed(blk'[u])
      BY <2>3, <3>2, LookedAt DEF Portion, Placed
    <3>4. Judged(blk'[u])
      BY <2>3, <3>2, LookedAt, VerdictOn DEF Judged
    <3>5. QED
      BY <1>1, <3>1, <3>3, <3>4
  <2>4. CASE Compress(u)
    <3>1. pc'[u] = "queue" /\ pc[u] = "compress" /\ Holds(u)
      BY <2>4 DEF Compress, Goto, At, Holds, TypeOK
    <3>2. Portion(blk[u]) /\ Placed(blk[u]) /\ Judged(blk[u])
      BY <3>1 DEF ContentInv
    <3>3. Portion(blk'[u]) /\ Placed(blk'[u]) /\ Judged(blk'[u])
      BY <2>4, <3>2, Compressed DEF Portion, Placed, Judged
    <3>4. QED
      BY <1>1, <2>4, <3>1, <3>3, Compressed
  <2>5. QED
    BY <1>2, <2>1, <2>2, <2>3, <2>4, HeldAfter
<1>3. ASSUME NEW k \in DOMAIN pending'
      PROVE  /\ Portion(pending[k])' /\ Placed(pending[k])'
             /\ Judged(pending[k])' /\ pending'[k].size >= 1
  <2>1. ASSUME NEW l \in DOMAIN pending, pending'[k] = pending[l]
        PROVE  /\ Portion(pending'[k]) /\ Placed(pending'[k])
               /\ Judged(pending'[k]) /\ pending'[k].size >= 1
    BY <2>1 DEF ContentInv
  <2>2. ASSUME NEW t \in Threads, pc[t] = "queue", Holds(t), pending'[k] = blk[t]
        PROVE  /\ Portion(pending'[k]) /\ Placed(pending'[k])
               /\ Judged(pending'[k]) /\ pending'[k].size >= 1
    BY <2>2 DEF ContentInv
  <2>3. QED
    BY <1>1, <2>1, <2>2, QueuedAfter
<1>4. ASSUME NEW i \in DOMAIN out'
      PROVE  /\ Portion(out[i])' /\ Judged(out[i])' /\ out'[i].size >= 1
  <2>1. ASSUME i \in DOMAIN out, out'[i] = out[i]
        PROVE  Portion(out'[i]) /\ Judged(out'[i]) /\ out'[i].size >= 1
    BY <2>1 DEF ContentInv
  <2>2. ASSUME 1 \in DOMAIN pending, out'[i].idx = pending[1].idx,
               out'[i].lo = pending[1].lo, out'[i].have = pending[1].have,
               out'[i].keep = pending[1].keep, out'[i].size = pending[1].size
        PROVE  Portion(out'[i]) /\ Judged(out'[i]) /\ out'[i].size >= 1
    BY <2>2 DEF ContentInv, Portion, Judged
  <2>3. QED
    BY <1>1, <2>1, <2>2, OutAfter
<1>5. QED
  BY <1>2, <1>3, <1>4 DEF ContentInv, Holds

-----------------------------------------------------------------------------
(* EntryInv: the run table locates the runs.                               *)

OutType == [idx : Nat, lo : Nat, have : Nat, keep : BOOLEAN, off : Nat, size : Nat]

LEMMA OutEntries ==
  ASSUME TypeOK
  PROVE  /\ Len(out) \in Nat /\ DOMAIN out = 1 .. Len(out)
         /\ \A i \in DOMAIN out : /\ i \in Nat
                                  /\ out[i].idx \in Nat /\ out[i].lo \in Nat
                                  /\ out[i].have \in Nat /\ out[i].off \in Nat
                                  /\ out[i].size \in Nat
                                  /\ out[i].keep \in BOOLEAN
<1>1. out \in Seq(OutType)
  BY DEF TypeOK, OutType
<1>2. \A c \in OutType : /\ c.idx \in Nat /\ c.lo \in Nat /\ c.have \in Nat
                         /\ c.off \in Nat /\ c.size \in Nat /\ c.keep \in BOOLEAN
  BY DEF OutType
<1>3. Len(out) \in Nat /\ DOMAIN out = 1 .. Len(out)
      /\ \A i \in DOMAIN out : out[i] \in OutType
  BY <1>1
<1>4. QED
  BY <1>2, <1>3

(* Every run in the file ends at or before the write position.             *)
LEMMA EndsBefore ==
  ASSUME TypeOK, EntryInv, NEW i \in DOMAIN out
  PROVE  out[i].off + out[i].size <= OutPos
<1>1. /\ Len(out) \in DOMAIN out /\ out # <<>> /\ Len(out) \in Nat
      /\ i \in Nat /\ i <= Len(out)
  BY OutEntries
<1>2. OutPos = out[Len(out)].off + out[Len(out)].size
  BY <1>1 DEF OutPos
<1>3. CASE i = Len(out)
  BY <1>2, <1>3, OutEntries
<1>4. CASE i # Len(out)
  <2>1. out[i].off + out[i].size <= out[Len(out)].off
    BY <1>1, <1>4 DEF EntryInv
  <2>2. QED
    BY <1>1, <1>2, <2>1, OutEntries
<1>5. QED
  BY <1>3, <1>4

(* Once insertBLKX has returned nothing changes.                           *)
LEMMA OverAfter ==
  ASSUME Next
  PROVE  /\ phase = "finished" => UNCHANGED vars
         /\ Finish \/ (phase' = "finished" => phase = "finished")
<1> USE DEF At, Running
<1>1. ASSUME NEW t \in Threads, Worker(t) \/ ExternalFailure(t)
      PROVE  phase # "finished" /\ phase' # "finished"
  BY <1>1 DEF Worker, ExternalFailure, LockIn, Leave, ShortRead, TakeBlock,
              ReadAhead, Compress, LockOutAndQueue, WriteBlock, Advance, UnlockOut
<1>2. Finish => phase # "finished"
  BY DEF Finish
<1>3. Over => UNCHANGED vars /\ phase' = phase
  BY DEF Over, vars
<1>4. QED
  BY <1>1, <1>2, <1>3 DEF Next

LEMMA SectorStep ==
  ASSUME IndInv, InputInv, EntryInv, Next
  PROVE  curSector' = SectorsOf(Handed')
<1> USE DEF IndInv
<1>1. Total' = Total
  BY JobKept, VerdictKept
<1>2. CASE \E t \in Threads : TakeBlock(t)
  BY <1>2, TakenContent
<1>3. ASSUME ~(\E t \in Threads : TakeBlock(t)) PROVE UNCHANGED <<curSector, curRun>>
  <2>1. ASSUME NEW t \in Threads, Worker(t) \/ ExternalFailure(t)
        PROVE  UNCHANGED <<curSector, curRun>>
    BY <1>3, <2>1 DEF Worker, ExternalFailure, LockIn, Leave, ShortRead,
         ReadAhead, Compress, LockOutAndQueue, WriteBlock, Advance, UnlockOut, inVars
  <2>2. CASE Finish \/ Over
    BY <2>2 DEF Finish, Over, vars, inVars
  <2>3. QED
    BY <2>1, <2>2 DEF Next
<1>4. QED
  BY <1>1, <1>2, <1>3 DEF EntryInv, Handed, MinOf

(* What blockWrite enters for the run it has appended.                     *)
LEMMA EntryWritten ==
  ASSUME IndInv, ContentInv, EntryInv, NEW t \in Threads, WriteBlock(t),
         1 \in DOMAIN pending, pending[1].idx = Len(out)
  PROVE  LET r == runs'[Len(out)] b == pending[1]
         IN  /\ r.start = Len(out) * RunSectors /\ r.count = SectorsOf(b.have)
             /\ r.off = OutPos /\ r.size = b.size
             /\ \A i \in DOMAIN out : runs'[i - 1] = runs[i - 1]
<1> USE DEF IndInv
<1>1. /\ pending[1].start = Len(out) * RunSectors
      /\ pending[1].count = SectorsOf(pending[1].have)
  BY DEF ContentInv, Placed
<1>2. DOMAIN runs = 0 .. Len(out) - 1
  BY DEF TableInv, WriteBlock, At, Running
<1>3. runs' = [i \in (DOMAIN runs) \cup {Len(out)} |->
                 IF i = Len(out) THEN RunOf(pending[1]) ELSE runs[i]]
  BY DEF WriteBlock
<1>4. runs'[Len(out)] = RunOf(pending[1])
  BY <1>3
<1>5. ASSUME NEW i \in DOMAIN out PROVE runs'[i - 1] = runs[i - 1]
  <2>1. i - 1 \in 0 .. Len(out) - 1 /\ i - 1 # Len(out)
    BY OutEntries
  <2>2. QED
    BY <1>2, <1>3, <2>1
<1>6. QED
  BY <1>1, <1>4, <1>5 DEF RunOf

(* The terminator leaves the runs' entries as they are.                    *)
LEMMA Terminated ==
  ASSUME IndInv, Finish
  PROVE  /\ runs'[curRun].start = curSector /\ runs'[curRun].count = 0
         /\ curRun = Len(out)
         /\ \A i \in DOMAIN out : runs'[i - 1] = runs[i - 1]
<1> USE DEF IndInv
<1>1. Len(out) = curRun
  BY AllWritten DEF Finish
<1>2. DOMAIN runs = 0 .. Len(out) - 1
  BY DEF TableInv, Finish, Running
<1>3. runs' = [i \in (DOMAIN runs) \cup {curRun} |->
                 IF i = curRun
                 THEN [start |-> curSector, count |-> 0, raw |-> FALSE,
                       off |-> OutPos, size |-> 0]
                 ELSE runs[i]]
  BY DEF Finish
<1>4. ASSUME NEW i \in DOMAIN out PROVE runs'[i - 1] = runs[i - 1]
  <2>1. i - 1 \in 0 .. Len(out) - 1 /\ i - 1 # curRun
    BY <1>1, OutEntries
  <2>2. QED
    BY <1>2, <1>3, <2>1
<1>5. QED
  BY <1>1, <1>3, <1>4

LEMMA EntryStep ==
  ASSUME IndInv, InputInv, ContentInv, EntryInv, Next
  PROVE  EntryInv'
<1> USE DEF IndInv
<1> DEFINE Entries == \A i \in DOMAIN out :
                        /\ runs[i - 1].start = (i - 1) * RunSectors
                        /\ runs[i - 1].count = SectorsOf(out[i].have)
                        /\ runs[i - 1].off = out[i].off
                        /\ runs[i - 1].size = out[i].size
           Apart == \A i, j \in DOMAIN out :
                      i < j => out[i].off + out[i].size <= out[j].off
           Closed == phase = "finished" => /\ runs[curRun].start = curSector
                                           /\ runs[curRun].count = 0
<1>1. curSector' = SectorsOf(Handed')
  BY SectorStep
<1>2. Entries /\ Apart /\ Closed
  BY DEF EntryInv
<1>3. Closed'
  <2>1. CASE Finish
    BY <2>1, Terminated DEF Finish, inVars
  <2>2. CASE ~Finish
    BY <1>2, <2>2, OverAfter DEF vars, inVars, outVars
  <2>3. QED
    BY <2>1, <2>2
<1>4. CASE out' = out /\ (Finish \/ UNCHANGED <<runs, att>>)
  <2>1. \A i \in DOMAIN out : runs'[i - 1] = runs[i - 1]
    BY <1>4, Terminated
  <2>2. Entries' /\ Apart'
    BY <1>2, <1>4, <2>1
  <2> HIDE DEF Entries, Apart, Closed
  <2>3. QED
    BY <1>1, <1>3, <2>2 DEF EntryInv, Entries, Apart, Closed
<1>5. ASSUME NEW t \in Threads, WriteBlock(t),
             1 \in DOMAIN pending, pending[1] \in BlockType,
             pending[1].idx = Len(out),
             Len(out) \in Nat, DOMAIN out = 1 .. Len(out),
             DOMAIN out' = 1 .. Len(out) + 1,
             \A i \in DOMAIN out : out'[i] = out[i],
             out'[Len(out) + 1] =
                   [idx |-> pending[1].idx, lo |-> pending[1].lo,
                    have |-> pending[1].have, keep |-> pending[1].keep,
                    off |-> OutPos, size |-> pending[1].size]
      PROVE  EntryInv'
  <2> DEFINE n == Len(out)
             new == out'[n + 1]
  <2>1. new.have = pending[1].have /\ new.off = OutPos /\ new.size = pending[1].size
    BY <1>5
  <2>2. /\ runs'[n].start = n * RunSectors
        /\ runs'[n].count = SectorsOf(new.have)
        /\ runs'[n].off = new.off /\ runs'[n].size = new.size
        /\ \A i \in DOMAIN out : runs'[i - 1] = runs[i - 1]
    BY <1>5, <2>1, EntryWritten
  <2>3. \A i \in DOMAIN out' : i \in DOMAIN out \/ (i = n + 1 /\ i - 1 = n)
    BY <1>5
  <2> HIDE DEF n
  <2>4. Entries'
    BY <1>2, <1>5, <2>2, <2>3
  <2>5. \A i \in DOMAIN out : out'[i].off + out'[i].size <= new.off
    BY <1>5, <2>1, EndsBefore
  <2>6. Apart'
    <3>1. ASSUME NEW i \in DOMAIN out', NEW j \in DOMAIN out', i < j
          PROVE  out'[i].off + out'[i].size <= out'[j].off
      <4>1. i \in DOMAIN out
        BY <1>5, <3>1 DEF n
      <4>2. CASE j \in DOMAIN out
        BY <1>2, <1>5, <3>1, <4>1, <4>2
      <4>3. CASE j = n + 1
        BY <2>5, <4>1, <4>3
      <4>4. QED
        BY <2>3, <4>2, <4>3
    <3>2. QED
      BY <3>1
  <2> HIDE DEF Entries, Apart, Closed
  <2>7. QED
    BY <1>1, <1>3, <2>4, <2>6 DEF EntryInv, Entries, Apart, Closed
<1>6. QED
  BY <1>4, <1>5, OutAfter

-----------------------------------------------------------------------------
(* The attribution's lengths.                                              *)

(* The runs kept raw are neighbours.                                       *)
LEMMA RawAdjacent ==
  ASSUME NEW i \in Nat, NEW j \in Nat, Image!Raw(i), Image!Raw(j)
  PROVE  i - j <= 1
<1>1. PICK f \in Nat : Image!FirstSight(f) /\ (f = i \/ f = i - 1)
  BY DEF Image!Raw
<1>2. PICK g \in Nat : Image!FirstSight(g) /\ (g = j \/ g = j - 1)
  BY DEF Image!Raw
<1>3. f = g
  BY <1>1, <1>2, SightUnique
<1>4. QED
  BY <1>1, <1>2, <1>3

(* A non-empty set of neighbours has a first and a last element.           *)
LEMMA Ends ==
  ASSUME NEW K, K \subseteq Nat, K # {}, \A i, j \in K : i - j <= 1
  PROVE  LET first == CHOOSE i \in K : \A j \in K : i <= j
             last  == CHOOSE i \in K : \A j \in K : j <= i
         IN  /\ first \in K /\ last \in K
             /\ \A j \in K : first <= j /\ j <= last
             /\ \A f \in K : (\A j \in K : f <= j) => f = first
             /\ \A l \in K : (\A j \in K : j <= l) => l = last
<1> DEFINE first == CHOOSE i \in K : \A j \in K : i <= j
           last  == CHOOSE i \in K : \A j \in K : j <= i
<1>1. \E i \in K : \A j \in K : i <= j
  BY LeastNat
<1>2. first \in K /\ \A j \in K : first <= j
  BY <1>1
<1>3. \E i \in K : \A j \in K : j <= i
  <2>1. CASE first + 1 \in K
    <3>1. ASSUME NEW j \in K PROVE j <= first + 1
      <4>1. j \in Nat /\ first \in Nat /\ j - first <= 1
        BY <1>2
      <4>2. QED
        BY <4>1
    <3>2. QED
      BY <2>1, <3>1
  <2>2. CASE first + 1 \notin K
    <3>1. ASSUME NEW j \in K PROVE j <= first
      <4>1. j \in Nat /\ first \in Nat /\ j - first <= 1 /\ j # first + 1
        BY <1>2, <2>2
      <4>2. QED
        BY <4>1
    <3>2. QED
      BY <1>2, <3>1
  <2>3. QED
    BY <2>1, <2>2
<1>4. last \in K /\ \A j \in K : j <= last
  BY <1>3
<1> HIDE DEF first, last
<1>5. \A f \in K : (\A j \in K : f <= j) => f = first
  BY <1>2
<1>6. \A l \in K : (\A j \in K : j <= l) => l = last
  BY <1>4
<1>7. QED
  BY <1>2, <1>4, <1>5, <1>6 DEF first, last

KeptRuns == {i \in DOMAIN out : out[i].keep}

(* What AttributionSplit says of the kept runs, by any first and last.     *)
LEMMA SplitMeans ==
  ASSUME TypeOK, ContentInv, EntryInv, SliceInv, OutputInOrder
  PROVE  /\ KeptRuns \subseteq Nat
         /\ \A i, j \in KeptRuns : i - j <= 1
<1>1. \A i \in DOMAIN out : /\ out[i].idx = i - 1 /\ i \in Nat /\ i - 1 \in Nat
                            /\ out[i].keep => Image!Raw(i - 1)
  <2>1. ASSUME NEW i \in DOMAIN out
        PROVE  /\ out[i].idx = i - 1 /\ i \in Nat /\ i - 1 \in Nat
               /\ out[i].keep => Image!Raw(i - 1)
    BY OutEntries DEF OutputInOrder, ContentInv, Judged
  <2>2. QED
    BY <2>1
<1>2. ASSUME NEW i \in KeptRuns, NEW j \in KeptRuns PROVE i - j <= 1
  <2>1. /\ i - 1 \in Nat /\ j - 1 \in Nat /\ Image!Raw(i - 1) /\ Image!Raw(j - 1)
        /\ i \in Nat /\ j \in Nat
    BY <1>1 DEF KeptRuns
  <2>2. (i - 1) - (j - 1) <= 1
    BY <2>1, RawAdjacent
  <2>3. QED
    BY <2>1, <2>2
<1>3. QED
  BY <1>1, <1>2 DEF KeptRuns

AttType == [beforeU : Nat, beforeC : Nat, rawU : Int, rawC : Int,
            afterU : Int, afterC : Int]

(* The cases of sentinelObserveBuffers.                                    *)
LEMMA ObservedLengths ==
  ASSUME att \in AttType, NEW b \in BlockType
  PROVE  LET a == Observed(b)
         IN  /\ b.keep /\ att.afterU < 0 =>
                  /\ a.beforeC = att.beforeC /\ a.rawC = b.size
                  /\ a.afterC = 0 /\ a.afterU = 0
             /\ b.keep /\ att.afterU >= 0 =>
                  /\ a.beforeC = att.beforeC /\ a.rawC = att.rawC + b.size
                  /\ a.afterC = att.afterC /\ a.afterU = att.afterU
             /\ ~b.keep /\ att.afterU < 0 =>
                  /\ a.beforeC = att.beforeC + b.size /\ a.rawC = att.rawC
                  /\ a.afterC = att.afterC /\ a.afterU = att.afterU
             /\ ~b.keep /\ att.afterU >= 0 =>
                  /\ a.beforeC = att.beforeC /\ a.rawC = att.rawC
                  /\ a.afterC = att.afterC + b.size /\ a.afterU >= 0
<1>1. /\ att.afterU \in Int /\ b.keep \in BOOLEAN /\ InSize(b) \in Nat
  BY InSizeType DEF AttType, BlockType
<1>2. CASE b.keep /\ att.afterU < 0
  <2>1. Observed(b) = [att EXCEPT !.rawU = InSize(b), !.rawC = b.size,
                                  !.afterU = 0, !.afterC = 0]
    BY <1>1, <1>2 DEF Observed
  <2>2. QED
    BY <1>1, <1>2, <2>1 DEF AttType
<1>3. CASE b.keep /\ att.afterU >= 0
  <2>1. Observed(b) = [att EXCEPT !.rawU = @ + InSize(b), !.rawC = @ + b.size]
    BY <1>1, <1>3 DEF Observed
  <2>2. QED
    BY <1>1, <1>3, <2>1 DEF AttType
<1>4. CASE ~b.keep /\ att.afterU < 0
  <2>1. Observed(b) = [att EXCEPT !.beforeU = @ + InSize(b), !.beforeC = @ + b.size]
    BY <1>1, <1>4 DEF Observed
  <2>2. QED
    BY <1>1, <1>4, <2>1 DEF AttType
<1>5. CASE ~b.keep /\ att.afterU >= 0
  <2>1. Observed(b) = [att EXCEPT !.afterU = @ + InSize(b), !.afterC = @ + b.size]
    BY <1>1, <1>5 DEF Observed
  <2>2. QED
    BY <1>1, <1>5, <2>1 DEF AttType
<1>6. QED
  BY <1>1, <1>2, <1>3, <1>4, <1>5

(* The write position and the kept runs after blockWrite.                  *)
LEMMA WrittenEnd ==
  ASSUME IndInv, NEW t \in Threads, WriteBlock(t),
         pending[1] \in BlockType,
         DOMAIN out' = 1 .. Len(out) + 1,
         \A i \in DOMAIN out : out'[i] = out[i],
         out'[Len(out) + 1] =
                   [idx |-> pending[1].idx, lo |-> pending[1].lo,
                    have |-> pending[1].have, keep |-> pending[1].keep,
                    off |-> OutPos, size |-> pending[1].size]
  PROVE  /\ OutPos' = OutPos + pending[1].size
         /\ KeptRuns' = KeptRuns \cup (IF pending[1].keep THEN {Len(out) + 1} ELSE {})
<1> USE DEF IndInv
<1>1. Len(out) \in Nat /\ DOMAIN out = 1 .. Len(out)
  BY OutEntries
<1>2. Len(out') = Len(out) + 1 /\ out' # <<>>
  <2>1. \E S : out \in Seq(S)
    BY DEF TypeOK
  <2>2. \E e : out' = Append(out, e)
    BY DEF WriteBlock
  <2>3. Len(out') = Len(out) + 1
    BY <2>1, <2>2, AppendedTo
  <2>4. QED
    BY <1>1, <2>3
<1>3. OutPos' = OutPos + pending[1].size
  BY <1>2 DEF OutPos
<1>4. KeptRuns' = KeptRuns \cup (IF pending[1].keep THEN {Len(out) + 1} ELSE {})
  <2>1. KeptRuns' = {i \in DOMAIN out' : out'[i].keep}
    BY DEF KeptRuns
  <2>2. DOMAIN out' = DOMAIN out \cup {Len(out) + 1}
    BY <1>1
  <2>3. out'[Len(out) + 1].keep = pending[1].keep /\ pending[1].keep \in BOOLEAN
    BY DEF BlockType
  <2>4. QED
    BY <2>1, <2>2, <2>3 DEF KeptRuns
<1>5. QED
  BY <1>3, <1>4

(* What AttributionSplit says, once the first and the last kept run are    *)
(* known.                                                                  *)
SplitAt(f, l) == /\ att.beforeC = out[f].off
                 /\ att.rawC = out[l].off + out[l].size - out[f].off
                 /\ att.beforeC + att.rawC + att.afterC = OutPos

Unsplit == /\ att.beforeC = OutPos
           /\ att.rawC = (IF phase = "finished" THEN 0 ELSE -1)

LEMMA SplitFrom ==
  ASSUME AttributionSplit, job.attribution, KeptRuns \subseteq Nat,
         \A i, j \in KeptRuns : i - j <= 1
  PROVE  /\ KeptRuns = {} => Unsplit
         /\ KeptRuns # {} => \E f, l \in KeptRuns :
              /\ \A j \in KeptRuns : f <= j /\ j <= l
              /\ SplitAt(f, l)
<1> DEFINE first == CHOOSE i \in KeptRuns : \A j \in KeptRuns : i <= j
           last  == CHOOSE i \in KeptRuns : \A j \in KeptRuns : j <= i
<1>1. /\ KeptRuns = {} => Unsplit
      /\ KeptRuns # {} => SplitAt(first, last)
  BY DEF AttributionSplit, KeptRuns, Unsplit, SplitAt
<1>2. KeptRuns # {} => /\ first \in KeptRuns /\ last \in KeptRuns
                       /\ \A j \in KeptRuns : first <= j /\ j <= last
  BY Ends
<1> HIDE DEF first, last
<1>3. QED
  BY <1>1, <1>2

LEMMA SplitTo ==
  ASSUME KeptRuns' \subseteq Nat, \A i, j \in KeptRuns' : i - j <= 1,
         job'.attribution => (KeptRuns' = {} => Unsplit'),
         job'.attribution => (KeptRuns' # {} => \E f, l \in KeptRuns' :
              /\ \A j \in KeptRuns' : f <= j /\ j <= l
              /\ SplitAt(f, l)')
  PROVE  AttributionSplit'
<1> DEFINE first == CHOOSE i \in KeptRuns : \A j \in KeptRuns : i <= j
           last  == CHOOSE i \in KeptRuns : \A j \in KeptRuns : j <= i
<1>1. ASSUME job'.attribution, KeptRuns' # {} PROVE SplitAt(first, last)'
  <2>1. PICK f \in KeptRuns', l \in KeptRuns' :
              /\ \A j \in KeptRuns' : f <= j /\ j <= l
              /\ SplitAt(f, l)'
    BY <1>1
  <2>2. f = first' /\ l = last'
    BY <1>1, <2>1, Ends
  <2>3. QED
    BY <2>1, <2>2
<1>2. QED
  BY <1>1 DEF AttributionSplit, KeptRuns, Unsplit, SplitAt

(* Any block the hooks see extends the split at its end.                   *)
LEMMA SplitWrite ==
  ASSUME IndInv, ContentInv, EntryInv, SeenInv, AttributionSplit,
         NEW t \in Threads, WriteBlock(t), job' = job, job.attribution,
         1 \in DOMAIN pending, pending[1] \in BlockType,
         pending[1].idx = Len(out),
         DOMAIN out' = 1 .. Len(out) + 1,
         \A i \in DOMAIN out : out'[i] = out[i],
         out'[Len(out) + 1] =
                   [idx |-> pending[1].idx, lo |-> pending[1].lo,
                    have |-> pending[1].have, keep |-> pending[1].keep,
                    off |-> OutPos, size |-> pending[1].size]
  PROVE  SeenInv' /\ AttributionSplit'
<1> USE DEF IndInv
<1> DEFINE b == pending[1]
<1>0. PICK n : n = Len(out) + 1
  OBVIOUS
<1>1. /\ KeptRuns \subseteq Nat /\ \A i, j \in KeptRuns : i - j <= 1
  BY SplitMeans
<1>2. /\ Len(out) \in Nat /\ DOMAIN out = 1 .. Len(out)
      /\ n \in Nat /\ n \notin DOMAIN out /\ n \in DOMAIN out'
      /\ KeptRuns \subseteq DOMAIN out
      /\ \A i \in DOMAIN out : out[i].off \in Nat /\ out[i].size \in Nat
  BY <1>0, OutEntries DEF KeptRuns
<1>3. /\ OutPos' = OutPos + b.size /\ OutPos \in Nat /\ b.size \in Nat
      /\ KeptRuns' = KeptRuns \cup (IF b.keep THEN {n} ELSE {})
      /\ out'[n].off = OutPos /\ out'[n].size = b.size
      /\ b.keep \in BOOLEAN
  <2>1. b.size \in Nat /\ b.keep \in BOOLEAN
    BY DEF BlockType
  <2>2. QED
    BY <1>0, <2>1, WrittenEnd, OutPosType
<1>4. /\ att' = Observed(b) /\ att \in AttType
      /\ phase # "finished" /\ phase' # "finished"
  BY DEF WriteBlock, TypeOK, AttType, At, Running
<1>5. att.afterU >= 0 <=> KeptRuns # {}
  BY <1>4 DEF SeenInv, KeptRuns
<1>6. att.afterU \in Int /\ att.rawC \in Int /\ att.beforeC \in Nat /\ att.afterC \in Int
  BY <1>4 DEF AttType
<1>7. /\ b.keep /\ KeptRuns = {} =>
           /\ att'.beforeC = att.beforeC /\ att'.rawC = b.size
           /\ att'.afterC = 0 /\ att'.afterU = 0
      /\ b.keep /\ KeptRuns # {} =>
           /\ att'.beforeC = att.beforeC /\ att'.rawC = att.rawC + b.size
           /\ att'.afterC = att.afterC /\ att'.afterU = att.afterU
      /\ ~b.keep /\ KeptRuns = {} =>
           /\ att'.beforeC = att.beforeC + b.size /\ att'.rawC = att.rawC
           /\ att'.afterC = att.afterC /\ att'.afterU = att.afterU
      /\ ~b.keep /\ KeptRuns # {} =>
           /\ att'.beforeC = att.beforeC /\ att'.rawC = att.rawC
           /\ att'.afterC = att.afterC + b.size /\ att'.afterU >= 0
  <2>1. att.afterU < 0 <=> ~(att.afterU >= 0)
    BY <1>6
  <2>2. QED
    BY <1>4, <1>5, <2>1, ObservedLengths
<1>8. att'.afterU >= 0 <=> KeptRuns' # {}
  <2>1. b.keep => att'.afterU >= 0
    BY <1>5, <1>7
  <2>2. ~b.keep => (att'.afterU >= 0 <=> KeptRuns # {})
    BY <1>5, <1>7
  <2>3. QED
    BY <1>3, <2>1, <2>2
<1>9. SeenInv'
  BY <1>8 DEF SeenInv, KeptRuns
<1>10. /\ KeptRuns = {} => Unsplit
       /\ KeptRuns # {} => \E f, l \in KeptRuns :
            /\ \A j \in KeptRuns : f <= j /\ j <= l
            /\ SplitAt(f, l)
  BY <1>1, SplitFrom
<1>11. b.keep => \A i \in KeptRuns : n - i <= 1 /\ i <= n /\ i = n - 1
  <2>1. ASSUME b.keep, NEW i \in KeptRuns PROVE n - i <= 1 /\ i <= n /\ i = n - 1
    <3>1. Image!Raw(Len(out))
      BY <2>1 DEF ContentInv, Judged
    <3>2. Image!Raw(i - 1) /\ i - 1 \in Nat /\ i \in Nat /\ i <= Len(out)
      <4>1. out[i].idx = i - 1 /\ out[i].keep
        BY <2>1 DEF OutputInOrder, KeptRuns
      <4>2. QED
        BY <1>2, <2>1, <4>1 DEF ContentInv, Judged
    <3>3. Len(out) - (i - 1) <= 1
      BY <1>2, <3>1, <3>2, RawAdjacent
    <3>4. Len(out) \in Nat
      BY <1>2
    <3>5. QED
      BY <1>0, <3>2, <3>3, <3>4
  <2>2. QED
    BY <2>1
<1> HIDE DEF b
<1>12. KeptRuns' \subseteq Nat /\ \A i, j \in KeptRuns' : i - j <= 1
  <2>1. KeptRuns' \subseteq Nat
    BY <1>1, <1>2, <1>3
  <2>2. ASSUME NEW i \in KeptRuns', NEW j \in KeptRuns' PROVE i - j <= 1
    <3>1. i \in Nat /\ j \in Nat
      BY <2>1
    <3>2. CASE b.keep
      <4>1. i \in KeptRuns \/ i = n
        BY <1>3, <2>2, <3>2
      <4>2. j \in KeptRuns \/ j = n
        BY <1>3, <2>2, <3>2
      <4>3. QED
        BY <1>1, <1>2, <1>11, <3>1, <3>2, <4>1, <4>2
    <3>3. CASE ~b.keep
      BY <1>1, <1>3, <2>2, <3>3
    <3>4. QED
      BY <3>2, <3>3
  <2>3. QED
    BY <2>1, <2>2
<1>13. KeptRuns' = {} => Unsplit'
  <2>1. KeptRuns' = {} => KeptRuns = {} /\ ~b.keep
    BY <1>3
  <2>2. QED
    BY <1>3, <1>4, <1>6, <1>7, <1>10, <2>1 DEF Unsplit
<1>14. ASSUME KeptRuns' # {}
       PROVE  \E f, l \in KeptRuns' : /\ \A j \in KeptRuns' : f <= j /\ j <= l
                                      /\ SplitAt(f, l)'
  <2>1. CASE b.keep /\ KeptRuns = {}
    <3>1. KeptRuns' = {n}
      BY <1>3, <2>1
    <3>2. SplitAt(n, n)'
      BY <1>2, <1>3, <1>6, <1>7, <1>10, <2>1 DEF SplitAt, Unsplit
    <3>3. QED
      BY <1>2, <3>1, <3>2
  <2>2. CASE b.keep /\ KeptRuns # {}
    <3>1. PICK f \in KeptRuns, l \in KeptRuns :
            /\ \A j \in KeptRuns : f <= j /\ j <= l
            /\ SplitAt(f, l)
      BY <1>10, <2>2
    <3>2. l = Len(out) /\ f = Len(out) /\ KeptRuns' = KeptRuns \cup {n}
      BY <1>0, <1>2, <1>3, <1>11, <2>2
    <3>3. OutPos = out[l].off + out[l].size
      BY <1>2, <3>2 DEF OutPos
    <3>4. out'[f] = out[f] /\ out[f].off \in Nat
      BY <1>2
    <3>5. SplitAt(f, n)'
      <4>1. /\ att'.beforeC = out[f].off
            /\ att'.rawC = OutPos - out[f].off + b.size
            /\ att'.beforeC + att'.rawC + att'.afterC = OutPos + b.size
        <5>1. /\ att'.beforeC = att.beforeC /\ att'.rawC = att.rawC + b.size
              /\ att'.afterC = att.afterC
          BY <1>7, <2>2
        <5>2. /\ att.beforeC = out[f].off /\ att.rawC = OutPos - out[f].off
              /\ att.beforeC + att.rawC + att.afterC = OutPos
          <6>1. SplitAt(f, l)
            BY <3>1
          <6>2. /\ att.beforeC = out[f].off
                /\ att.rawC = out[l].off + out[l].size - out[f].off
                /\ att.beforeC + att.rawC + att.afterC = OutPos
            BY <6>1 DEF SplitAt
          <6>3. out[l].off \in Nat /\ out[l].size \in Nat /\ out[f].off \in Nat
            BY <1>2
          <6>4. QED
            BY <3>3, <6>2, <6>3
        <5>3. b.size \in Nat /\ OutPos \in Nat
          BY <1>3
        <5>4. att'.rawC = OutPos - out[f].off + b.size
          BY <5>1, <5>2
        <5>5. att'.beforeC + att'.rawC + att'.afterC = OutPos + b.size
          <6>1. (att.beforeC + att.rawC + att.afterC) + b.size = OutPos + b.size
            BY <5>2
          <6>2. att.rawC \in Int /\ att.afterC \in Int /\ att.beforeC \in Nat
            BY <1>6
          <6>3. QED
            BY <5>1, <5>3, <6>1, <6>2
        <5>6. QED
          BY <5>1, <5>2, <5>4, <5>5
      <4>2. OutPos + b.size - out[f].off = OutPos - out[f].off + b.size
        BY <1>3, <3>4
      <4>3. QED
        BY <1>3, <3>4, <4>1, <4>2 DEF SplitAt
    <3>6. f \in KeptRuns' /\ n \in KeptRuns'
          /\ \A j \in KeptRuns' : f <= j /\ j <= n
      BY <1>1, <1>2, <1>11, <2>2, <3>1, <3>2
    <3>7. QED
      BY <3>5, <3>6
  <2>3. CASE ~b.keep
    <3>1. KeptRuns' = KeptRuns
      BY <1>3, <2>3
    <3>2. PICK f \in KeptRuns, l \in KeptRuns :
            /\ \A j \in KeptRuns : f <= j /\ j <= l
            /\ SplitAt(f, l)
      BY <1>10, <1>14, <3>1
    <3>3. out'[f] = out[f] /\ out'[l] = out[l]
      BY <1>2
    <3>4. SplitAt(f, l)'
      <4>1. /\ att'.beforeC = att.beforeC /\ att'.rawC = att.rawC
            /\ att'.afterC = att.afterC + b.size
        BY <1>7, <1>14, <2>3, <3>1
      <4>2. att.beforeC + att.rawC + (att.afterC + b.size) = OutPos + b.size
        <5>1. att.beforeC + att.rawC + att.afterC = OutPos
          BY <3>2 DEF SplitAt
        <5>2. b.size \in Nat
          BY <1>3
        <5>3. QED
          BY <1>6, <5>1, <5>2
      <4>3. QED
        BY <1>3, <3>2, <3>3, <4>1, <4>2 DEF SplitAt
    <3>5. QED
      BY <3>1, <3>2, <3>4
  <2>4. QED
    BY <1>3, <2>1, <2>2, <2>3
<1>15. AttributionSplit'
  BY <1>12, <1>13, <1>14, SplitTo
<1>16. QED
  BY <1>9, <1>15

(* sentinelAfterMainBlkx changes only what was never seen.                 *)
LEMMA SplitFinish ==
  ASSUME IndInv, ContentInv, EntryInv, SeenInv, AttributionSplit, Finish
  PROVE  SeenInv' /\ AttributionSplit'
<1> USE DEF IndInv
<1>1. /\ KeptRuns \subseteq Nat /\ \A i, j \in KeptRuns : i - j <= 1
  BY SplitMeans
<1>2. /\ out' = out /\ job' = job /\ phase' = "finished" /\ phase # "finished"
      /\ att \in AttType
  BY DEF Finish, Running, TypeOK, AttType
<1>3. KeptRuns' = KeptRuns /\ OutPos' = OutPos
  BY <1>2 DEF KeptRuns, OutPos
<1>4. SeenInv'
  BY <1>2 DEF SeenInv
<1>5. ASSUME job.attribution
      PROVE  /\ KeptRuns = {} => Unsplit'
             /\ KeptRuns # {} => \E f, l \in KeptRuns :
                  /\ \A j \in KeptRuns : f <= j /\ j <= l
                  /\ SplitAt(f, l)'
  <2>1. /\ att'.beforeC = att.beforeC
        /\ att'.rawC = IF att.rawC < 0 THEN 0 ELSE att.rawC
        /\ att'.afterC = IF att.afterC < 0 THEN 0 ELSE att.afterC
    BY <1>2, <1>5 DEF Finish, Settled, AttType
  <2>2. CASE KeptRuns = {}
    <3>1. Unsplit
      BY <1>1, <1>5, <2>2, SplitFrom
    <3>2. QED
      BY <1>2, <1>3, <2>1, <2>2, <3>1 DEF Unsplit
  <2>3. CASE KeptRuns # {}
    <3>1. PICK f \in KeptRuns, l \in KeptRuns :
            /\ \A j \in KeptRuns : f <= j /\ j <= l
            /\ SplitAt(f, l)
      BY <1>1, <1>5, <2>3, SplitFrom
    <3>2. /\ f \in DOMAIN out /\ l \in DOMAIN out /\ f <= l /\ f \in Nat /\ l \in Nat
          /\ out[f].off \in Nat /\ out[f].size \in Nat
          /\ out[l].off \in Nat /\ out[l].size \in Nat /\ OutPos \in Nat
      BY <1>1, <3>1, OutEntries, OutPosType DEF KeptRuns
    <3>3. out[f].off <= out[l].off
      BY <3>2 DEF EntryInv
    <3>4. out[l].off + out[l].size <= OutPos
      BY <3>2, EndsBefore
    <3>5. att.rawC >= 0 /\ att.afterC >= 0 /\ att.rawC \in Int /\ att.afterC \in Int
      <4>1. att.rawC \in Int /\ att.afterC \in Int /\ att.beforeC \in Nat
        BY <1>2 DEF AttType
      <4>2. QED
        BY <3>1, <3>2, <3>3, <3>4, <4>1 DEF SplitAt
    <3>6. att'.rawC = att.rawC /\ att'.afterC = att.afterC
      BY <2>1, <3>5
    <3>7. SplitAt(f, l)'
      BY <1>2, <1>3, <2>1, <3>1, <3>6 DEF SplitAt
    <3>8. QED
      BY <2>3, <3>1, <3>7
  <2>4. QED
    BY <2>2, <2>3
<1>6. AttributionSplit'
  BY <1>1, <1>2, <1>3, <1>5, SplitTo
<1>7. QED
  BY <1>4, <1>6

LEMMA SplitStep ==
  ASSUME IndInv, ContentInv, EntryInv, SeenInv, AttributionSplit, Next
  PROVE  SeenInv' /\ AttributionSplit'
<1>1. job' = job /\ (Finish \/ (phase' = "finished" <=> phase = "finished"))
  <2>1. phase = "finished" => phase' = "finished"
    BY OverAfter DEF vars
  <2>2. QED
    BY <2>1, JobKept, OverAfter
<1>2. CASE Finish
  BY <1>2, SplitFinish
<1>3. ASSUME ~Finish, out' = out, att' = att PROVE SeenInv' /\ AttributionSplit'
  <2>1. SeenInv'
    BY <1>1, <1>3 DEF SeenInv
  <2>2. OutPos' = OutPos
    BY <1>3 DEF OutPos
  <2>3. AttributionSplit'
    BY <1>1, <1>3, <2>2 DEF AttributionSplit
  <2>4. QED
    BY <2>1, <2>3
<1>4. ASSUME ~job.attribution PROVE SeenInv' /\ AttributionSplit'
  BY <1>1, <1>4 DEF SeenInv, AttributionSplit
<1>5. QED
  BY <1>1, <1>2, <1>3, <1>4, OutAfter, SplitWrite

-----------------------------------------------------------------------------
(* The inductive invariant.                                                *)

LEMMA InitFullInv == Init => FullInv
<1> SUFFICES ASSUME Init PROVE FullInv
  OBVIOUS
<1>1. IndInv /\ TypeOK /\ job \in Jobs
  BY InitIndInv DEF IndInv, TypeOK
<1>2. /\ curRun = 0 /\ curSector = 0 /\ keepRaw = "KeepNoneRaw"
      /\ pending = <<>> /\ out = <<>> /\ phase = "joining"
      /\ DOMAIN out = {} /\ DOMAIN pending = {}
      /\ \A t \in Threads : pc[t] = "loop"
      /\ ~Refilling
  BY DEF Init, Refilling
<1>3. Handed = 0 /\ Total \in Nat
  BY <1>1, <1>2, JobFacts, RunUnitsType DEF Handed, MinOf
<1>4. InputInv
  <2>1. bytesRemain = job.bytes /\ nextIn.lo = 0
    BY DEF Init, ReadNext
  <2>2. ~untilEOF => bytesRemain = Total - Handed
    BY <1>1, <1>3, <2>1, JobFacts DEF untilEOF
  <2>3. QED
    BY <1>2, <1>3, <2>1, <2>2 DEF InputInv, untilEOF
<1>5. VerdictInv
  <2>1. 0 .. curRun - 1 = {}
    BY <1>2
  <2>2. QED
    BY <1>2, <2>1 DEF VerdictInv
<1>6. ContentInv
  BY <1>2 DEF ContentInv, Holds
<1>7. EntryInv
  <2>1. SectorsOf(0) = 0
    BY SectorsPositive
  <2>2. QED
    BY <1>2, <1>3, <2>1 DEF EntryInv
<1>8. /\ att.beforeC = OutStart /\ att.rawC = -1 /\ att.afterU = -1
      /\ OutPos = OutStart
  BY <1>2 DEF Init, OutPos
<1>9. SeenInv /\ AttributionSplit
  BY <1>2, <1>8 DEF SeenInv, AttributionSplit
<1>10. QED
  BY <1>1, <1>4, <1>5, <1>6, <1>7, <1>9 DEF FullInv

LEMMA StepFullInv == FullInv /\ [Next]_vars => FullInv'
<1>1. ASSUME FullInv, Next PROVE FullInv'
  <2> USE <1>1 DEF FullInv
  <2>1. IndInv'
    BY StepIndInv
  <2>2. InputInv' /\ VerdictInv' /\ ContentInv' /\ EntryInv'
    BY InputStep, VerdictStep, ContentStep, EntryStep
  <2>3. SeenInv' /\ AttributionSplit'
    BY SplitStep
  <2>4. QED
    BY <2>1, <2>2, <2>3
<1>2. ASSUME FullInv, UNCHANGED vars PROVE FullInv'
  <2> USE <1>2 DEF FullInv, vars, inVars, outVars
  <2>1. IndInv'
    BY StepIndInv
  <2>2. Total' = Total /\ Handed' = Handed /\ OutPos' = OutPos
        /\ (Refilling' <=> Refilling)
    BY DEF Total, Handed, MinOf, OutPos, Refilling
  <2>3. InputInv'
    BY <2>2 DEF InputInv, untilEOF
  <2>4. VerdictInv'
    BY <2>2, VerdictKept DEF VerdictInv
  <2>5. ContentInv'
    <3>1. /\ \A b : Portion(b)' <=> Portion(b)
          /\ \A b : Placed(b)' <=> Placed(b)
          /\ \A b : Judged(b)' <=> Judged(b)
      BY <2>2, VerdictKept DEF Portion, Placed, Judged
    <3>2. QED
      BY <3>1 DEF ContentInv, Holds
  <2>6. EntryInv'
    BY <2>2 DEF EntryInv
  <2>7. SeenInv' /\ AttributionSplit'
    BY <2>2 DEF SeenInv, AttributionSplit
  <2>8. QED
    BY <2>1, <2>3, <2>4, <2>5, <2>6, <2>7
<1>3. QED
  BY <1>1, <1>2

(* The invariant of insertBLKX, data included: what every block holds,     *)
(* what the attribution made of it, and where the run table and the        *)
(* attribution record say it is.                                           *)
THEOREM FullyInductive == Spec => []FullInv
  BY InitFullInv, StepFullInv, PTL DEF Spec

(* The lengths handed to the attribution resource split the file at the    *)
(* runs kept raw, whatever the order in which threads finish.              *)
THEOREM LengthsSplit == Spec => []AttributionSplit
<1>1. FullInv => AttributionSplit
  BY DEF FullInv
<1>2. QED
  BY <1>1, FullyInductive, PTL

-----------------------------------------------------------------------------
(* The threads implement the sequential writer.                            *)

Seen(e) == [lo |-> e.lo, have |-> e.have, keep |-> e.keep]

SeenImage == [i \in DOMAIN out |-> Seen(out[i])]

LEMMA ImageIsSeq ==
  ASSUME TypeOK
  PROVE  /\ SeenImage \in Seq({Seen(e) : e \in OutType})
         /\ Len(SeenImage) = Len(out)
         /\ \A i \in DOMAIN out : SeenImage[i] = Seen(out[i])
<1>1. out \in Seq(OutType)
  BY DEF TypeOK, OutType
<1>2. /\ Len(out) \in Nat /\ DOMAIN out = 1 .. Len(out)
      /\ \A i \in 1 .. Len(out) : out[i] \in OutType
  BY <1>1
<1>3. SeenImage \in [1 .. Len(out) -> {Seen(e) : e \in OutType}]
  BY <1>2 DEF SeenImage
<1>4. SeenImage \in Seq({Seen(e) : e \in OutType})
  BY <1>2, <1>3, SeqDef
<1>5. DOMAIN SeenImage = 1 .. Len(SeenImage) /\ Len(SeenImage) \in Nat
      /\ DOMAIN SeenImage = 1 .. Len(out)
  BY <1>3, <1>4, LenProperties
<1>6. Len(SeenImage) = Len(out)
  <2>1. \A a, b \in Nat : 1 .. a = 1 .. b => ~(a < b)
    <3>1. ASSUME NEW a \in Nat, NEW b \in Nat, 1 .. a = 1 .. b, a < b PROVE FALSE
      <4>1. b \in 1 .. b /\ b \notin 1 .. a
        BY <3>1
      <4>2. QED
        BY <3>1, <4>1
    <3>2. QED
      BY <3>1
  <2>2. ~(Len(SeenImage) < Len(out)) /\ ~(Len(out) < Len(SeenImage))
    BY <1>2, <1>5, <2>1
  <2>3. Len(out) \in Nat /\ Len(SeenImage) \in Nat
    BY <1>2, <1>5
  <2>4. QED
    BY <2>2, <2>3
<1>7. QED
  BY <1>4, <1>6 DEF SeenImage

(* How much of the input the file covers.                                  *)
LEMMA CoveredMeans ==
  ASSUME FullInv
  PROVE  /\ Image!Covered = IF out = <<>> THEN 0
                            ELSE out[Len(out)].lo + out[Len(out)].have
         /\ Image!Covered = MinOf(Len(out) * RunUnits, Total)
<1> USE DEF FullInv, IndInv
<1>1. /\ Len(SeenImage) = Len(out) /\ Len(out) \in Nat
      /\ DOMAIN out = 1 .. Len(out)
      /\ (SeenImage = <<>>) <=> (out = <<>>)
  <2>1. \E S : out \in Seq(S)
    BY DEF TypeOK
  <2>2. (out = <<>>) <=> (Len(out) = 0)
    BY <2>1, EmptySeq
  <2>3. (SeenImage = <<>>) <=> (Len(SeenImage) = 0)
    BY ImageIsSeq, EmptySeq
  <2>4. QED
    BY <2>2, <2>3, ImageIsSeq, OutEntries
<1>2. out # <<>> => /\ Len(out) >= 1
                    /\ SeenImage[Len(out)].lo = out[Len(out)].lo
                    /\ SeenImage[Len(out)].have = out[Len(out)].have
  <2>1. out # <<>> => Len(out) \in DOMAIN out /\ Len(out) >= 1
    <3>1. \E S : out \in Seq(S)
      BY DEF TypeOK
    <3>2. out # <<>> => Len(out) \in Nat \ {0}
      BY <3>1, EmptySeq
    <3>3. QED
      BY <1>1, <3>2
  <2>2. out # <<>> => SeenImage[Len(out)] = Seen(out[Len(out)])
    BY <2>1, ImageIsSeq
  <2>3. QED
    BY <2>1, <2>2 DEF Seen
<1>3. Image!Covered = IF SeenImage = <<>> THEN 0
                      ELSE SeenImage[Len(SeenImage)].lo + SeenImage[Len(SeenImage)].have
  BY DEF Image!Covered, SeenImage, Seen
<1>4. Image!Covered = IF out = <<>> THEN 0
                      ELSE out[Len(out)].lo + out[Len(out)].have
  BY <1>1, <1>2, <1>3
<1>5. Image!Covered = MinOf(Len(out) * RunUnits, Total)
  <2>1. Total \in Nat /\ RunUnits \in Nat
    BY JobFacts, RunUnitsType DEF TypeOK
  <2>2. CASE out = <<>>
    <3>1. Len(out) * RunUnits = 0
      BY <2>1, <2>2
    <3>2. QED
      BY <1>4, <2>1, <2>2, <3>1 DEF MinOf
  <2>3. CASE out # <<>>
    <3>1. Len(out) \in DOMAIN out /\ Len(out) >= 1
      BY <1>1, <1>2, <2>3
    <3>2. /\ out[Len(out)].lo = (Len(out) - 1) * RunUnits
          /\ out[Len(out)].have = MinOf(RunUnits, Total - out[Len(out)].lo)
      BY <3>1 DEF SliceInv, Slice, OutputInOrder, ContentInv, Portion
    <3>3. (Len(out) - 1) * RunUnits + RunUnits = Len(out) * RunUnits
      BY <1>1, <3>1, NextRun
    <3>4. out[Len(out)].lo \in Nat
      BY <3>1, OutEntries
    <3>5. \A x, r, u \in Nat : x + MinOf(r, u - x) = MinOf(x + r, u)
      BY DEF MinOf
    <3>6. Image!Covered = MinOf(out[Len(out)].lo + RunUnits, Total)
      BY <1>4, <2>1, <2>3, <3>2, <3>4, <3>5
    <3>7. QED
      BY <3>2, <3>3, <3>6
  <2>4. QED
    BY <2>2, <2>3
<1>6. QED
  BY <1>4, <1>5

(* blockWrite appends the next run of the sequential writer.               *)
LEMMA WriteAppends ==
  ASSUME FullInv, NEW t \in Threads, WriteBlock(t), FullInv', job' = job,
         1 \in DOMAIN pending, pending[1] \in BlockType,
         pending[1].idx = Len(out),
         DOMAIN out' = 1 .. Len(out) + 1,
         \A i \in DOMAIN out : out'[i] = out[i],
         out'[Len(out) + 1] =
                   [idx |-> pending[1].idx, lo |-> pending[1].lo,
                    have |-> pending[1].have, keep |-> pending[1].keep,
                    off |-> OutPos, size |-> pending[1].size]
  PROVE  Image!AppendRun
<1> USE DEF FullInv, IndInv
<1> DEFINE b == pending[1]
           Run == [lo |-> Image!Covered,
                   have |-> MinOf(RunUnits, Total - Image!Covered),
                   keep |-> Image!Raw(Len(out))]
<1>1. /\ Len(out) \in Nat /\ DOMAIN out = 1 .. Len(out)
      /\ Total' = Total /\ phase' = phase /\ phase = "joining"
  BY OutEntries, VerdictKept DEF WriteBlock, At, Running
<1>2. /\ b.lo = Len(out) * RunUnits
      /\ b.have = MinOf(RunUnits, Total - b.lo) /\ b.have >= 1
      /\ b.keep <=> Image!Raw(Len(out))
      /\ b.lo \in Nat /\ b.have \in Nat /\ b.keep \in BOOLEAN
  <2>1. b.lo = Len(out) * RunUnits
    BY DEF SliceInv, Slice
  <2>2. b.have = MinOf(RunUnits, Total - b.lo) /\ b.have >= 1
        /\ (b.keep <=> Image!Raw(Len(out)))
    BY DEF ContentInv, Portion, Judged
  <2>3. b.lo \in Nat /\ b.have \in Nat /\ b.keep \in BOOLEAN
    BY DEF BlockType
  <2>4. QED
    BY <2>1, <2>2, <2>3
<1>3. Image!Covered = b.lo /\ b.lo < Total
  <2>1. Total \in Nat /\ RunUnits \in Nat
    BY JobFacts, RunUnitsType DEF TypeOK
  <2>2. b.lo < Total
    BY <1>2, <2>1 DEF MinOf
  <2>3. Image!Covered = MinOf(b.lo, Total)
    BY <1>2, CoveredMeans
  <2>4. QED
    BY <1>2, <2>1, <2>2, <2>3 DEF MinOf
<1>4. Seen(out'[Len(out) + 1]) = Run
  <2>1. Image!Raw(Len(out)) \in BOOLEAN
    BY DEF Image!Raw, Image!FirstSight, Image!Within
  <2>2. b.keep = Image!Raw(Len(out))
    BY <1>2, <2>1
  <2>3. QED
    BY <1>2, <1>3, <2>2 DEF Seen
<1>5. SeenImage' = Append(SeenImage, Run)
  <2> DEFINE Runs == {Seen(e) : e \in OutType}
             S    == Runs \cup {Run}
  <2>1. SeenImage \in Seq(Runs) /\ Len(SeenImage) = Len(out)
        /\ \A i \in DOMAIN out : SeenImage[i] = Seen(out[i])
    BY ImageIsSeq
  <2>2. /\ SeenImage' = [i \in 1 .. Len(out) + 1 |-> Seen(out'[i])]
    BY DEF SeenImage, Seen
  <2> HIDE DEF Run, Runs
  <2>3. /\ Append(SeenImage, Run) \in [1 .. Len(out) + 1 -> S]
        /\ \A i \in 1 .. Len(out) : Append(SeenImage, Run)[i] = SeenImage[i]
        /\ Append(SeenImage, Run)[Len(out) + 1] = Run
    <3>1. SeenImage \in Seq(S) /\ Run \in S
      BY <2>1
    <3>2. Append(SeenImage, Run) \in Seq(S) /\ Len(Append(SeenImage, Run)) = Len(out) + 1
      BY <2>1, <3>1
    <3>3. Append(SeenImage, Run) \in [1 .. Len(out) + 1 -> S]
      BY <3>2, LenProperties
    <3>4. DOMAIN SeenImage = 1 .. Len(out)
      BY <2>1, LenProperties
    <3>5. QED
      BY <2>1, <3>3, <3>4, AppendedTo
  <2>4. ASSUME NEW i \in 1 .. Len(out) + 1
        PROVE  SeenImage'[i] = Append(SeenImage, Run)[i]
    <3>1. CASE i \in 1 .. Len(out)
      BY <1>1, <2>1, <2>2, <2>3, <3>1
    <3>2. CASE i = Len(out) + 1
      BY <1>4, <2>2, <2>3, <3>2
    <3>3. i \in 1 .. Len(out) \/ i = Len(out) + 1
      <4>1. Len(out) \in Nat
        BY <1>1
      <4>2. QED
        BY <4>1
    <3>4. QED
      BY <3>1, <3>2, <3>3
  <2>5. SeenImage' = [i \in 1 .. Len(out) + 1 |-> SeenImage'[i]]
    BY <2>2
  <2>6. Append(SeenImage, Run) = [i \in 1 .. Len(out) + 1 |-> Append(SeenImage, Run)[i]]
    BY <2>3
  <2>7. QED
    BY <2>4, <2>5, <2>6
<1>6. SeenImage' = Append(SeenImage,
                            [lo |-> Image!Covered,
                             have |-> Image!Least(RunUnits, Total - Image!Covered),
                             keep |-> Image!Raw(Len(SeenImage))])
  BY <1>5, ImageIsSeq DEF Image!Least, MinOf
<1>7. UNCHANGED <<job, Total, phase>> /\ MinOf(job.len, Total)' = MinOf(job.len, Total)
  BY <1>1 DEF MinOf
<1>8. Image!Covered < Total
  BY <1>3
<1>9. QED
  BY <1>1, <1>6, <1>7, <1>8 DEF Image!AppendRun, SeenImage, Seen

(* The caller returns only when everything has been written.               *)
LEMMA AllHanded ==
  ASSUME FullInv, \A t \in Threads : pc[t] = "done"
  PROVE  /\ Len(out) = curRun /\ Handed = Total
         /\ Image!Covered = Total
         /\ Total <= job.len
<1> USE DEF FullInv, IndInv
<1>1. Len(out) = curRun /\ curRun \in Nat
  BY AllWritten DEF TypeOK
<1>2. PICK t \in Threads : pc[t] = "done"
  BY ThreadsAssumption
<1>3. /\ ~Refilling /\ nextIn.lo = Handed
      /\ bytesRemain = 0 \/ (untilEOF /\ job.eof /\ nextIn.size = 0)
      /\ untilEOF <=> job.bytes = READ_UNTIL_EOF
      /\ ~untilEOF => bytesRemain = Total - Handed
  BY <1>2 DEF InputInv
<1>4. /\ Total \in Nat /\ job.len \in Nat /\ job \in Jobs /\ nextIn.lo \in Nat
      /\ nextIn.size \in Nat /\ nextIn.lo + nextIn.size <= job.len
      /\ curRun * RunUnits \in Nat
  BY <1>1, JobFacts, NextRun DEF TypeOK, ReadInv
<1>5. Handed \in Nat /\ Handed <= Total
  BY <1>4 DEF Handed, MinOf
<1>6. Handed = Total
  <2>1. CASE ~untilEOF
    <3>1. bytesRemain = 0
      BY <1>3, <2>1
    <3>2. QED
      BY <1>3, <1>4, <1>5, <2>1, <3>1
  <2>2. CASE untilEOF
    <3>1. bytesRemain # 0
      BY <2>2 DEF untilEOF, READ_UNTIL_EOF
    <3>2. job.eof /\ nextIn.size = 0 /\ job.bytes = READ_UNTIL_EOF
      BY <1>3, <2>2, <3>1
    <3>3. Total = job.len
      BY <1>4, <3>2, JobFacts
    <3>4. nextIn.size = MinOf(RunUnits, job.len - nextIn.lo)
      BY <1>3, <2>2 DEF ReadInv, ReadNext, NextReadSize, untilEOF
    <3>5. job.len <= nextIn.lo
      BY <1>4, <3>2, <3>4, RunUnitsType DEF MinOf
    <3>6. QED
      BY <1>3, <1>4, <1>5, <3>3, <3>5
  <2>3. QED
    BY <2>1, <2>2
<1>7. Image!Covered = Total
  BY <1>1, <1>6, CoveredMeans DEF Handed
<1>8. Total <= job.len
  BY <1>3, <1>4, <1>6
<1>9. QED
  BY <1>1, <1>6, <1>7, <1>8

LEMMA FinishCloses ==
  ASSUME FullInv, Finish
  PROVE  Image!Close
<1>1. /\ phase = "joining" /\ phase' = "finished" /\ UNCHANGED <<job, out>>
  BY DEF Finish, Running
<1>2. Image!Covered = Total
  BY AllHanded DEF Finish
<1>3. Total' = Total /\ MinOf(job.len, Total)' = MinOf(job.len, Total)
  BY <1>1, VerdictKept DEF MinOf
<1>4. QED
  BY <1>1, <1>2, <1>3 DEF Image!Close

(* Every step of a thread is a step of the sequential writer or none.      *)
LEMMA ImageStep ==
  ASSUME FullInv, FullInv', [Next]_vars
  PROVE  [Image!ImageNext]_(Image!imageVars)
<1> DEFINE Same == UNCHANGED <<job, Total, out, phase>>
<1>1. Same => UNCHANGED Image!imageVars
  <2>1. Same => MinOf(job.len, Total)' = MinOf(job.len, Total)
    BY DEF MinOf
  <2>2. QED
    BY <2>1 DEF Image!imageVars
<1>2. CASE UNCHANGED vars
  BY <1>1, <1>2, VerdictKept DEF vars, outVars
<1>3. ASSUME Next PROVE Image!ImageNext \/ UNCHANGED Image!imageVars
  <2>1. job' = job /\ Total' = Total
    BY <1>3, JobKept, VerdictKept
  <2>2. CASE Finish
    BY <2>2, FinishCloses DEF Image!ImageNext
  <2>3. ASSUME NEW t \in Threads, ShortRead(t) \/ ExternalFailure(t)
        PROVE  Image!Fail
    <3>1. phase = "joining" /\ phase' = "exited" /\ out' = out
      BY <2>3 DEF ShortRead, ExternalFailure, At, Running, outVars
    <3>2. MinOf(job.len, Total)' = MinOf(job.len, Total)
      BY <2>1 DEF MinOf
    <3>3. QED
      BY <2>1, <3>1, <3>2 DEF Image!Fail
  <2>4. ASSUME NEW t \in Threads, Worker(t), ~ShortRead(t) PROVE phase' = phase
    BY <2>4 DEF Worker, LockIn, Leave, TakeBlock, ReadAhead, Compress,
                LockOutAndQueue, WriteBlock, Advance, UnlockOut
  <2>5. CASE Over
    BY <1>1, <2>1, <2>5 DEF Over, vars, outVars
  <2>6. \/ Image!ImageNext \/ UNCHANGED Image!imageVars
        \/ phase' = phase
    BY <1>3, <2>2, <2>3, <2>4, <2>5 DEF Next, Image!ImageNext
  <2>7. CASE phase' = phase /\ ~Finish
    <3>1. CASE out' = out
      BY <1>1, <2>1, <2>7, <3>1
    <3>2. CASE out' # out
      BY <1>3, <2>1, <2>7, <3>2, OutAfter, WriteAppends DEF FullInv, Image!ImageNext
    <3>3. QED
      BY <3>1, <3>2
  <2>8. QED
    BY <2>2, <2>6, <2>7
<1>4. QED
  BY <1>2, <1>3

LEMMA ImageStart == Init => Image!ImageInit
<1> SUFFICES ASSUME Init PROVE Image!ImageInit
  OBVIOUS
<1>1. out = <<>> /\ phase = "joining"
  BY DEF Init
<1>2. [i \in DOMAIN out |-> [lo |-> out[i].lo, have |-> out[i].have,
                             keep |-> out[i].keep]] = <<>>
  BY <1>1
<1>3. QED
  BY <1>1, <1>2 DEF Image!ImageInit

(* insertBLKX with any number of threads writes what a single thread       *)
(* would: the same runs, in the same order, with the same ones kept raw,   *)
(* and it finishes only when the whole input is covered.                   *)
THEOREM Refines == Spec => ImplementsSequentialImage
  BY ImageStart, ImageStep, FullyInductive, PTL
     DEF Spec, ImplementsSequentialImage, Image!ImageSpec

-----------------------------------------------------------------------------
(* What the call leaves when it returns.                                   *)

LEMMA RunsGrow ==
  ASSUME NEW a \in Nat, NEW b \in Nat
  PROVE  /\ a * RunUnits \in Nat
         /\ a <= b => a * RunUnits <= b * RunUnits
         /\ a * RunUnits < b * RunUnits => a < b
<1>1. \A x, y, r \in Nat : x <= y => x * r <= y * r
  OBVIOUS
<1>2. \A x, r \in Nat : x * r \in Nat
  OBVIOUS
<1>3. RunUnits \in Nat
  BY RunUnitsType
<1>4. a * RunUnits \in Nat /\ b * RunUnits \in Nat
  BY <1>2, <1>3
<1>5. a <= b => a * RunUnits <= b * RunUnits
  BY <1>1, <1>3
<1>6. b <= a => b * RunUnits <= a * RunUnits
  BY <1>1, <1>3
<1>7. QED
  BY <1>4, <1>5, <1>6

(* Run i of the finished file is the i-th slice of the whole input.        *)
LEMMA Finished ==
  ASSUME FullInv, phase = "finished"
  PROVE  /\ Len(out) = curRun /\ curRun \in Nat
         /\ Total \in Nat /\ Total <= job.len
         /\ Total <= curRun * RunUnits
         /\ curSector = SectorsOf(Total)
         /\ \A i \in 0 .. curRun - 1 :
              /\ i + 1 \in DOMAIN out
              /\ out[i + 1].lo = i * RunUnits
              /\ out[i + 1].have = MinOf(RunUnits, Total - i * RunUnits)
              /\ out[i + 1].have >= 1
              /\ out[i + 1].keep <=> Image!Raw(i)
<1> USE DEF FullInv, IndInv
<1>1. \A t \in Threads : pc[t] = "done"
  BY DEF TableInv
<1>2. Len(out) = curRun /\ Handed = Total /\ Total <= job.len /\ curRun \in Nat
  BY <1>1, AllHanded DEF TypeOK
<1>3. Total \in Nat /\ curRun * RunUnits \in Nat
  BY <1>2, JobFacts, RunsGrow DEF TypeOK
<1>4. Total <= curRun * RunUnits
  BY <1>2, <1>3 DEF Handed, MinOf
<1>5. ASSUME NEW i \in 0 .. curRun - 1
      PROVE  /\ i + 1 \in DOMAIN out
             /\ out[i + 1].lo = i * RunUnits
             /\ out[i + 1].have = MinOf(RunUnits, Total - i * RunUnits)
             /\ out[i + 1].have >= 1
             /\ out[i + 1].keep <=> Image!Raw(i)
  <2>1. i + 1 \in 1 .. Len(out) /\ (i + 1) - 1 = i
    BY <1>2
  <2>2. i + 1 \in DOMAIN out
    BY <2>1, OutEntries
  <2>3. out[i + 1].idx = i
    BY <2>1, <2>2 DEF OutputInOrder
  <2>4. out[i + 1].lo = i * RunUnits
    BY <2>2, <2>3 DEF SliceInv, Slice
  <2>5. QED
    BY <2>2, <2>3, <2>4 DEF ContentInv, Portion, Judged
<1>6. QED
  BY <1>2, <1>3, <1>4, <1>5 DEF EntryInv

(* A copy of the sentinel that a run and its successor hold lies in what   *)
(* the sequential writer keeps raw.                                        *)
LEMMA SightedIsRaw ==
  ASSUME FullInv, phase = "finished", job.attribution, NEW i \in Nat,
         Image!FirstSight(i)
  PROVE  \E m \in job.marks :
           /\ m + SentinelLen <= Total
           /\ \A u \in m .. m + SentinelLen - 1 :
                \E j \in DOMAIN out : /\ out[j].keep
                                      /\ u \in out[j].lo .. out[j].lo + out[j].have - 1
<1> USE DEF FullInv, IndInv
<1>1. /\ Total \in Nat /\ Total <= job.len /\ job.len \in Nat
      /\ curRun \in Nat /\ Total <= curRun * RunUnits /\ curRun * RunUnits \in Nat
      /\ RunUnits \in Nat /\ RunUnits >= 1 /\ SentinelLen \in Nat /\ SentinelLen >= 1
  <2>1. Total \in Nat /\ Total <= job.len /\ curRun \in Nat /\ Total <= curRun * RunUnits
    BY Finished
  <2>2. job \in Jobs
    BY DEF TypeOK
  <2>3. job.len \in Nat
    BY <2>2, JobFacts
  <2>4. curRun * RunUnits \in Nat
    BY <2>1, RunsGrow
  <2>5. RunUnits \in Nat /\ RunUnits >= 1
    BY RunUnitsType
  <2>6. SentinelLen \in Nat /\ SentinelLen >= 1
    BY UnitsAssumption
  <2>7. QED
    BY <2>1, <2>3, <2>4, <2>5, <2>6
<1>2. MinOf(job.len, Total) = Total
  BY <1>1 DEF MinOf
<1>3. /\ i * RunUnits \in Nat
      /\ (i + 1) * RunUnits = i * RunUnits + RunUnits
      /\ (i + 2) * RunUnits = i * RunUnits + 2 * RunUnits
  BY Bounds DEF TypeOK
<1>4. Marks = job.marks /\ job.marks \subseteq Nat
  BY JobsAssumption DEF Marks, TypeOK, JobType
<1> HIDE DEF FullInv, IndInv
<1>5. CASE Image!Within(i, 1)
  <2>1. PICK m \in job.marks : /\ i * RunUnits <= m
                               /\ m + SentinelLen <= MinOf((i + 1) * RunUnits, Total)
    BY <1>2, <1>4, <1>5, WithinMeans
  <2>2. m \in Nat
    BY <1>4
  <2>3. m + SentinelLen <= (i + 1) * RunUnits /\ m + SentinelLen <= Total
    BY <1>1, <1>3, <2>1, <2>2 DEF MinOf
  <2>4. i * RunUnits < curRun * RunUnits
    BY <1>1, <1>3, <2>1, <2>2, <2>3
  <2>5. i \in 0 .. curRun - 1
    BY <1>1, <2>4, RunsGrow
  <2>6. /\ i + 1 \in DOMAIN out /\ out[i + 1].lo = i * RunUnits
        /\ out[i + 1].have = MinOf(RunUnits, Total - i * RunUnits)
        /\ out[i + 1].keep
    BY <2>5, Finished DEF Image!Raw
  <2>7. ASSUME NEW u \in m .. m + SentinelLen - 1
        PROVE  u \in out[i + 1].lo .. out[i + 1].lo + out[i + 1].have - 1
    BY <1>1, <1>3, <2>1, <2>2, <2>3, <2>6 DEF MinOf
  <2>8. QED
    BY <2>3, <2>6, <2>7
<1>6. CASE ~Image!Within(i, 1)
  <2>1. PICK m \in job.marks : /\ i * RunUnits <= m
                               /\ m + SentinelLen <= MinOf((i + 2) * RunUnits, Total)
    BY <1>2, <1>4, WithinMeans DEF Image!FirstSight
  <2>2. m \in Nat
    BY <1>4
  <2>3. m + SentinelLen <= (i + 2) * RunUnits /\ m + SentinelLen <= Total
    BY <1>1, <1>3, <2>1, <2>2 DEF MinOf
  <2>4. m + SentinelLen > (i + 1) * RunUnits
    <3>1. ~(m + SentinelLen <= MinOf((i + 1) * RunUnits, Total))
      BY <1>2, <1>4, <1>6, <2>1, WithinMeans
    <3>2. QED
      BY <1>1, <1>3, <2>2, <2>3, <3>1 DEF MinOf
  <2>5. (i + 1) * RunUnits < curRun * RunUnits
    BY <1>1, <1>3, <2>2, <2>3, <2>4
  <2>6. i + 1 < curRun
    BY <1>1, <2>5, RunsGrow
  <2>7. i \in 0 .. curRun - 1 /\ i + 1 \in 0 .. curRun - 1 /\ (i + 1) - 1 = i
        /\ (i + 1) + 1 = i + 2
    BY <1>1, <2>6
  <2>8. Image!Raw(i) /\ Image!Raw(i + 1)
    BY <1>6, <2>7 DEF Image!Raw
  <2>9. /\ i + 1 \in DOMAIN out /\ out[i + 1].lo = i * RunUnits
        /\ out[i + 1].have = MinOf(RunUnits, Total - i * RunUnits)
        /\ out[i + 1].keep
    BY <2>7, <2>8, Finished
  <2>10. /\ i + 2 \in DOMAIN out /\ out[i + 2].lo = (i + 1) * RunUnits
         /\ out[i + 2].have = MinOf(RunUnits, Total - (i + 1) * RunUnits)
         /\ out[i + 2].keep
    BY <2>7, <2>8, Finished
  <2>11. ASSUME NEW u \in m .. m + SentinelLen - 1
         PROVE  \/ u \in out[i + 1].lo .. out[i + 1].lo + out[i + 1].have - 1
                \/ u \in out[i + 2].lo .. out[i + 2].lo + out[i + 2].have - 1
    <3>1. u \in Nat /\ u >= i * RunUnits /\ u < Total /\ u < (i + 2) * RunUnits
      BY <1>1, <1>3, <2>1, <2>2, <2>3
    <3>2. CASE u < (i + 1) * RunUnits
      BY <1>1, <1>3, <2>9, <3>1, <3>2 DEF MinOf
    <3>3. CASE u >= (i + 1) * RunUnits
      BY <1>1, <1>3, <2>10, <3>1, <3>3 DEF MinOf
    <3>4. QED
      BY <1>3, <1>1, <3>1, <3>2, <3>3
  <2>12. QED
    BY <2>3, <2>9, <2>10, <2>11
<1>7. QED
  BY <1>5, <1>6

(* If the input holds the sentinel, some run is the first to sight it.     *)
LEMMA SomeSight ==
  ASSUME FullInv, phase = "finished", job.attribution,
         NEW m \in job.marks, m + SentinelLen <= Total
  PROVE  \E i \in Nat : Image!FirstSight(i)
<1>1. /\ Total \in Nat /\ Total <= job.len /\ job.len \in Nat
      /\ RunUnits \in Nat \ {0} /\ SentinelLen \in Nat /\ SentinelLen <= RunUnits
  <2>1. Total \in Nat /\ Total <= job.len
    BY Finished
  <2>2. job \in Jobs
    BY DEF FullInv, IndInv, TypeOK
  <2>3. job.len \in Nat
    BY <2>2, JobFacts
  <2>4. RunUnits \in Nat \ {0} /\ SentinelLen \in Nat
    BY RunUnitsType, UnitsAssumption
  <2>5. SentinelLen <= RunUnits
    BY SentinelAssumption DEF RunUnits
  <2>6. QED
    BY <2>1, <2>3, <2>4, <2>5
<1>2. MinOf(job.len, Total) = Total
  BY <1>1 DEF MinOf
<1>3. Marks = job.marks /\ m \in Nat
  BY JobsAssumption DEF Marks, FullInv, IndInv, TypeOK, JobType
<1> DEFINE q == m \div RunUnits
<1>4. /\ q \in Nat /\ m % RunUnits \in Nat /\ m % RunUnits < RunUnits
      /\ m = q * RunUnits + (m % RunUnits)
  BY <1>1, <1>3, Quotient
<1> HIDE DEF q
<1>5. Image!Within(q, 2)
  <2>1. q * RunUnits \in Nat /\ (q + 2) * RunUnits = q * RunUnits + 2 * RunUnits
    BY <1>4, Bounds DEF FullInv, IndInv, TypeOK
  <2>2. q * RunUnits <= m
    BY <1>1, <1>3, <1>4, <2>1
  <2>3. m + SentinelLen <= (q + 2) * RunUnits
    BY <1>1, <1>3, <1>4, <2>1
  <2>4. m + SentinelLen <= MinOf((q + 2) * RunUnits, MinOf(job.len, Total))
    BY <1>2, <2>3 DEF MinOf
  <2>5. QED
    BY <1>3, <1>4, <2>2, <2>4, WithinMeans
<1> DEFINE T == {i \in Nat : Image!Within(i, 2)}
<1>6. PICK i \in T : \A j \in T : i <= j
  <2>1. T \subseteq Nat /\ T # {}
    BY <1>4, <1>5
  <2>2. QED
    BY <2>1, LeastNat
<1>7. \A j \in 0 .. i - 1 : ~Image!Within(j, 2)
  BY <1>6
<1>8. QED
  BY <1>6, <1>7 DEF Image!FirstSight

(* The sentinel survives the conversion uncompressed: what attribution.c   *)
(* searches for lies whole in the raw part of the file, also where it      *)
(* straddles two runs.                                                     *)
THEOREM SentinelKept == Spec => []SentinelStaysRaw
<1>1. ASSUME FullInv PROVE SentinelStaysRaw
  <2>1. SUFFICES ASSUME phase = "finished", job.attribution,
                        NEW w \in {m \in job.marks : m + SentinelLen <= Total}
                 PROVE  \E m \in {m \in job.marks : m + SentinelLen <= Total} :
                          m .. m + SentinelLen - 1 \subseteq
                            UNION {out[i].lo .. out[i].lo + out[i].have - 1 :
                                     i \in {j \in DOMAIN out : out[j].keep}}
    BY DEF SentinelStaysRaw
  <2>2. PICK i \in Nat : Image!FirstSight(i)
    BY <1>1, <2>1, SomeSight
  <2>3. QED
    BY <1>1, <2>1, <2>2, SightedIsRaw
<1>2. QED
  BY <1>1, FullyInductive, PTL

(* A number of units lies in its last sector.                              *)
LEMMA SectorsBound ==
  ASSUME NEW u \in Nat
  PROVE  /\ SectorsOf(u) \in Nat /\ SectorsOf(u) * SectorUnits \in Nat
         /\ u <= SectorsOf(u) * SectorUnits
         /\ (SectorsOf(u) - 1) * SectorUnits + 1 <= u
<1> DEFINE q == u \div SectorUnits
           r == u % SectorUnits
<1>1. /\ SectorUnits \in Nat \ {0} /\ q \in Nat /\ r \in Nat /\ r < SectorUnits
      /\ u = q * SectorUnits + r
  BY UnitsAssumption, Quotient
<1>2. SectorsOf(u) = q + (IF r # 0 THEN 1 ELSE 0)
  BY DEF SectorsOf
<1> HIDE DEF q, r
<1>3. \A x, s \in Nat : /\ x * s \in Nat /\ (x + 1) * s = x * s + s
                        /\ (x - 1) * s = x * s - s
  OBVIOUS
<1>4. /\ q * SectorUnits \in Nat /\ (q + 1) * SectorUnits = q * SectorUnits + SectorUnits
      /\ (q - 1) * SectorUnits = q * SectorUnits - SectorUnits
  BY <1>1, <1>3
<1>5. CASE r = 0
  BY <1>1, <1>2, <1>4, <1>5
<1>6. CASE r # 0
  <2>1. SectorsOf(u) = q + 1 /\ (q + 1) - 1 = q
    BY <1>1, <1>2, <1>6
  <2>2. QED
    BY <1>1, <1>4, <1>6, <2>1
<1>7. QED
  BY <1>5, <1>6

(* A whole run is RunSectors sectors, a shorter one no more.               *)
LEMMA SectorsOfRun ==
  ASSUME NEW u \in Nat
  PROVE  /\ SectorsOf(RunUnits) = RunSectors
         /\ u <= RunUnits => SectorsOf(u) * SectorUnits <= RunUnits
         /\ \A a \in Nat : a * RunSectors * SectorUnits = a * RunUnits
<1>1. /\ SectorUnits \in Nat \ {0} /\ RunSectors \in Nat /\ RunUnits \in Nat
      /\ RunUnits = RunSectors * SectorUnits
  BY UnitsAssumption, RunUnitsType DEF RunUnits
<1>2. SectorsOf(RunUnits) = RunSectors
  <2>1. SectorsOf(RunSectors * SectorUnits + 0) = RunSectors + SectorsOf(0)
    BY <1>1, SectorsAdd
  <2>2. SectorsOf(0) = 0
    BY SectorsPositive
  <2>3. QED
    BY <1>1, <2>1, <2>2
<1>3. ASSUME u <= RunUnits PROVE SectorsOf(u) * SectorUnits <= RunUnits
  <2>1. /\ SectorsOf(u) \in Nat
        /\ (SectorsOf(u) - 1) * SectorUnits + 1 <= RunSectors * SectorUnits
    BY <1>1, <1>3, SectorsBound
  <2>2. \A x, y, s \in Nat : (x - 1) * s + 1 <= y * s => x <= y
    <3>1. \A a, b, c \in Nat : a * c \in Nat /\ (a <= b => a * c <= b * c)
      OBVIOUS
    <3>2. ASSUME NEW x \in Nat, NEW y \in Nat, NEW s \in Nat, x > y
          PROVE  ~((x - 1) * s + 1 <= y * s)
      <4>1. x - 1 \in Nat /\ y <= x - 1
        BY <3>2
      <4>2. y * s <= (x - 1) * s /\ y * s \in Nat /\ (x - 1) * s \in Nat
        BY <3>1, <4>1
      <4>3. QED
        BY <4>2
    <3>3. QED
      BY <3>2
  <2>3. SectorsOf(u) <= RunSectors
    BY <1>1, <2>1, <2>2
  <2>4. \A a, b, c \in Nat : a <= b => a * c <= b * c
    OBVIOUS
  <2>5. QED
    BY <1>1, <2>1, <2>3, <2>4
<1>4. \A a, b, c \in Nat : a * b * c = a * (b * c)
  OBVIOUS
<1>5. QED
  BY <1>1, <1>2, <1>3, <1>4

(* What is left of an input of t units from a on, at most r of them.       *)
LEMMA Remainder ==
  ASSUME NEW j \in Nat, NEW t \in Nat, NEW h \in Nat,
         h = MinOf(RunUnits, t - j * RunUnits)
  PROVE  /\ h <= RunUnits /\ j * RunUnits + h <= t
         /\ (j + 1) * RunUnits <= t => h = RunUnits
         /\ t <= (j + 1) * RunUnits => j * RunUnits + h = t
<1>1. PICK a \in Nat : a = j * RunUnits /\ (j + 1) * RunUnits = a + RunUnits
  BY NextRun
<1>2. RunUnits \in Nat
  BY RunUnitsType
<1>3. h = MinOf(RunUnits, t - a)
  BY <1>1
<1>4. /\ h <= RunUnits /\ a + h <= t
      /\ a + RunUnits <= t => h = RunUnits
      /\ t <= a + RunUnits => a + h = t
  BY <1>2, <1>3 DEF MinOf
<1>5. QED
  BY <1>1, <1>4

(* The run table entry of run i covers the units of run i, down to the     *)
(* last sector.                                                            *)
LEMMA EntryCovers ==
  ASSUME FullInv, phase = "finished", NEW i \in 0 .. curRun,
         NEW u \in 0 .. curSector * SectorUnits - 1
  PROVE  /\ curSector * SectorUnits <= curRun * RunUnits
         /\ \/ /\ runs[i].start * SectorUnits <= u
               /\ u < (runs[i].start + runs[i].count) * SectorUnits
            <=> /\ i < curRun
                /\ i * RunUnits <= u /\ u < (i + 1) * RunUnits
<1> DEFINE Within == /\ runs[i].start * SectorUnits <= u
                     /\ u < (runs[i].start + runs[i].count) * SectorUnits
           Here   == /\ i < curRun
                     /\ i * RunUnits <= u /\ u < (i + 1) * RunUnits
<1>1. /\ Len(out) = curRun /\ curRun \in Nat /\ Total \in Nat
      /\ Total <= curRun * RunUnits /\ curRun * RunUnits \in Nat
      /\ curSector = SectorsOf(Total) /\ curSector \in Nat
      /\ SectorUnits \in Nat /\ RunUnits \in Nat /\ RunSectors \in Nat
      /\ curSector * SectorUnits \in Nat
  <2>1. /\ Len(out) = curRun /\ curRun \in Nat /\ Total \in Nat
        /\ Total <= curRun * RunUnits /\ curSector = SectorsOf(Total)
    BY Finished
  <2>2. SectorUnits \in Nat /\ RunUnits \in Nat /\ RunSectors \in Nat
    BY RunUnitsType, UnitsAssumption
  <2>3. curRun * RunUnits \in Nat
    BY <2>1, RunsGrow
  <2>4. curSector \in Nat /\ curSector * SectorUnits \in Nat
    BY <2>1, SectorsBound
  <2>5. QED
    BY <2>1, <2>2, <2>3, <2>4
<1>2. i \in Nat /\ i <= curRun /\ i * RunUnits \in Nat
      /\ (i + 1) * RunUnits = i * RunUnits + RunUnits
      /\ u \in Nat /\ u < curSector * SectorUnits
  <2>1. i \in Nat /\ i <= curRun
    BY <1>1
  <2>2. PICK n \in Nat : n = curSector * SectorUnits
    BY <1>1
  <2>3. u \in Nat /\ u < n
    BY <2>2
  <2>4. job \in Jobs
    BY DEF FullInv, IndInv, TypeOK
  <2>5. i * RunUnits \in Nat /\ (i + 1) * RunUnits = i * RunUnits + RunUnits
    BY <2>1, <2>4, Bounds
  <2>6. QED
    BY <2>1, <2>2, <2>3, <2>5
<1>3. ASSUME NEW j \in Nat, j < curRun
      PROVE  /\ j + 1 \in DOMAIN out /\ out[j + 1].have \in Nat
             /\ out[j + 1].have = MinOf(RunUnits, Total - j * RunUnits)
             /\ out[j + 1].have = RunUnits \/ j = curRun - 1
             /\ j * RunUnits + out[j + 1].have <= Total
             /\ j = curRun - 1 => j * RunUnits + out[j + 1].have = Total
             /\ runs[j].start = j * RunSectors
             /\ runs[j].count = SectorsOf(out[j + 1].have)
  <2>1. j \in 0 .. curRun - 1 /\ (j + 1) - 1 = j
    BY <1>1, <1>3
  <2>2. j + 1 \in DOMAIN out /\ out[j + 1].have >= 1
        /\ out[j + 1].have = MinOf(RunUnits, Total - j * RunUnits)
    BY <2>1, Finished
  <2>3. out[j + 1].have \in Nat
    BY <2>2, OutEntries DEF FullInv, IndInv
  <2>4. /\ runs[j].start = j * RunSectors
        /\ runs[j].count = SectorsOf(out[j + 1].have)
    BY <2>1, <2>2 DEF FullInv, EntryInv
  <2>5. j * RunUnits \in Nat /\ (j + 1) * RunUnits = j * RunUnits + RunUnits
    BY Bounds DEF FullInv, IndInv, TypeOK
  <2>6. /\ out[j + 1].have <= RunUnits /\ j * RunUnits + out[j + 1].have <= Total
        /\ (j + 1) * RunUnits <= Total => out[j + 1].have = RunUnits
        /\ Total <= (j + 1) * RunUnits => j * RunUnits + out[j + 1].have = Total
    <3>1. PICK h \in Nat, t \in Nat : h = out[j + 1].have /\ t = Total
      BY <1>1, <2>3
    <3>2. h = MinOf(RunUnits, t - j * RunUnits)
      BY <2>2, <3>1
    <3>3. /\ h <= RunUnits /\ j * RunUnits + h <= t
          /\ (j + 1) * RunUnits <= t => h = RunUnits
          /\ t <= (j + 1) * RunUnits => j * RunUnits + h = t
      BY <3>2, Remainder
    <3>4. QED
      BY <3>1, <3>3
  <2>7. CASE j = curRun - 1
    <3>1. (j + 1) * RunUnits = curRun * RunUnits
      BY <1>1, <2>7
    <3>2. j * RunUnits + out[j + 1].have = Total
      BY <1>1, <2>6, <3>1
    <3>3. QED
      BY <2>2, <2>3, <2>4, <2>6, <2>7, <3>2
  <2>8. CASE j # curRun - 1
    <3>1. j + 1 \in 0 .. curRun - 1 /\ (j + 1) + 1 = j + 2
      BY <1>1, <1>3, <2>8
    <3>2. out[j + 2].have = MinOf(RunUnits, Total - (j + 1) * RunUnits)
          /\ out[j + 2].have >= 1
      BY <3>1, Finished
    <3>3. (j + 1) * RunUnits <= Total
      <4>1. out[j + 2].have \in Nat
        BY <3>1, Finished, OutEntries DEF FullInv, IndInv
      <4>2. PICK k \in Nat : k = j + 1
        OBVIOUS
      <4>3. PICK h \in Nat, t \in Nat : h = out[j + 2].have /\ t = Total
        BY <1>1, <4>1
      <4>4. h = MinOf(RunUnits, t - k * RunUnits)
        BY <3>2, <4>2, <4>3
      <4>5. k * RunUnits + h <= t /\ k * RunUnits \in Nat
        BY <4>4, Remainder, RunsGrow
      <4>6. k * RunUnits <= t
        BY <4>5
      <4>7. QED
        BY <4>2, <4>3, <4>6
    <3>4. out[j + 1].have = RunUnits
      BY <2>6, <3>3
    <3>5. QED
      BY <2>2, <2>3, <2>4, <2>6, <2>8, <3>4
  <2>9. QED
    BY <2>7, <2>8
<1>4. curSector * SectorUnits <= curRun * RunUnits
  <2>1. CASE curRun = 0
    <3>1. curRun * RunUnits = 0
      BY <1>1, <2>1
    <3>2. Total = 0
      BY <1>1, <3>1
    <3>3. curSector = 0
      BY <1>1, <3>2, SectorsPositive
    <3>4. QED
      BY <1>1, <3>1, <3>3
  <2>2. CASE curRun # 0
    <3> DEFINE k == curRun - 1
    <3>1. k \in Nat /\ k < curRun /\ k + 1 = curRun
      BY <1>1, <2>2
    <3> HIDE DEF k
    <3>2. PICK h \in Nat : Total = k * RunUnits + h /\ h <= RunUnits
      <4>1. out[k + 1].have \in Nat
            /\ k * RunUnits + out[k + 1].have = Total
        BY <1>3, <3>1 DEF k
      <4>2. out[k + 1].have <= RunUnits
        <5>1. out[k + 1].have = MinOf(RunUnits, Total - k * RunUnits)
          BY <1>3, <3>1
        <5>2. PICK h \in Nat, t \in Nat : h = out[k + 1].have /\ t = Total
          BY <1>1, <4>1
        <5>3. h = MinOf(RunUnits, t - k * RunUnits)
          BY <5>1, <5>2
        <5>4. h <= RunUnits
          BY <3>1, <5>3, Remainder
        <5>5. QED
          BY <5>2, <5>4
      <4>3. QED
        BY <4>1, <4>2
    <3>3. k * RunUnits \in Nat
          /\ curRun * RunUnits = k * RunUnits + RunUnits
      BY <1>1, <3>1, <3>2, Bounds DEF FullInv, IndInv, TypeOK
    <3>4. curSector = k * RunSectors + SectorsOf(h) /\ SectorsOf(h) \in Nat
      BY <1>1, <3>1, <3>2, SectorsOfRuns, SectorsBound
    <3>5. SectorsOf(h) * SectorUnits <= RunUnits /\ SectorsOf(h) * SectorUnits \in Nat
      BY <3>2, SectorsOfRun, SectorsBound
    <3>6. curSector * SectorUnits = k * RunUnits + SectorsOf(h) * SectorUnits
      <4>1. \A a, b, c \in Nat : (a + b) * c = a * c + b * c
        OBVIOUS
      <4>2. k * RunSectors \in Nat /\ k * RunSectors * SectorUnits = k * RunUnits
        <5>1. \A a \in Nat : a * RunSectors * SectorUnits = a * RunUnits
          BY <3>2, SectorsOfRun
        <5>2. \A a, b \in Nat : a * b \in Nat
          OBVIOUS
        <5>3. k \in Nat /\ RunSectors \in Nat
          BY <1>1, <3>1
        <5>4. QED
          BY <5>1, <5>2, <5>3
      <4>3. QED
        BY <1>1, <3>4, <4>1, <4>2
    <3>7. QED
      BY <1>1, <3>3, <3>5, <3>6
  <2>3. QED
    BY <2>1, <2>2
<1>5. CASE i = curRun
  <2>1. runs[i].start = curSector /\ runs[i].count = 0
    BY <1>5 DEF FullInv, EntryInv
  <2>2. QED
    BY <1>1, <1>2, <1>4, <1>5, <2>1
<1>6. CASE i < curRun
  <2>1. PICK h \in Nat : h = out[i + 1].have
    BY <1>2, <1>3, <1>6
  <2>2. /\ runs[i].start = i * RunSectors /\ runs[i].count = SectorsOf(h)
        /\ h = RunUnits \/ i = curRun - 1
        /\ i = curRun - 1 => i * RunUnits + h = Total
    BY <1>2, <1>3, <1>6, <2>1
  <2>3. runs[i].start * SectorUnits = i * RunUnits
    BY <1>2, <2>2, SectorsOfRun
  <2>4. runs[i].start + runs[i].count = SectorsOf(i * RunUnits + h)
    BY <1>2, <2>2, SectorsOfRuns
  <2>5. CASE i = curRun - 1
    <3>1. i + 1 = curRun /\ (i + 1) * RunUnits = curRun * RunUnits
      BY <1>1, <1>2, <2>5
    <3>2. (runs[i].start + runs[i].count) * SectorUnits = curSector * SectorUnits
      BY <1>1, <2>2, <2>4, <2>5
    <3>3. u < (i + 1) * RunUnits
      <4>1. PICK a \in Nat, b \in Nat : a = curSector * SectorUnits /\ b = curRun * RunUnits
        BY <1>1
      <4>2. u < a /\ a <= b /\ u \in Nat
        BY <1>2, <1>4, <4>1
      <4>3. u < b
        BY <4>2
      <4>4. QED
        BY <3>1, <4>1, <4>3
    <3>4. u < (runs[i].start + runs[i].count) * SectorUnits
      BY <1>2, <3>2
    <3>5. QED
      BY <1>4, <1>6, <2>3, <3>3, <3>4
  <2>6. CASE i # curRun - 1
    <3>1. runs[i].start + runs[i].count = (i + 1) * RunSectors
      <4>1. runs[i].count = RunSectors
        BY <2>2, <2>6, SectorsOfRun
      <4>2. \A a, b \in Nat : a * b + b = (a + 1) * b
        OBVIOUS
      <4>3. QED
        BY <1>1, <1>2, <2>2, <4>1, <4>2
    <3>2. (runs[i].start + runs[i].count) * SectorUnits = (i + 1) * RunUnits
      BY <1>2, <3>1, SectorsOfRun
    <3>3. QED
      BY <1>2, <1>4, <1>6, <2>3, <3>2
  <2>7. QED
    BY <2>5, <2>6
<1>7. QED
  BY <1>1, <1>2, <1>5, <1>6

(* The entry of run i leads to the bytes of run i.                         *)
LEMMA EntryLeads ==
  ASSUME FullInv, phase = "finished", NEW i \in 0 .. curRun - 1
  PROVE  out[i + 1] = CHOOSE c \in {out[k] : k \in DOMAIN out} :
                               c.off = runs[i].off /\ c.size = runs[i].size
<1>1. i + 1 \in DOMAIN out /\ (i + 1) - 1 = i
  BY Finished
<1>2. out[i + 1].off = runs[i].off /\ out[i + 1].size = runs[i].size
  BY <1>1 DEF FullInv, EntryInv
<1>3. ASSUME NEW k \in DOMAIN out, k # i + 1 PROVE out[k].off # out[i + 1].off
  <2>1. /\ k \in Nat /\ i + 1 \in Nat
        /\ out[k].off \in Nat /\ out[i + 1].off \in Nat
        /\ out[k].size \in Nat /\ out[i + 1].size \in Nat
        /\ out[k].size >= 1 /\ out[i + 1].size >= 1
    BY <1>1, OutEntries DEF FullInv, IndInv, ContentInv
  <2>2. CASE k < i + 1
    <3>1. out[k].off + out[k].size <= out[i + 1].off
      BY <1>1, <2>2 DEF FullInv, EntryInv
    <3>2. QED
      BY <2>1, <3>1
  <2>3. CASE i + 1 < k
    <3>1. out[i + 1].off + out[i + 1].size <= out[k].off
      BY <1>1, <2>3 DEF FullInv, EntryInv
    <3>2. QED
      BY <2>1, <3>1
  <2>4. QED
    BY <1>3, <2>1, <2>2, <2>3
<1>4. QED
  BY <1>1, <1>2, <1>3

(* Extracting any unit of the finished table finds it where it was.        *)
LEMMA Extracted ==
  ASSUME FullInv, phase = "finished", NEW u \in 0 .. curSector * SectorUnits - 1
  PROVE  ExtractedAt(u) = {IF u < Total THEN u ELSE -1}
<1> DEFINE Covering == {j \in DOMAIN runs :
                          /\ runs[j].start * SectorUnits <= u
                          /\ u < (runs[j].start + runs[j].count) * SectorUnits}
<1>1. /\ curRun \in Nat /\ Total \in Nat /\ curRun * RunUnits \in Nat
      /\ RunUnits \in Nat \ {0} /\ curSector * SectorUnits \in Nat
      /\ DOMAIN runs = 0 .. curRun
  <2>1. /\ curRun \in Nat /\ Total \in Nat /\ curSector = SectorsOf(Total)
        /\ RunUnits \in Nat \ {0} /\ DOMAIN runs = 0 .. curRun
    BY Finished, RunUnitsType DEF FullInv, IndInv, TableInv
  <2>2. curRun * RunUnits \in Nat
    BY <2>1, RunsGrow
  <2>3. curSector * SectorUnits \in Nat
    BY <2>1, SectorsBound
  <2>4. QED
    BY <2>1, <2>2, <2>3
<1>2. u \in Nat /\ u < curSector * SectorUnits
  BY <1>1
<1> DEFINE q == u \div RunUnits
<1>3. PICK i \in Nat : i = q
  BY <1>1, <1>2, Quotient
<1>4. i * RunUnits <= u /\ u < (i + 1) * RunUnits /\ i * RunUnits \in Nat
      /\ (i + 1) * RunUnits = i * RunUnits + RunUnits
  <2>1. i * RunUnits \in Nat /\ (i + 1) * RunUnits = i * RunUnits + RunUnits
    BY Bounds DEF FullInv, IndInv, TypeOK
  <2>2. PICK r \in Nat : r < RunUnits /\ u = i * RunUnits + r
    BY <1>1, <1>2, <1>3, Quotient
  <2>3. QED
    BY <1>1, <2>1, <2>2
<1> HIDE DEF q
<1>5. i \in 0 .. curRun - 1 /\ i \in 0 .. curRun
  <2>1. curSector * SectorUnits <= curRun * RunUnits
    <3>1. curRun \in 0 .. curRun
      BY <1>1
    <3>2. QED
      BY <3>1, EntryCovers
  <2>2. i * RunUnits < curRun * RunUnits
    BY <1>1, <1>2, <1>4, <2>1
  <2>3. i < curRun
    BY <1>1, <2>2, RunsGrow
  <2>4. QED
    BY <1>1, <2>3
<1>6. Covering = {i}
  <2>1. i \in Covering
    <3>1. i < curRun
      BY <1>1, <1>5
    <3>2. /\ runs[i].start * SectorUnits <= u
          /\ u < (runs[i].start + runs[i].count) * SectorUnits
      BY <1>4, <1>5, <3>1, EntryCovers
    <3>3. QED
      BY <1>1, <1>5, <3>2
  <2>2. ASSUME NEW j \in Covering PROVE j = i
    <3>1. j \in 0 .. curRun /\ j \in Nat
      BY <1>1
    <3>2. j * RunUnits <= u /\ u < (j + 1) * RunUnits
      BY <3>1, EntryCovers
    <3>3. j * RunUnits \in Nat /\ (j + 1) * RunUnits \in Nat
      BY <3>1, RunsGrow
    <3>4. j * RunUnits < (i + 1) * RunUnits /\ i * RunUnits < (j + 1) * RunUnits
      BY <1>1, <1>2, <1>4, <3>2, <3>3
    <3>5. j < i + 1 /\ i < j + 1
      BY <3>1, <3>4, RunsGrow
    <3>6. QED
      BY <3>1, <3>5
  <2>3. QED
    BY <2>1, <2>2
<1>7. ExtractedAt(u) =
        {LET c == out[i + 1]
             d == u - runs[i].start * SectorUnits
         IN  IF d < c.have THEN c.lo + d ELSE -1}
  <2> DEFINE C(j)    == CHOOSE c \in {out[k] : k \in DOMAIN out} :
                           c.off = runs[j].off /\ c.size = runs[j].size
             G(c, j) == LET d == u - runs[j].start * SectorUnits
                        IN  IF d < c.have THEN c.lo + d ELSE -1
  <2>1. ExtractedAt(u) = {G(C(j), j) : j \in Covering}
    BY DEF ExtractedAt
  <2>2. C(i) = out[i + 1]
    BY <1>5, EntryLeads
  <2>3. G(out[i + 1], i) = LET c == out[i + 1]
                               d == u - runs[i].start * SectorUnits
                           IN  IF d < c.have THEN c.lo + d ELSE -1
    OBVIOUS
  <2> HIDE DEF Covering, C, G
  <2>4. {G(C(j), j) : j \in Covering} = {G(out[i + 1], i)}
    BY <1>6, <2>2
  <2>5. QED
    BY <2>1, <2>3, <2>4
<1>8. /\ out[i + 1].lo = i * RunUnits
      /\ out[i + 1].have = MinOf(RunUnits, Total - i * RunUnits)
      /\ runs[i].start * SectorUnits = i * RunUnits
  <2>1. runs[i].start = i * RunSectors
    <3>1. i + 1 \in DOMAIN out /\ (i + 1) - 1 = i
      BY <1>5, Finished
    <3>2. QED
      BY <3>1 DEF FullInv, EntryInv
  <2>2. QED
    BY <1>5, <2>1, Finished, SectorsOfRun
<1>9. (IF u - i * RunUnits < MinOf(RunUnits, Total - i * RunUnits)
       THEN i * RunUnits + (u - i * RunUnits) ELSE -1)
      = (IF u < Total THEN u ELSE -1)
  BY <1>1, <1>2, <1>4 DEF MinOf
<1>10. QED
  BY <1>7, <1>8, <1>9

(* extractBLKX undoes insertBLKX: the run table of a finished call covers  *)
(* every unit of the input exactly once and leads to its bytes, and what   *)
(* it covers beyond the input is the padding of the last sector.           *)
THEOREM RoundTripHolds == Spec => []RoundTrip
<1>1. ASSUME FullInv PROVE RoundTrip
  <2>1. SUFFICES ASSUME phase = "finished"
                 PROVE  /\ Total \in (curSector - 1) * SectorUnits + 1 ..
                                       curSector * SectorUnits
                        /\ runs[curRun].start = curSector
                        /\ DOMAIN runs = 0 .. curRun
                        /\ \A u \in 0 .. curSector * SectorUnits - 1 :
                             ExtractedAt(u) = {IF u < Total THEN u ELSE -1}
    BY DEF RoundTrip
  <2>2. Total \in (curSector - 1) * SectorUnits + 1 .. curSector * SectorUnits
    <3>1. /\ Total \in Nat /\ curSector = SectorsOf(Total)
          /\ Total <= curSector * SectorUnits
          /\ (curSector - 1) * SectorUnits + 1 <= Total
          /\ curSector \in Nat /\ SectorUnits \in Nat
      BY <1>1, <2>1, Finished, SectorsBound, UnitsAssumption
    <3>2. (curSector - 1) * SectorUnits + 1 \in Int /\ curSector * SectorUnits \in Int
      BY <3>1
    <3>3. QED
      BY <3>1, <3>2
  <2>3. runs[curRun].start = curSector /\ DOMAIN runs = 0 .. curRun
    BY <1>1, <2>1 DEF FullInv, EntryInv, IndInv, TableInv
  <2>4. QED
    BY <1>1, <2>1, <2>2, <2>3, Extracted
<1>2. QED
  BY <1>1, FullyInductive, PTL
=============================================================================
