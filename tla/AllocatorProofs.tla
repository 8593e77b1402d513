-------------------------- MODULE AllocatorProofs --------------------------
(* Proofs about the block allocator, for volumes all of whose blocks can   *)
(* be sought (Narrow) and none of whose files has ever needed an overflow  *)
(* record (FewExtents).                                                    *)
EXTENDS Allocator, FiniteSetTheorems, TLAPS

-----------------------------------------------------------------------------
(* Numbers.                                                                *)

(* A number is its quotient times the divisor, plus a smaller remainder.   *)
LEMMA Quotient ==
  ASSUME NEW s \in Nat \ {0}, NEW u \in Nat
  PROVE  /\ u \div s \in Nat
         /\ u % s \in Nat /\ u % s < s
         /\ u = (u \div s) * s + (u % s)
<1>1. u \div s \in Nat /\ u % s \in Nat /\ u % s < s
  OBVIOUS
<1>2. \A q, r \in Nat : q = u \div s /\ r = u % s => u = q * s + r
  OBVIOUS
<1>3. QED
  BY <1>1, <1>2

(* And there is only one such pair.                                        *)
LEMMA QuotientUnique ==
  ASSUME NEW s \in Nat \ {0}, NEW q \in Nat, NEW r \in Nat, r < s
  PROVE  (q * s + r) \div s = q /\ (q * s + r) % s = r
  OBVIOUS

-----------------------------------------------------------------------------
(* The fork of a file and its overflow records.                            *)

(* Without overflow records, the fork's own extents are all that           *)
(* readExtents finds, and they are enough if they are all there are.       *)
LEMMA FollowFew ==
  ASSUME FewExtents, NEW f \in Files, NEW fk \in ForkType
  PROVE  /\ Follow(f, fk).ok <=> Len(fk.ext) >= fk.total
         /\ Follow(f, fk).blocks = fk.ext
         /\ Follow(f, fk).keys = {}
<1> DEFINE Body(more, got) ==
             IF Len(got) >= fk.total THEN [ok |-> TRUE, blocks |-> got, keys |-> {}]
             ELSE LET key == <<f, Len(got)>>
                  IN  IF key \notin DOMAIN overflow
                      THEN [ok |-> FALSE, blocks |-> got, keys |-> {}]
                      ELSE LET rest == more[got \o overflow[key]]
                           IN  [rest EXCEPT !.keys = @ \cup {key}]
           Sol(more) == more = [got \in Seq(Nat) |-> Body(more, got)]
           Few(got)  == IF Len(got) >= fk.total
                        THEN [ok |-> TRUE, blocks |-> got, keys |-> {}]
                        ELSE [ok |-> FALSE, blocks |-> got, keys |-> {}]
<1>1. \A more, got : Body(more, got) = Few(got)
  BY DEF FewExtents
<1>2. Follow(f, fk) = (CHOOSE more : Sol(more))[fk.ext]
  BY DEF Follow
<1> HIDE DEF Body
<1>3. Sol([got \in Seq(Nat) |-> Few(got)])
  BY <1>1
<1>4. Sol(CHOOSE more : Sol(more))
  BY <1>3
<1>5. fk.ext \in Seq(Nat)
  BY DEF ForkType
<1>6. Follow(f, fk) = Few(fk.ext)
  BY <1>1, <1>2, <1>4, <1>5
<1>7. QED
  BY <1>6

(* The breaks before a position are numbers, finitely many, and at least   *)
(* one; further on there are no fewer.                                     *)
LEMMA BreaksGrow ==
  ASSUME NEW bs, NEW i \in Nat \ {0}, NEW k \in Nat, i <= k
  PROVE  /\ IsFiniteSet(Breaks(bs, k)) /\ Cardinality(Breaks(bs, k)) \in Nat \ {0}
         /\ Cardinality(Breaks(bs, i)) <= Cardinality(Breaks(bs, k))
<1>1. IsFiniteSet(1 .. k)
  BY FS_Interval
<1>2. IsFiniteSet(Breaks(bs, k))
  BY <1>1, FS_Subset DEF Breaks
<1>3. Breaks(bs, i) \subseteq Breaks(bs, k)
  BY DEF Breaks
<1>4. 1 \in Breaks(bs, k)
  BY DEF Breaks
<1>5. Cardinality(Breaks(bs, i)) <= Cardinality(Breaks(bs, k))
  BY <1>2, <1>3, FS_Subset
<1>6. Cardinality(Breaks(bs, k)) \in Nat
  BY <1>2, FS_CardinalityType
<1>7. Cardinality(Breaks(bs, k)) # 0
  BY <1>2, <1>4, FS_EmptySet
<1>8. QED
  BY <1>2, <1>5, <1>6, <1>7

(* What needs no overflow record is in the fork's own.                     *)
LEMMA RecordFew ==
  ASSUME NEW f \in Files, NEW bs \in Seq(Nat), DOMAIN RecordsOf(f, bs) = {}
  PROVE  Record(bs, 0) = bs
<1> DEFINE count == IF bs = <<>> THEN 0 ELSE RecordAt(bs, Len(bs))
           C(i)  == Cardinality(Breaks(bs, i))
<1>1. /\ Len(bs) \in Nat /\ DOMAIN bs = 1 .. Len(bs) /\ InlineMax \in Nat \ {0}
      /\ bs # <<>> => Len(bs) # 0
  BY UnitsAssumption
<1>2. ASSUME NEW i \in DOMAIN bs
      PROVE  /\ C(i) \in Nat \ {0} /\ C(i) <= C(Len(bs))
             /\ C(Len(bs)) \in Nat \ {0}
  BY <1>1, BreaksGrow
<1>3. ~(\E r : r \in 1 .. count)
  <2>1. DOMAIN RecordsOf(f, bs) = {<<f, Record(bs, r)[1]>> : r \in 1 .. count}
    BY DEF RecordsOf
  <2>2. QED
    BY <2>1
<1>4. ASSUME NEW i \in DOMAIN bs PROVE RecordAt(bs, i) = 0
  <2>1. bs # <<>> /\ count = (C(Len(bs)) - 1) \div InlineMax
    BY DEF RecordAt
  <2>2. \A c \in Nat \ {0}, m \in Nat \ {0} :
          (c - 1) \div m \in Nat /\ ((c - 1) \div m = 0 <=> c - 1 < m)
    <3>1. SUFFICES ASSUME NEW c \in Nat \ {0}, NEW m \in Nat \ {0}
                   PROVE  /\ (c - 1) \div m \in Nat
                          /\ (c - 1) \div m = 0 <=> c - 1 < m
      OBVIOUS
    <3>2. PICK u \in Nat : u = c - 1
      OBVIOUS
    <3>3. u \div m \in Nat /\ u % m \in Nat /\ u % m < m
          /\ u = (u \div m) * m + (u % m)
      BY Quotient
    <3>4. u \div m = 0 => u < m
      BY <3>3
    <3>5. u < m => u \div m = 0
      OBVIOUS
    <3>6. QED
      BY <3>2, <3>3, <3>4, <3>5
  <2>3. count = 0
    <3>1. count \in Nat
      BY <1>1, <1>2, <2>1, <2>2
    <3>2. ~(1 <= count)
      <4>1. 1 <= count => 1 \in 1 .. count
        BY <3>1
      <4>2. QED
        BY <1>3, <4>1
    <3>3. QED
      BY <3>1, <3>2
  <2>4. C(Len(bs)) - 1 < InlineMax
    BY <1>1, <1>2, <2>1, <2>2, <2>3
  <2>5. C(i) - 1 < InlineMax
    BY <1>1, <1>2, <2>4
  <2>6. (C(i) - 1) \div InlineMax = 0
    BY <1>1, <1>2, <2>2, <2>5
  <2>7. QED
    BY <2>6 DEF RecordAt
<1>5. /\ {i \in DOMAIN bs : RecordAt(bs, i) < 0} = {}
      /\ {i \in DOMAIN bs : RecordAt(bs, i) <= 0} = 1 .. Len(bs)
  BY <1>1, <1>4
<1>6. Cardinality({}) = 0 /\ Cardinality(1 .. Len(bs)) = Len(bs)
  <2>1. Cardinality(1 .. Len(bs)) = IF 1 > Len(bs) THEN 0 ELSE Len(bs) - 1 + 1
    BY <1>1, FS_Interval
  <2>2. Cardinality({}) = 0
    BY FS_EmptySet
  <2>3. QED
    BY <1>1, <2>1, <2>2
<1>7. Record(bs, 0) = SubSeq(bs, 1, Len(bs))
  <2> DEFINE before == {i \in DOMAIN bs : RecordAt(bs, i) < 0}
             upto   == {i \in DOMAIN bs : RecordAt(bs, i) <= 0}
  <2>1. Record(bs, 0) = SubSeq(bs, Cardinality(before) + 1, Cardinality(upto))
    BY Zenon DEF Record
  <2>2. before = {} /\ upto = 1 .. Len(bs)
    BY <1>5
  <2> HIDE DEF before, upto
  <2>3. Cardinality(before) + 1 = 1 /\ Cardinality(upto) = Len(bs)
    BY <1>6, <2>2
  <2>4. QED
    BY <2>1, <2>3
<1>8. QED
  BY <1>7

-----------------------------------------------------------------------------
(* Sizes.                                                                  *)

(* Blocks is division rounded up.                                          *)
LEMMA BlocksBound ==
  ASSUME NEW u \in Nat
  PROVE  /\ Blocks(u) \in Nat
         /\ u <= Blocks(u) * BlockUnits
         /\ u >= 1 => Blocks(u) >= 1
         /\ u <= 2 * BlockUnits => Blocks(u) <= 2
<1>1. BlockUnits \in Nat \ {0}
  BY UnitsAssumption
<1>2. PICK q \in Nat, r \in Nat : /\ q = u \div BlockUnits /\ r = u % BlockUnits
                                  /\ r < BlockUnits /\ u = q * BlockUnits + r
  BY <1>1, Quotient
<1>3. Blocks(u) = q + (IF r = 0 THEN 0 ELSE 1)
  BY <1>2 DEF Blocks
<1>4. q * BlockUnits \in Nat /\ (q + 1) * BlockUnits = q * BlockUnits + BlockUnits
  BY <1>1
<1>5. u <= Blocks(u) * BlockUnits
  <2>1. CASE r = 0
    BY <1>1, <1>2, <1>3, <1>4, <2>1
  <2>2. CASE r # 0
    <3>1. Blocks(u) = q + 1
      BY <1>3, <2>2
    <3>2. QED
      BY <1>1, <1>2, <1>4, <3>1
  <2>3. QED
    BY <2>1, <2>2
<1>6. u >= 1 => Blocks(u) >= 1
  <2>1. q = 0 => q * BlockUnits = 0
    BY <1>1
  <2>2. QED
    BY <1>1, <1>2, <1>3, <2>1
<1>7. u <= 2 * BlockUnits => Blocks(u) <= 2
  <2>1. q >= 3 => q * BlockUnits >= 3 * BlockUnits
    BY <1>1
  <2>2. q = 2 => q * BlockUnits = 2 * BlockUnits
    BY <1>1
  <2>3. QED
    BY <1>1, <1>2, <1>3, <1>4, <2>1, <2>2
<1>8. QED
  BY <1>2, <1>3, <1>5, <1>6, <1>7

(* A later block is in no earlier byte of the bitmap, and a byte holds the *)
(* bits of MapBits blocks.                                                 *)
LEMMA Bytes ==
  ASSUME NEW b \in Nat, NEW c \in Nat, NEW n \in Nat
  PROVE  /\ ByteOf(b) \in Nat
         /\ b <= c => ByteOf(b) <= ByteOf(c)
         /\ b \in InByte(n) <=> ByteOf(b) = n
         /\ b < n * MapBits => ByteOf(b) < n
         /\ b <= ByteOf(b) * MapBits + MapBits
         /\ ByteOf(b) * MapBits <= b
<1>1. MapBits \in Nat \ {0}
  BY UnitsAssumption
<1>2. PICK q \in Nat, r \in Nat : /\ q = ByteOf(b) /\ r < MapBits
                                  /\ b = q * MapBits + r
  BY <1>1, Quotient DEF ByteOf
<1>3. PICK p \in Nat, s \in Nat : /\ p = ByteOf(c) /\ s < MapBits
                                  /\ c = p * MapBits + s
  BY <1>1, Quotient DEF ByteOf
<1>4. \A x, y, m \in Nat : /\ x * m \in Nat /\ (x + 1) * m = x * m + m
                           /\ x <= y => x * m <= y * m
  OBVIOUS
<1>5. \A x, y \in Nat : x < y => x * MapBits + MapBits <= y * MapBits
  <2>1. SUFFICES ASSUME NEW x \in Nat, NEW y \in Nat, x < y
                 PROVE  x * MapBits + MapBits <= y * MapBits
    OBVIOUS
  <2>2. x + 1 \in Nat /\ x + 1 <= y
    BY <2>1
  <2>3. QED
    BY <1>1, <1>4, <2>2
<1>6. /\ q * MapBits \in Nat /\ p * MapBits \in Nat /\ n * MapBits \in Nat
      /\ (n + 1) * MapBits = n * MapBits + MapBits
  BY <1>1, <1>4
<1>7. b <= c => q <= p
  BY <1>1, <1>2, <1>3, <1>5, <1>6
<1>8. q = n => n * MapBits <= b /\ b < n * MapBits + MapBits
  <2>1. q * MapBits <= b /\ b < q * MapBits + MapBits
    BY <1>1, <1>2, <1>6
  <2>2. QED
    BY <2>1
<1>9. q < n => b < n * MapBits
  BY <1>1, <1>2, <1>5, <1>6
<1>10. n < q => n * MapBits + MapBits <= b
  BY <1>1, <1>2, <1>5, <1>6
<1>11. b \in InByte(n) <=> q = n
  BY <1>1, <1>2, <1>6, <1>8, <1>9, <1>10 DEF InByte
<1>12. b < n * MapBits => q < n
  BY <1>1, <1>2, <1>6, <1>8, <1>10
<1>13. QED
  BY <1>1, <1>2, <1>3, <1>6, <1>7, <1>11, <1>12

-----------------------------------------------------------------------------
(* The state.                                                              *)

LEMMA NotFiles ==
  /\ MapFile \in Files /\ TreeFile \in Files /\ MapFile # TreeFile
  /\ DataFiles \subseteq Files /\ MapFile \notin DataFiles /\ TreeFile \notin DataFiles
  /\ NoFile \notin Files
BY FilesAssumption DEF Files, Specials, MapFile, TreeFile

LEMMA Facts ==
  ASSUME TypeOK
  PROVE  /\ hdr.total \in Nat /\ hdr.free \in Nat /\ hdr.next \in Nat
         /\ hdr.next < hdr.total
         /\ hdr = [total |-> hdr.total, free |-> hdr.free, next |-> hdr.next]
         /\ \A f \in Files : /\ fork[f] \in ForkType
                             /\ fork[f].size \in Nat /\ fork[f].total \in Nat
                             /\ fork[f].ext \in Seq(Nat)
                             /\ ext[f] \in Seq(Nat) /\ Len(ext[f]) \in Nat
                             /\ DOMAIN ext[f] = 1 .. Len(ext[f])
                             /\ \A i \in DOMAIN ext[f] : ext[f][i] \in Nat
<1>1. \A f \in Files : fork[f] \in ForkType /\ ext[f] \in Seq(Nat)
  BY DEF TypeOK
<1>2. \A fk \in ForkType : fk.size \in Nat /\ fk.total \in Nat /\ fk.ext \in Seq(Nat)
  BY DEF ForkType
<1>3. /\ hdr.total \in Nat /\ hdr.free \in Nat /\ hdr.next \in Nat
      /\ hdr.next < hdr.total
      /\ hdr = [total |-> hdr.total, free |-> hdr.free, next |-> hdr.next]
  BY DEF TypeOK
<1>4. QED
  BY <1>1, <1>2, <1>3

LEMMA OpFacts ==
  ASSUME op \in OpType
  PROVE  /\ op # NoOp /\ op.f \in Files /\ op.size \in Nat /\ op.left \in Nat
         /\ op.cur \in Nat /\ op.fresh \in BOOLEAN /\ op.blind \in BOOLEAN
         /\ op.total \in Nat /\ op.loc \in Nat /\ op.len \in Nat
         /\ op.then \in {"return", "data", "enlarge", "mark"}
<1>1. op.f \in Files
  BY DEF OpType
<1>2. NoOp.f = NoFile
  BY DEF NoOp
<1>3. op # NoOp
  BY <1>1, <1>2, NotFiles
<1>4. QED
  BY <1>1, <1>3 DEF OpType

LEMMA CallRuns == \A o \in OpType : o # NoOp
<1>1. NoOp.f = NoFile
  BY DEF NoOp
<1>2. \A o \in OpType : o.f \in Files
  BY DEF OpType
<1>3. QED
  BY <1>1, <1>2, NotFiles

LEMMA CallFacts ==
  ASSUME NEW f \in Files, NEW size \in Nat,
         NEW then \in {"return", "data", "enlarge", "mark"}
  PROVE  LET o == Call(f, size, then)
         IN  /\ o \in OpType /\ o.f = f /\ o.size = size /\ o.then = then
             /\ ~o.blind
BY DEF Call, OpType

(* The loop of allocate changes nothing of its call but how many blocks    *)
(* are left, which is next and whether it begins an extent.                *)
(* The call goes on with these three fields changed.                       *)
Updated(o, left, fresh, cur) ==
    /\ op' \in OpType /\ op'.left = left /\ op'.fresh = fresh /\ op'.cur = cur
    /\ op'.f = o.f /\ op'.size = o.size /\ op'.then = o.then
    /\ op'.blind = o.blind /\ op'.total = o.total

LEMMA OpUpdate ==
  ASSUME NEW o \in OpType, NEW left \in Nat, NEW fresh \in BOOLEAN, NEW cur \in Nat,
         op' = [o EXCEPT !.left = left, !.fresh = fresh, !.cur = cur]
  PROVE  Updated(o, left, fresh, cur)
<1>1. PICK a \in OpType : /\ a = [o EXCEPT !.left = left] /\ a.left = left
                          /\ a.f = o.f /\ a.size = o.size /\ a.then = o.then
                          /\ a.blind = o.blind /\ a.total = o.total
  <2>1. [o EXCEPT !.left = left] \in OpType
    BY DEF OpType
  <2>2. QED
    BY <2>1 DEF OpType
<1>2. PICK b \in OpType : /\ b = [a EXCEPT !.fresh = fresh] /\ b.left = a.left
                          /\ b.fresh = fresh
                          /\ b.f = a.f /\ b.size = a.size /\ b.then = a.then
                          /\ b.blind = a.blind /\ b.total = a.total
  <2>1. [a EXCEPT !.fresh = fresh] \in OpType
    BY DEF OpType
  <2>2. QED
    BY <2>1 DEF OpType
<1>3. PICK c \in OpType : /\ c = [b EXCEPT !.cur = cur] /\ c.left = b.left
                          /\ c.fresh = b.fresh /\ c.cur = cur
                          /\ c.f = b.f /\ c.size = b.size /\ c.then = b.then
                          /\ c.blind = b.blind /\ c.total = b.total
  <2>1. [b EXCEPT !.cur = cur] \in OpType
    BY DEF OpType
  <2>2. QED
    BY <2>1 DEF OpType
<1>4. op' = c
  BY <1>1, <1>2, <1>3
<1>5. QED
  BY <1>1, <1>2, <1>3, <1>4 DEF Updated

(* Reading a file's extents again finds what is in memory.                 *)
LEMMA OpenSame ==
  ASSUME AllocInv, FewExtents, NEW f \in DataFiles, Open(f)
  PROVE  UNCHANGED <<hdr, fork, ext, disk, at, op, wild>> /\ open' = f
<1> USE DEF AllocInv
<1>1. f \in Files /\ fork[f] \in ForkType /\ ext[f] = fork[f].ext /\ catalog[f] = fork[f]
      /\ Len(fork[f].ext) = fork[f].total
  <2>1. f \in Files /\ at = "idle" /\ op = NoOp
    BY NotFiles DEF Open, ControlInv
  <2>2. ~InWork(f)
    BY <2>1 DEF InWork
  <2>3. QED
    BY <2>1, <2>2, Facts DEF ShapeInv, DiskInv
<1>2. Follow(f, catalog[f]).ok /\ Follow(f, catalog[f]).blocks = ext[f]
  BY <1>1, FollowFew, Facts
<1>3. /\ fork' = [fork EXCEPT ![f] = catalog[f]] /\ open' = f
      /\ ext' = [ext EXCEPT ![f] = Follow(f, catalog[f]).blocks]
      /\ UNCHANGED <<hdr, disk, op, wild, at>>
  BY <1>2 DEF Open
<1>4. fork \in [Files -> ForkType] /\ ext \in [Files -> Seq(Nat)]
  BY DEF TypeOK
<1>5. fork' = fork /\ ext' = ext
  BY <1>1, <1>2, <1>3, <1>4
<1>6. QED
  BY <1>3, <1>5

(* writeExtents saves the whole list in the fork.                          *)
LEMMA Saved ==
  ASSUME AllocInv, FewExtents, FewExtents', SaveExtents
  PROVE  /\ fork' = [fork EXCEPT ![op.f] =
                       [size |-> op.size, total |-> Need, ext |-> ext[op.f]]]
         /\ at = "extents" /\ at' = "alternate" /\ op \in OpType
         /\ UNCHANGED <<hdr, ext, open, used, catalog, alternate, primary, image,
                        op, wild>>
<1> USE DEF AllocInv
<1>1. at = "extents" /\ op \in OpType
  BY DEF SaveExtents, ControlInv, Working
<1>2. op.f \in Files /\ fork[op.f] \in ForkType /\ ext[op.f] \in Seq(Nat)
      /\ Len(fork[op.f].ext) = fork[op.f].total /\ fork[op.f].total \in Nat
  BY <1>1, OpFacts, Facts DEF ShapeInv
<1>3. Follow(op.f, fork[op.f]).ok
  BY <1>2, FollowFew
<1> DEFINE kept == [k \in DOMAIN overflow \ Follow(op.f, fork[op.f]).keys |-> overflow[k]]
           new  == RecordsOf(op.f, ext[op.f])
<1>4. DOMAIN overflow' = DOMAIN kept \cup DOMAIN new
  BY <1>3 DEF SaveExtents
<1> HIDE DEF new, kept
<1>5. DOMAIN new = {}
  BY <1>4 DEF FewExtents
<1>6. Record(ext[op.f], 0) = ext[op.f]
  BY <1>2, <1>5, RecordFew DEF new
<1>7. QED
  BY <1>1, <1>3, <1>6 DEF SaveExtents

-----------------------------------------------------------------------------
(* What the actions change.                                                *)

(* All but eight actions leave the blocks, the header and the extents      *)
(* alone, and neither begin nor end a phase of allocate.                   *)
Quiet == /\ UNCHANGED <<hdr, fork, ext, used, wild>>
         /\ Grown' <=> Grown
         /\ at \notin {"loop", "extents"} /\ at' \notin {"loop", "extents"}

LEMMA QuietSteps ==
  ASSUME AllocInv, FewExtents, Next
  PROVE  \/ Quiet \/ BeginGrow \/ Keep \/ Skip \/ Take \/ Shrink
         \/ SaveExtents \/ Enlarge \/ Mark
<1> USE DEF AllocInv
<1>1. at = "idle" => op = NoOp /\ ~Grown
  BY DEF ControlInv, Grown
<1>2. op # NoOp => op \in OpType
  BY DEF ControlInv
<1>3. ASSUME NEW f \in DataFiles, Open(f) PROVE Quiet
  <2>1. UNCHANGED <<hdr, fork, ext, used, wild, at, op>> /\ at = "idle"
    BY <1>3, OpenSame DEF disk, Open
  <2>2. QED
    BY <2>1 DEF Quiet, Grown
<1>4. Close \/ Over => Quiet
  BY DEF Close, Over, vars, disk, Quiet, Grown, Stopped
<1>5. ASSUME NEW f \in Files, NEW size \in Nat, NEW then \in {"return", "data", "enlarge"}
      PROVE  Call(f, size, then) # NoOp /\ Call(f, size, then).then # "mark"
             /\ Call(f, size, then) \in OpType
  BY NotFiles DEF Call, NoOp, OpType
<1>6. ASSUME NEW size \in Sizes, SetSize(size) PROVE Quiet
  <2>1. /\ at = "idle" /\ at' = "start" /\ UNCHANGED <<hdr, fork, ext, used, wild>>
        /\ op' = Call(open, size, "return")
    BY <1>6 DEF SetSize, Start, disk
  <2>2. op'.then = "return"
    BY <2>1 DEF Call
  <2>3. QED
    BY <1>1, <2>1, <2>2 DEF Quiet, Grown
<1>7. GrowTree => Quiet
  <2>1. SUFFICES ASSUME GrowTree PROVE Quiet
    OBVIOUS
  <2>2. /\ at = "idle" /\ at' = "start" /\ UNCHANGED <<hdr, fork, ext, used, wild>>
        /\ op' = Call(TreeFile, fork[TreeFile].size + Clump, "return")
    BY <2>1 DEF GrowTree, Start, disk
  <2>3. op'.then = "return"
    BY <2>2 DEF Call
  <2>4. QED
    BY <1>1, <2>2, <2>3 DEF Quiet, Grown
<1>8. ASSUME NEW loc, NEW len, WriteFile(loc, len) PROVE Quiet
  <2>1. /\ at = "idle" /\ at' \in {"start", "data"} /\ UNCHANGED <<hdr, fork, ext, used, wild>>
        /\ op' = [Call(open, loc + len, "data") EXCEPT !.loc = loc, !.len = len]
    BY <1>8 DEF WriteFile, Start, disk
  <2>2. op'.then = "data"
    BY <2>1 DEF Call
  <2>3. QED
    BY <1>1, <2>1, <2>2 DEF Quiet, Grown
<1>9. ASSUME NEW total, GrowVolume(total) PROVE Quiet
  <2>1. /\ at = "idle" /\ at' \in {"start", "enlarge", "exited"}
        /\ UNCHANGED <<hdr, fork, ext, used, wild>>
        /\ \/ op' = op
           \/ op' = [Call(MapFile, total \div MapBits, "enlarge") EXCEPT !.total = total]
    BY <1>9 DEF GrowVolume, Start, disk
  <2>2. op' = op \/ op'.then = "enlarge"
    BY <2>1 DEF Call
  <2>3. QED
    BY <1>1, <2>1, <2>2 DEF Quiet, Grown
<1>10. Refuse => Quiet
  <2>1. SUFFICES ASSUME Refuse PROVE Quiet
    OBVIOUS
  <2>2. /\ at = "start" /\ UNCHANGED <<hdr, fork, ext, used, wild>>
        /\ at' \in {"idle", "enlarge", "exited"}
        /\ op' = IF op.then = "return" THEN NoOp ELSE op
    BY <2>1 DEF Refuse, disk
  <2>3. QED
    BY <2>2 DEF Quiet, Grown
<1>11. SaveAlternate => Quiet
  BY DEF SaveAlternate, Quiet, Grown
<1>12. SavePrimary \/ SaveCatalog => Quiet
  <2>1. SUFFICES ASSUME SavePrimary \/ SaveCatalog PROVE Quiet
    OBVIOUS
  <2>2. /\ at \in {"primary", "catalog"} /\ UNCHANGED <<hdr, fork, ext, used, wild>>
        /\ (at' = "catalog" /\ op' = op) \/ Return
    BY <2>1 DEF SavePrimary, SaveCatalog
  <2>3. op \in OpType
    BY <2>2 DEF ControlInv, Working
  <2>4. CASE at' = "catalog" /\ op' = op
    BY <2>2, <2>4 DEF Quiet, Grown
  <2>5. CASE Return
    <3>1. CASE op.then = "return"
      BY <2>2, <2>5, <3>1 DEF Quiet, Grown, Return
    <3>2. CASE op.then # "return"
      <4>1. at' = op.then /\ op' = op /\ at' \in {"data", "enlarge", "mark"}
        BY <2>3, <2>5, <3>2, OpFacts DEF Return
      <4>2. QED
        BY <2>2, <2>3, <4>1, OpFacts DEF Quiet, Grown
    <3>3. QED
      BY <3>1, <3>2
  <2>6. QED
    BY <2>2, <2>4, <2>5
<1>13. WriteData => Quiet
  <2>1. SUFFICES ASSUME WriteData PROVE Quiet
    OBVIOUS
  <2>2. /\ at = "data" /\ at' = "idle" /\ op' = NoOp /\ UNCHANGED <<hdr, fork, ext, used, wild>>
    BY <2>1 DEF WriteData
  <2>3. op # NoOp /\ op.then # "mark"
    BY <2>2, NotFiles DEF ControlInv, Working
  <2>4. QED
    BY <2>2, <2>3 DEF Quiet, Grown
<1>14. Reserve => Quiet
  <2>1. SUFFICES ASSUME Reserve PROVE Quiet
    OBVIOUS
  <2>2. /\ at = "reserve" /\ at' \in {"start", "mark"} /\ UNCHANGED <<hdr, fork, ext, used, wild>>
        /\ op' = [Call(MapFile, MapBytes, "mark") EXCEPT !.blind = ~Mapped(hdr.total - 1)]
    BY <2>1 DEF Reserve, MapBytes, disk
  <2>3. op'.then = "mark" /\ op'.f = MapFile
    BY <2>2 DEF Call
  <2>4. op' # NoOp
    BY <2>3, NotFiles DEF NoOp
  <2>5. QED
    BY <2>2, <2>3, <2>4 DEF Quiet, Grown
<1>15. QED
  BY <1>3, <1>4, <1>6, <1>7, <1>8, <1>9, <1>10, <1>11, <1>12, <1>13, <1>14
     DEF Next, Caller, Step

(* A block is owned if it is somewhere in the list of a file.              *)
LEMMA OwnedBlock ==
  ASSUME NEW b
  PROVE  /\ b \in Owned <=> \E f \in Files : \E i \in DOMAIN ext[f] : ext[f][i] = b
         /\ b \in Owned' <=> \E f \in Files : \E i \in DOMAIN ext'[f] : ext'[f][i] = b
BY DEF Owned, BlocksOf

(* On a narrow volume the block taken is the one that is zeroed.           *)
LEMMA SoughtNarrow ==
  ASSUME Narrow, NEW b \in Nat, b < hdr.total, hdr.total \in Nat
  PROVE  Sought(b) = b
<1>1. Reach \in Nat \ {0} /\ b < Reach
  BY UnitsAssumption DEF Narrow
<1>2. b % Reach = b
  <2>1. 0 * Reach + b = b
    BY <1>1
  <2>2. QED
    BY <1>1, <2>1, QuotientUnique
<1>3. QED
  BY <1>2 DEF Sought

(* A byte of the bitmap is in one of the blocks of its file.               *)
LEMMA MapByte ==
  ASSUME TypeOK, NEW i \in 0 .. Len(ext[MapFile]) * BlockUnits - 1
  PROVE  i \div BlockUnits + 1 \in DOMAIN ext[MapFile]
<1>1. PICK n \in Nat, s \in Nat \ {0} : n = Len(ext[MapFile]) /\ s = BlockUnits
  BY Facts, NotFiles, UnitsAssumption
<1>2. i \in Nat /\ i < n * s
  BY <1>1
<1>3. PICK q \in Nat, r \in Nat : q = i \div s /\ i = q * s + r
  <2>1. i \div s \in Nat /\ i % s \in Nat /\ i = (i \div s) * s + (i % s)
    BY <1>1, <1>2, Quotient
  <2>2. QED
    BY <2>1, Zenon
<1>4. q < n
  <2>1. \A x, y \in Nat : x <= y => x * s <= y * s
    BY <1>1
  <2>2. n <= q => n * s <= q * s
    BY <2>1
  <2>3. n * s \in Nat /\ q * s \in Nat
    BY <1>1
  <2>4. QED
    BY <1>2, <1>3, <2>2, <2>3
<1>5. QED
  BY <1>1, <1>3, <1>4, Facts, NotFiles

(* The block that Take takes is in the volume and free, and it is appended *)
(* to the list of the file.                                                *)
LEMMA Taken ==
  ASSUME AllocInv, Take
  PROVE  /\ op \in OpType /\ op.cur \notin used /\ op.cur < hdr.total - 1
         /\ op.cur \in Nat \ {0} /\ at = "loop"
         /\ used' = used \cup {op.cur}
         /\ ext' = [ext EXCEPT ![op.f] = Append(ext[op.f], op.cur)]
         /\ hdr' = [total |-> hdr.total, free |-> hdr.free - 1, next |-> hdr.next]
         /\ hdr.free >= 1
         /\ op' \in OpType /\ op'.left = op.left - 1 /\ ~op'.fresh
         /\ op'.cur = op.cur + 1
         /\ op'.f = op.f /\ op'.size = op.size /\ op'.then = op.then
         /\ op'.blind = op.blind /\ op'.total = op.total
         /\ op.left >= 1 /\ op.left <= hdr.free
         /\ UNCHANGED <<fork, open, catalog, overflow, primary, wild>>
         /\ image' = Zeroed(op.cur)
         /\ at' = IF op.left = 1 THEN "extents" ELSE "loop"
<1> USE DEF AllocInv
<1>1. at = "loop" /\ op \in OpType
  BY DEF Take, ControlInv, Working
<1>2. /\ op.cur \in Nat /\ op.cur < hdr.total /\ op.left >= 1 /\ op.left <= hdr.free
      /\ hdr.total \in Nat /\ hdr.free \in Nat /\ op.left \in Nat /\ op.cur \notin used
      /\ ~op.fresh => op.cur = Last(ext[op.f]) + 1
  BY <1>1, Facts, OpFacts DEF ControlInv, Take
<1>3. op.cur # 0
  BY <1>2 DEF MarkInv
<1>4. op.cur < hdr.total - 1
  <2>1. CASE ~Grown
    <3>1. hdr.total - 1 \in used
      BY <1>1, <2>1 DEF MarkInv, Stopped
    <3>2. QED
      BY <1>2, <3>1
  <2>2. CASE Grown
    <3>1. PICK b \in 1 .. hdr.total - 2 : op.cur = b \/ op.cur < b
      BY <1>1, <2>2 DEF GrowInv
    <3>2. QED
      BY <1>2, <3>1
  <2>3. QED
    BY <2>1, <2>2
<1>5. ext' = [ext EXCEPT ![op.f] = Append(ext[op.f], op.cur)]
  <2>1. (IF op.fresh THEN op.cur ELSE Last(ext[op.f]) + 1) = op.cur
    BY <1>2
  <2>2. QED
    BY <2>1 DEF Take
<1>6. op' = [op EXCEPT !.left = op.left - 1, !.fresh = FALSE, !.cur = op.cur + 1]
  <2>1. (IF op.cur + 1 >= hdr.total THEN hdr.next ELSE op.cur + 1) = op.cur + 1
    BY <1>2, <1>4
  <2>2. QED
    BY <2>1 DEF Take
<1>7. hdr' = [total |-> hdr.total, free |-> hdr.free - 1, next |-> hdr.next]
  <2>1. hdr' = [hdr EXCEPT !.free = hdr.free - 1]
    BY DEF Take
  <2>2. QED
    BY <2>1, Facts
<1>8. /\ used' = used \cup {op.cur} /\ at' = IF op.left = 1 THEN "extents" ELSE "loop"
      /\ image' = Zeroed(op.cur)
      /\ UNCHANGED <<fork, open, catalog, overflow, primary, wild>>
  <2>1. Sought(op.cur) = op.cur
    BY <1>2, SoughtNarrow
  <2>2. op.cur \notin BlocksOf(ext[TreeFile]) /\ BitsIn(op.cur) = {}
    <3>1. op.cur \notin Owned
      BY <1>2 DEF MarkInv
    <3>2. \A f \in {MapFile, TreeFile} : \A i \in DOMAIN ext[f] : ext[f][i] # op.cur
      BY <3>1, OwnedBlock, NotFiles
    <3>3. op.cur \notin BlocksOf(ext[TreeFile])
      BY <3>2 DEF BlocksOf
    <3>4. BitsIn(op.cur) = {}
      <4>1. ASSUME NEW i \in 0 .. Len(ext[MapFile]) * BlockUnits - 1
            PROVE  ext[MapFile][i \div BlockUnits + 1] # op.cur
        BY <3>2, <4>1, MapByte
      <4>2. QED
        BY <4>1 DEF BitsIn
    <3>5. QED
      BY <3>3, <3>4
  <2>3. QED
    BY <1>3, <2>1, <2>2 DEF Take
<1>9. hdr.free >= 1 /\ op.left - 1 \in Nat /\ op.cur + 1 \in Nat
  BY <1>2
<1>10. /\ op' \in OpType /\ op'.left = op.left - 1 /\ ~op'.fresh /\ op'.cur = op.cur + 1
       /\ op'.f = op.f /\ op'.size = op.size /\ op'.then = op.then
       /\ op'.blind = op.blind /\ op'.total = op.total
  <2>1. PICK l \in Nat, c \in Nat : l = op.left - 1 /\ c = op.cur + 1
    BY <1>9
  <2>2. op' = [op EXCEPT !.left = l, !.fresh = FALSE, !.cur = c]
    BY <1>6, <2>1
  <2>3. Updated(op, l, FALSE, c)
    <3>1. op \in OpType /\ l \in Nat /\ c \in Nat /\ FALSE \in BOOLEAN
      BY <1>1, <2>1
    <3>2. QED
      BY <2>2, <3>1, OpUpdate, ZenonT(60)
  <2>4. QED
    BY <2>1, <2>3 DEF Updated
<1>11. QED
  BY <1>1, <1>2, <1>3, <1>4, <1>5, <1>7, <1>8, <1>9, <1>10

(* A block that is taken sends the loop to nextAllocation.                 *)
LEMMA Skipped ==
  ASSUME AllocInv, Skip
  PROVE  /\ at = "loop" /\ at' = "loop" /\ op \in OpType /\ op' \in OpType
         /\ op.cur \in used
         /\ op'.left = op.left /\ op'.fresh /\ op'.cur = hdr.next
         /\ op'.f = op.f /\ op'.size = op.size /\ op'.then = op.then
         /\ op'.blind = op.blind /\ op'.total = op.total
         /\ hdr' = [total |-> hdr.total, free |-> hdr.free, next |-> NextAllocation]
         /\ NextAllocation \in Nat /\ NextAllocation < hdr.total
         /\ hdr.next + 1 < hdr.total => NextAllocation = hdr.next + 1
         /\ UNCHANGED <<fork, ext, open, disk, wild>>
<1> USE DEF AllocInv
<1>1. at = "loop" /\ op \in OpType /\ at' = "loop" /\ op.cur \in used
  BY DEF Skip, ControlInv, Working
<1>2. op' = [op EXCEPT !.left = op.left, !.fresh = TRUE, !.cur = hdr.next]
  <2>1. op' = [op EXCEPT !.fresh = TRUE, !.cur = hdr.next]
    BY DEF Skip
  <2>2. [op EXCEPT !.left = op.left] = op
    BY <1>1 DEF OpType
  <2>3. QED
    BY <2>1, <2>2
<1>3. /\ op' \in OpType /\ op'.left = op.left /\ op'.fresh /\ op'.cur = hdr.next
      /\ op'.f = op.f /\ op'.size = op.size /\ op'.then = op.then
      /\ op'.blind = op.blind /\ op'.total = op.total
  <2>1. op.left \in Nat /\ hdr.next \in Nat /\ TRUE \in BOOLEAN
    BY <1>1, Facts, OpFacts
  <2>2. op \in OpType
    BY <1>1
  <2>3. Updated(op, op.left, TRUE, hdr.next)
    BY <1>2, <2>1, <2>2, OpUpdate, ZenonT(60)
  <2>4. QED
    BY <2>3 DEF Updated
<1>4. hdr' = [total |-> hdr.total, free |-> hdr.free, next |-> NextAllocation]
  <2>1. hdr' = [hdr EXCEPT !.next = NextAllocation]
    BY DEF Skip
  <2>2. QED
    BY <2>1, Facts
<1>5. /\ NextAllocation \in Nat /\ NextAllocation < hdr.total
      /\ hdr.next + 1 < hdr.total => NextAllocation = hdr.next + 1
  BY Facts DEF NextAllocation
<1>6. UNCHANGED <<fork, ext, open, disk, wild>>
  BY DEF Skip
<1>7. QED
  BY <1>1, <1>3, <1>4, <1>5, <1>6

(* Growing the volume frees its last block, and nothing of what the files  *)
(* have; the bytes that are cleared lie beyond the volume as it was.       *)
LEMMA Enlarged ==
  ASSUME AllocInv, Enlarge
  PROVE  /\ at = "enlarge" /\ op \in OpType /\ op.f = MapFile /\ op.then = "enlarge"
         /\ op.total \in GrowTotals /\ op.total > hdr.total
         /\ used' \subseteq used \ {hdr.total - 1}
         /\ \A b \in used : b < hdr.total - 1 => b \in used'
         /\ UNCHANGED <<fork, ext, open, catalog, overflow, alternate, primary,
                        image, op, wild>>
         /\ \/ at' = "exited" /\ hdr' = hdr
            \/ /\ at' = "reserve"
               /\ hdr' \in [total : Nat, free : Nat, next : Nat]
               /\ hdr'.total = op.total /\ hdr'.next = hdr.next
               /\ hdr'.free = hdr.free + op.total - hdr.total
<1> USE DEF AllocInv
<1> DEFINE cleared == hdr.total \div MapBits + 1 .. op.total \div MapBits - 1
<1>1. at = "enlarge" /\ op \in OpType /\ op.f = MapFile /\ op.then = "enlarge"
      /\ op.total \in GrowTotals /\ op.total > hdr.total
  BY DEF Enlarge, ControlInv, Working
<1>2. used' = (used \ {hdr.total - 1}) \ UNION {InByte(n) : n \in cleared}
  BY DEF Enlarge
<1>3. ASSUME NEW b \in used, b < hdr.total - 1, NEW n \in cleared PROVE b \notin InByte(n)
  <2>1. b \in Nat /\ hdr.total \in Nat /\ op.total \in Nat /\ MapBits \in Nat \ {0}
    BY <1>1, OpFacts, Facts, UnitsAssumption DEF TypeOK
  <2>2. ByteOf(hdr.total) \in Nat /\ ByteOf(b) <= ByteOf(hdr.total) /\ ByteOf(b) \in Nat
    BY <1>3, <2>1, Bytes
  <2>3. n \in Nat /\ n > ByteOf(hdr.total)
    BY <2>1, <2>2 DEF ByteOf
  <2>4. QED
    BY <2>1, <2>2, <2>3, Bytes
<1>4. \A b \in used : b < hdr.total - 1 => b \in used'
  <2>1. hdr.total \in Nat /\ used \subseteq Nat
    BY Facts DEF TypeOK
  <2>2. ASSUME NEW b \in used, b < hdr.total - 1 PROVE b \in used'
    BY <1>2, <1>3, <2>1, <2>2
  <2>3. QED
    BY <2>2
<1>5. \/ at' = "exited" /\ hdr' = hdr
      \/ /\ at' = "reserve"
         /\ hdr' = [hdr EXCEPT !.total = op.total,
                               !.free = hdr.free + op.total - hdr.total]
  BY DEF Enlarge
<1>6. ASSUME at' # "exited"
      PROVE  /\ hdr' \in [total : Nat, free : Nat, next : Nat]
             /\ hdr'.total = op.total /\ hdr'.next = hdr.next
             /\ hdr'.free = hdr.free + op.total - hdr.total
  <2>1. hdr \in [total : Nat, free : Nat, next : Nat] /\ op.total \in Nat
    BY <1>1, Facts, OpFacts
  <2>2. op.total - hdr.total \in Nat /\ hdr.free + op.total - hdr.total \in Nat
    BY <1>1, <2>1
  <2>3. QED
    BY <1>5, <1>6, <2>1, <2>2
<1>7. QED
  BY <1>1, <1>2, <1>4, <1>5, <1>6 DEF Enlarge

(* Marking the last block marks or unmarks no other, except that junk may  *)
(* be marked beside it.                                                    *)
LEMMA Marked ==
  ASSUME AllocInv, Mark
  PROVE  /\ at = "mark" /\ op \in OpType /\ op.then = "mark" /\ op.f = MapFile
         /\ used \cup {hdr.total - 1} \subseteq used'
         /\ ~wild' => ~wild /\ used' = used \cup {hdr.total - 1}
         /\ \A b \in used' : b \in used \/ (b \in Nat /\ ByteOf(b) = ByteOf(hdr.total - 1))
         /\ op' \in OpType /\ op'.f = op.f /\ op'.size = op.size /\ op'.then = "return"
         /\ at' = "alternate"
         /\ wild' \in BOOLEAN
         /\ UNCHANGED <<hdr, fork, ext, open, catalog, overflow, alternate,
                        primary, image>>
<1> USE DEF AllocInv
<1> DEFINE last   == hdr.total - 1
           beside == InByte(ByteOf(last)) \ {last}
<1>1. at = "mark" /\ op \in OpType /\ op.then = "mark" /\ op.f = MapFile
  BY DEF Mark, ControlInv, Working
<1>2. PICK junk \in IF op.blind THEN SUBSET beside ELSE {used \cap beside} :
           /\ used' = (used \ beside) \cup junk \cup {last}
           /\ wild' = (wild \/ (op.blind /\ junk # {}))
  BY DEF Mark
<1>3. last \in Nat /\ ByteOf(last) \in Nat /\ used \subseteq Nat
  <2>1. last \in Nat
    BY Facts DEF MapInv
  <2>2. QED
    BY <2>1, Bytes DEF TypeOK
<1>4. \A b \in Nat : b \in InByte(ByteOf(last)) <=> ByteOf(b) = ByteOf(last)
  BY <1>3, Bytes
<1>5. InByte(ByteOf(last)) \subseteq Nat
  <2>1. MapBits \in Nat
    BY UnitsAssumption
  <2>2. ByteOf(last) * MapBits \in Nat /\ (ByteOf(last) + 1) * MapBits \in Nat
    BY <1>3, <2>1
  <2>3. QED
    BY <2>2 DEF InByte
<1>6. op.blind => used \cap beside = {}
  <2>1. ASSUME op.blind, NEW b \in used PROVE b \notin beside
    <3>1. ByteOf(b) < ByteOf(last)
      BY <1>1, <2>1, OpFacts DEF GrowInv
    <3>2. QED
      BY <1>3, <1>4, <3>1, Bytes
  <2>2. QED
    BY <2>1
<1>7. op.blind \in BOOLEAN /\ wild \in BOOLEAN
  BY <1>1, OpFacts DEF TypeOK
<1> HIDE DEF beside
<1>8. used \subseteq used' /\ last \in used'
  BY <1>2, <1>6
<1>9. ~wild' => ~wild /\ used' = used \cup {last}
  BY <1>2, <1>6, <1>7
<1>10. \A b \in used' : b \in used \/ (b \in Nat /\ ByteOf(b) = ByteOf(last))
  <2>1. junk \subseteq beside
    BY <1>2
  <2>2. beside \subseteq InByte(ByteOf(last))
    BY DEF beside
  <2>3. QED
    BY <1>2, <1>3, <1>4, <1>5, <2>1, <2>2
<1>11. wild' \in BOOLEAN
  BY <1>2, <1>7
<1>12. /\ op' \in OpType /\ op'.f = op.f /\ op'.size = op.size /\ op'.then = "return"
  <2>1. op' = [op EXCEPT !.then = "return"]
    BY DEF Mark
  <2>2. op' \in OpType
    BY <1>1, <2>1 DEF OpType
  <2>3. QED
    BY <1>1, <2>1, <2>2 DEF OpType
<1>13. QED
  BY <1>1, <1>8, <1>9, <1>10, <1>11, <1>12 DEF Mark

(* A larger size needs no fewer blocks, and what fits in n bytes of the    *)
(* bitmap needs n of them.                                                 *)
LEMMA BlocksMonotone ==
  ASSUME NEW u \in Nat, NEW v \in Nat, u <= v
  PROVE  Blocks(u) <= Blocks(v)
<1>1. BlockUnits \in Nat \ {0}
  BY UnitsAssumption
<1>2. PICK q \in Nat, r \in Nat : /\ q = u \div BlockUnits /\ r = u % BlockUnits
                                  /\ r < BlockUnits /\ u = q * BlockUnits + r
  BY <1>1, Quotient
<1>3. PICK p \in Nat, s \in Nat : /\ p = v \div BlockUnits /\ s = v % BlockUnits
                                  /\ s < BlockUnits /\ v = p * BlockUnits + s
  BY <1>1, Quotient
<1>4. Blocks(u) = q + (IF r = 0 THEN 0 ELSE 1) /\ Blocks(v) = p + (IF s = 0 THEN 0 ELSE 1)
  BY <1>2, <1>3 DEF Blocks
<1>5. ASSUME NEW x \in Nat, NEW y \in Nat, x < y
      PROVE  /\ x * BlockUnits \in Nat /\ y * BlockUnits \in Nat
             /\ x * BlockUnits + BlockUnits <= y * BlockUnits
  <2>1. (x + 1) * BlockUnits = x * BlockUnits + BlockUnits
    BY <1>1
  <2>2. \A i, j \in Nat : i <= j => i * BlockUnits <= j * BlockUnits
    BY <1>1
  <2>3. x * BlockUnits \in Nat /\ y * BlockUnits \in Nat
    BY <1>1
  <2>4. x + 1 <= y /\ x + 1 \in Nat
    BY <1>5
  <2>5. QED
    BY <2>1, <2>2, <2>3, <2>4
<1>6. q <= p
  BY <1>1, <1>2, <1>3, <1>5
<1>7. q = p /\ s = 0 => r = 0
  BY <1>1, <1>2, <1>3
<1>8. QED
  BY <1>1, <1>2, <1>3, <1>4, <1>6, <1>7

(* A volume that may be grown to has a bitmap of at most two blocks.       *)
LEMMA SmallMap ==
  ASSUME NEW total \in Nat, total <= 2 * BlockUnits * MapBits
  PROVE  /\ ByteOf(total) \in Nat /\ ByteOf(total) <= 2 * BlockUnits
         /\ total >= 1 => ByteOf(total - 1) + 1 <= 2 * BlockUnits
<1>1. MapBits \in Nat \ {0} /\ 2 * BlockUnits \in Nat
  BY UnitsAssumption
<1>2. PICK n \in Nat : n = 2 * BlockUnits
  BY <1>1
<1>3. n * MapBits \in Nat /\ total <= n * MapBits /\ (n + 1) * MapBits = n * MapBits + MapBits
  BY <1>1, <1>2
<1>4. ByteOf(total) \in Nat /\ ByteOf(total) < n + 1
  <2>1. total < (n + 1) * MapBits
    BY <1>1, <1>3
  <2>2. n + 1 \in Nat
    OBVIOUS
  <2>3. QED
    BY <2>1, <2>2, Bytes
<1>5. total >= 1 => ByteOf(total - 1) \in Nat /\ ByteOf(total - 1) < n
  <2>1. ASSUME total >= 1 PROVE ByteOf(total - 1) \in Nat /\ ByteOf(total - 1) < n
    <3>1. PICK t \in Nat : t = total - 1
      BY <2>1
    <3>2. t < n * MapBits
      BY <1>3, <3>1
    <3>3. ByteOf(t) \in Nat /\ ByteOf(t) < n
      BY <3>2, Bytes
    <3>4. QED
      BY <3>1, <3>3
  <2>2. QED
    BY <2>1
<1>6. QED
  BY <1>2, <1>4, <1>5

-----------------------------------------------------------------------------
(* Every step keeps ControlInv.                                            *)

(* What the callers ask of allocate.                                       *)
LEMMA ControlCaller ==
  ASSUME AllocInv, FewExtents, Caller
  PROVE  ControlInv'
<1> USE DEF AllocInv
<1>1. ASSUME NEW f \in DataFiles, Open(f) PROVE ControlInv'
  <2>1. UNCHANGED <<hdr, fork, ext, at, op>> /\ at = "idle"
    BY <1>1, OpenSame DEF Open
  <2>2. QED
    BY <2>1 DEF ControlInv, Working
<1>2. Close => ControlInv'
  BY DEF Close, ControlInv, Working
<1>3. ASSUME NEW o \in OpType, op' = o, at = "idle", UNCHANGED <<hdr, fork, ext>>,
             o.then = "return", o.f # MapFile, at' = "start"
      PROVE  ControlInv'
  <2>1. o # NoOp
    BY <1>3, CallRuns
  <2>2. QED
    BY <1>3, <2>1 DEF ControlInv, Working
<1>4. ASSUME NEW size \in Sizes, SetSize(size) PROVE ControlInv'
  <2>1. open \in Files /\ open # MapFile /\ size \in Nat
    BY <1>4, NotFiles, UnitsAssumption DEF SetSize, TypeOK
  <2>2. QED
    BY <1>3, <1>4, <2>1, CallFacts DEF SetSize, Start
<1>5. GrowTree => ControlInv'
  <2>1. TreeFile \in Files /\ TreeFile # MapFile
    BY NotFiles
  <2>5. fork[TreeFile].size \in Nat /\ Clump \in Nat
    BY <2>1, Facts, UnitsAssumption
  <2>6. fork[TreeFile].size + Clump \in Nat
    BY <2>5
  <2>2. QED
    BY <1>3, <2>1, <2>6, CallFacts DEF GrowTree, Start
<1>6. ASSUME NEW w \in Writes, WriteFile(w[1], w[2]) PROVE ControlInv'
  <2>1. open \in DataFiles /\ open \in Files /\ w[1] \in Nat /\ w[2] \in Nat
    BY <1>6, NotFiles, UnitsAssumption DEF WriteFile, TypeOK
  <2>2. PICK c \in OpType : c = Call(open, w[1] + w[2], "data")
    BY <2>1, CallFacts
  <2>3. c.f = open /\ c.then = "data"
    BY <2>2 DEF Call
  <2>4. PICK o \in OpType : /\ o = [c EXCEPT !.loc = w[1], !.len = w[2]]
                            /\ o.f = open /\ o.then = "data"
    <3>1. [c EXCEPT !.loc = w[1]] \in OpType
      BY <2>1 DEF OpType
    <3>2. [[c EXCEPT !.loc = w[1]] EXCEPT !.len = w[2]] \in OpType
      BY <2>1, <3>1 DEF OpType
    <3>3. [c EXCEPT !.loc = w[1], !.len = w[2]] = [[c EXCEPT !.loc = w[1]] EXCEPT !.len = w[2]]
      OBVIOUS
    <3>4. /\ [c EXCEPT !.loc = w[1], !.len = w[2]].f = c.f
          /\ [c EXCEPT !.loc = w[1], !.len = w[2]].then = c.then
      BY DEF OpType
    <3>5. QED
      BY <2>3, <3>2, <3>3, <3>4
  <2>5. op' = o /\ at = "idle" /\ UNCHANGED <<hdr, fork, ext>> /\ at' \in {"start", "data"}
    BY <1>6, <2>2, <2>4 DEF WriteFile, Start
  <2>6. open # MapFile /\ o # NoOp
    BY <2>1, <2>4, NotFiles DEF NoOp
  <2>7. QED
    BY <2>1, <2>4, <2>5, <2>6 DEF ControlInv, Working
<1>7. ASSUME NEW total \in GrowTotals, GrowVolume(total) PROVE ControlInv'
  <2>1. total \in Nat /\ ByteOf(total) \in Nat /\ ByteOf(total) <= 2 * BlockUnits
    <3>1. 2 * BlockUnits * MapBits \in Nat
      BY UnitsAssumption
    <3>2. total \in Nat /\ total <= 2 * BlockUnits * MapBits
      BY <3>1, GrowAssumption
    <3>3. QED
      BY <3>2, SmallMap
  <2>2. PICK c \in OpType : c = Call(MapFile, ByteOf(total), "enlarge")
    BY <2>1, NotFiles, CallFacts
  <2>3. c.f = MapFile /\ c.then = "enlarge" /\ c.size = ByteOf(total)
    BY <2>2 DEF Call
  <2>4. PICK o \in OpType : /\ o = [c EXCEPT !.total = total] /\ o.total = total
                            /\ o.f = MapFile /\ o.then = "enlarge" /\ o.size = ByteOf(total)
    <3>1. [c EXCEPT !.total = total] \in OpType
      BY <2>1 DEF OpType
    <3>2. /\ [c EXCEPT !.total = total].total = total
          /\ [c EXCEPT !.total = total].f = c.f
          /\ [c EXCEPT !.total = total].then = c.then
          /\ [c EXCEPT !.total = total].size = c.size
      BY DEF OpType
    <3>3. QED
      BY <2>3, <3>1, <3>2
  <2>5. /\ at = "idle" /\ UNCHANGED <<hdr, fork, ext>> /\ total > hdr.total
        /\ \/ op' = op /\ at' = "exited"
           \/ op' = o /\ at' = "enlarge"
           \/ op' = o /\ at' = "start" /\ ~(fork[MapFile].size >= ByteOf(total))
    BY <1>7, <2>2, <2>4 DEF GrowVolume, Start, ByteOf
  <2>6. CASE op' = op /\ at' = "exited"
    BY <2>5, <2>6 DEF ControlInv, Working
  <2>7. CASE op' = o /\ at' \in {"start", "enlarge"}
    <3>1. o # NoOp
      BY <2>4, NotFiles DEF NoOp
    <3>2. at' = "start" => ByteOf(total) > fork[MapFile].size
      BY <2>1, <2>5, Facts, NotFiles
    <3>3. QED
      BY <2>1, <2>4, <2>5, <2>7, <3>1, <3>2 DEF ControlInv, Working, ByteOf
  <2>8. QED
    BY <2>5, <2>6, <2>7
<1>8. QED
  BY <1>1, <1>2, <1>4, <1>5, <1>6, <1>7 DEF Caller

(* The call that Reserve makes.                                            *)
LEMMA ReserveCalled ==
  ASSUME AllocInv, Reserve
  PROVE  /\ at = "reserve" /\ op' \in OpType /\ op'.f = MapFile /\ op'.then = "mark"
         /\ op'.size = MapBytes /\ MapBytes \in Nat \ {0} /\ MapBytes <= 2 * BlockUnits
         /\ op'.blind = ~Mapped(hdr.total - 1)
         /\ \/ at' = "start" /\ MapBytes > fork[MapFile].size
            \/ at' = "mark" /\ MapBytes <= fork[MapFile].size
         /\ UNCHANGED <<hdr, fork, ext, open, disk, wild>>
<1> USE DEF AllocInv
<1>1. MapBytes \in Nat \ {0} /\ MapBytes <= 2 * BlockUnits
  <2>1. hdr.total \in Nat /\ hdr.total >= 4 /\ hdr.total <= 2 * BlockUnits * MapBits
    BY Facts DEF MapInv
  <2>2. hdr.total - 1 \in Nat
    BY <2>1
  <2>3. ByteOf(hdr.total - 1) \in Nat
    BY <2>2, Bytes
  <2>4. QED
    BY <2>1, <2>3, SmallMap DEF MapBytes
<1>2. Mapped(hdr.total - 1) \in BOOLEAN
  BY DEF Mapped
<1>3. PICK c \in OpType : /\ c = Call(MapFile, MapBytes, "mark") /\ c.f = MapFile
                          /\ c.then = "mark" /\ c.size = MapBytes
  BY <1>1, NotFiles, CallFacts
<1> DEFINE o == [c EXCEPT !.blind = ~Mapped(hdr.total - 1)]
<1>4. /\ o \in OpType /\ o.f = c.f /\ o.then = c.then /\ o.size = c.size
      /\ o.blind = ~Mapped(hdr.total - 1)
  BY <1>2 DEF OpType
<1>5. /\ at = "reserve" /\ op' = o /\ UNCHANGED <<hdr, fork, ext, open, disk, wild>>
      /\ at' = IF MapBytes > fork[MapFile].size THEN "start" ELSE "mark"
  BY <1>3 DEF Reserve, MapBytes
<1>6. fork[MapFile].size \in Nat
  BY Facts, NotFiles
<1> HIDE DEF o
<1>7. /\ o.f = MapFile /\ o.then = "mark" /\ o.size = MapBytes
  BY <1>3, <1>4
<1>8. QED
  BY <1>1, <1>4, <1>5, <1>6, <1>7

(* The allocation loop begins inside the volume.                           *)
LEMMA Begun ==
  ASSUME AllocInv, BeginGrow
  PROVE  /\ at = "start" /\ at' = "loop" /\ op \in OpType /\ op' \in OpType
         /\ op'.f = op.f /\ op'.size = op.size /\ op'.then = op.then /\ op'.blind = op.blind
         /\ op'.total = op.total
         /\ op'.left = Need - Have /\ op'.left >= 1 /\ op'.left <= hdr.free
         /\ op'.cur < hdr.total
         /\ op'.fresh = (ext[op.f] = <<>>)
         /\ op'.cur = IF ext[op.f] = <<>> THEN hdr.next ELSE Last(ext[op.f]) + 1
         /\ ext[op.f] = fork[op.f].ext
         /\ UNCHANGED <<hdr, fork, ext, open, disk, wild>>
<1> USE DEF AllocInv
<1>1. at = "start" /\ op \in OpType /\ at' = "loop"
  BY DEF BeginGrow, ControlInv, Working
<1>2. op.f \in Files /\ op.size \in Nat
  BY <1>1, OpFacts
<1>3. Need \in Nat /\ Have \in Nat /\ hdr.free \in Nat
  BY <1>2, Facts, BlocksBound DEF Need, Have
<1>4. Need - Have \in Nat /\ Need - Have >= 1 /\ Need - Have <= hdr.free
  BY <1>3 DEF BeginGrow, Room
<1> DEFINE empty == ext[op.f] = <<>>
           cur   == IF empty THEN hdr.next ELSE Last(ext[op.f]) + 1
<1>5. cur \in Nat /\ cur < hdr.total
  <2>1. CASE empty
    BY <2>1, Facts
  <2>2. CASE ~empty
    <3>1. ext[op.f] \in Seq(Nat) /\ Len(ext[op.f]) # 0 /\ Len(ext[op.f]) \in Nat
      BY <1>2, <2>2, Facts
    <3>2. Len(ext[op.f]) \in DOMAIN ext[op.f] /\ Last(ext[op.f]) \in Nat
      BY <3>1 DEF Last
    <3>3. Last(ext[op.f]) \in Owned
      BY <1>2, <3>2 DEF Owned, BlocksOf, Last
    <3>4. Last(ext[op.f]) # hdr.total - 1 /\ ~(Last(ext[op.f]) >= hdr.total)
      BY <3>3 DEF NoSharing, Reserved
    <3>5. QED
      BY <2>2, <3>2, <3>4, Facts
  <2>3. QED
    BY <2>1, <2>2
<1>6. op' = [op EXCEPT !.left = Need - Have, !.fresh = empty, !.cur = cur]
  BY DEF BeginGrow
<1> HIDE DEF empty, cur
<1>7. empty \in BOOLEAN
  BY DEF empty
<1>8. /\ op' \in OpType /\ op'.left = Need - Have /\ op'.fresh = empty /\ op'.cur = cur
      /\ op'.f = op.f /\ op'.size = op.size /\ op'.then = op.then
      /\ op'.blind = op.blind /\ op'.total = op.total
  <2>1. PICK l \in Nat, c \in Nat : l = Need - Have /\ c = cur
    BY <1>4, <1>5
  <2>2. op \in OpType /\ l \in Nat /\ c \in Nat
    BY <1>1, <2>1
  <2>3. CASE empty
    <3>1. op' = [op EXCEPT !.left = l, !.fresh = TRUE, !.cur = c] /\ TRUE \in BOOLEAN
      BY <1>6, <2>1, <2>3
    <3>2. Updated(op, l, TRUE, c)
      BY <2>2, <3>1, OpUpdate, ZenonT(60)
    <3>3. QED
      BY <1>7, <2>1, <2>3, <3>2 DEF Updated
  <2>4. CASE ~empty
    <3>1. op' = [op EXCEPT !.left = l, !.fresh = FALSE, !.cur = c] /\ FALSE \in BOOLEAN
      <4>1. empty = FALSE
        BY <1>7, <2>4
      <4>2. QED
        BY <1>6, <2>1, <4>1
    <3>2. Updated(op, l, FALSE, c)
      BY <2>2, <3>1, OpUpdate, ZenonT(60)
    <3>3. QED
      BY <1>7, <2>1, <2>4, <3>2 DEF Updated
  <2>5. QED
    BY <1>7, <2>3, <2>4
<1>9. ext[op.f] = fork[op.f].ext
  BY <1>1, <1>2 DEF ShapeInv
<1>10. UNCHANGED <<hdr, fork, ext, open, disk, wild>>
  BY DEF BeginGrow
<1>11. QED
  BY <1>1, <1>4, <1>5, <1>8, <1>9, <1>10 DEF empty, cur

(* What allocate and the steps after it do.                                *)
LEMMA ControlStep ==
  ASSUME AllocInv, FewExtents, FewExtents', Step
  PROVE  ControlInv'
<1> USE DEF AllocInv
<1>1. Refuse => ControlInv'
  <2>1. SUFFICES ASSUME Refuse PROVE ControlInv'
    OBVIOUS
  <2>2. at = "start" /\ op \in OpType /\ UNCHANGED <<hdr, fork, ext>>
    BY <2>1 DEF Refuse, ControlInv, Working
  <2>3. CASE op.then = "return"
    <3>1. at' = "idle" /\ op' = NoOp
      BY <2>1, <2>3 DEF Refuse
    <3>2. QED
      BY <3>1 DEF ControlInv, Working
  <2>4. CASE op.then # "return"
    <3>1. op' = op /\ at' = IF op.then = "enlarge" THEN "enlarge" ELSE "exited"
      BY <2>1, <2>4 DEF Refuse
    <3>2. QED
      BY <2>2, <3>1, OpFacts DEF ControlInv, Working, MapBytes
  <2>5. QED
    BY <2>3, <2>4
<1>2. BeginGrow => ControlInv'
  <2>1. SUFFICES ASSUME BeginGrow PROVE ControlInv'
    OBVIOUS
  <2>2. op' # NoOp
    BY <2>1, Begun, CallRuns
  <2>3. QED
    BY <2>1, <2>2, Begun, OpFacts DEF ControlInv, Working, MapBytes
<1>3. Skip => ControlInv'
  <2>1. SUFFICES ASSUME Skip PROVE ControlInv'
    OBVIOUS
  <2>2. op' # NoOp
    BY <2>1, Skipped, CallRuns
  <2>3. hdr'.total = hdr.total /\ hdr'.free = hdr.free
    BY <2>1, Skipped
  <2>4. QED
    BY <2>1, <2>2, <2>3, Skipped, Facts, OpFacts DEF ControlInv, Working, MapBytes
<1>4. Take => ControlInv'
  <2>1. SUFFICES ASSUME Take PROVE ControlInv'
    OBVIOUS
  <2>2. op' # NoOp /\ op # NoOp
    BY <2>1, Taken, OpFacts, CallRuns
  <2>3. hdr'.total = hdr.total /\ hdr'.free = hdr.free - 1 /\ hdr.total \in Nat
        /\ hdr.free \in Nat /\ op.left \in Nat /\ op.cur \in Nat
    <3>1. hdr'.total = hdr.total /\ hdr'.free = hdr.free - 1
      BY <2>1, Taken
    <3>2. hdr.total \in Nat /\ hdr.free \in Nat
      BY Facts
    <3>3. op.left \in Nat /\ op.cur \in Nat
      <4>1. op \in OpType
        BY <2>1, Taken
      <4>2. QED
        BY <4>1, OpFacts
    <3>4. QED
      BY <3>1, <3>2, <3>3
  <2>4. ext'[op.f] # <<>> /\ Last(ext'[op.f]) = op.cur
    <3>1. ext'[op.f] = Append(ext[op.f], op.cur) /\ ext[op.f] \in Seq(Nat)
      BY <2>1, Taken, OpFacts, Facts DEF TypeOK
    <3>2. PICK e : e = ext'[op.f]
      OBVIOUS
    <3>3. e # <<>> /\ Len(e) = Len(ext[op.f]) + 1
      <4>1. Len(e) = Len(ext[op.f]) + 1 /\ Len(ext[op.f]) \in Nat
        BY <2>3, <3>1, <3>2
      <4>2. Len(<<>>) = 0
        OBVIOUS
      <4>3. QED
        BY <4>1, <4>2
    <3>4. e[Len(ext[op.f]) + 1] = op.cur
      BY <2>3, <3>1, <3>2
    <3>5. Last(e) = op.cur
      BY <3>3, <3>4 DEF Last
    <3>6. QED
      BY <3>2, <3>3, <3>5
  <2>5. (op.left = 1 /\ at' = "extents") \/ (op.left >= 2 /\ at' = "loop")
    BY <2>1, <2>3, Taken
  <2>6. MapBytes' = MapBytes
    BY <2>3 DEF MapBytes, ByteOf
  <2>7. /\ at' # "panic" /\ at' # "idle" /\ at' \notin {"data", "catalog", "mark", "alternate", "primary"}
        /\ op' \in OpType /\ fork' = fork /\ at = "loop"
    BY <2>1, <2>5, Taken
  <2>8. at' = "loop" => /\ op'.left >= 1 /\ op'.left <= hdr'.free /\ op'.cur < hdr'.total
                        /\ ext'[op'.f] # <<>> /\ op'.cur = Last(ext'[op'.f]) + 1
    <3>1. /\ op'.left = op.left - 1 /\ op'.cur = op.cur + 1 /\ op'.f = op.f
          /\ op.left <= hdr.free /\ op.cur < hdr.total - 1
      BY <2>1, Taken
    <3>2. at' = "loop" => op'.left >= 1 /\ op'.left <= hdr'.free
      BY <2>3, <2>5, <3>1
    <3>3. op'.cur < hdr'.total
      BY <2>3, <3>1
    <3>4. ext'[op'.f] # <<>> /\ op'.cur = Last(ext'[op'.f]) + 1
      BY <2>4, <3>1
    <3>5. QED
      BY <3>2, <3>3, <3>4
  <2>9. /\ op'.then = "data" => op'.f \in DataFiles
        /\ op'.then = "enlarge" => /\ op'.f = MapFile /\ op'.total \in GrowTotals
                                  /\ op'.size = op'.total \div MapBits
                                  /\ op'.total > hdr'.total
        /\ op'.then = "mark" => op'.f = MapFile /\ op'.size = MapBytes'
        /\ op'.f = MapFile => op'.size <= 2 * BlockUnits /\ op'.size > fork'[MapFile].size
    <3>1. op'.f = op.f /\ op'.size = op.size /\ op'.then = op.then /\ op'.total = op.total
      BY <2>1, Taken
    <3>2. QED
      BY <2>2, <2>3, <2>6, <2>7, <3>1 DEF ControlInv
  <2>10. QED
    BY <2>2, <2>5, <2>7, <2>8, <2>9 DEF ControlInv, Working
<1>5. Shrink \/ Keep => ControlInv'
  <2>1. SUFFICES ASSUME Shrink \/ Keep PROVE ControlInv'
    OBVIOUS
  <2>2. at = "start" /\ at' = "extents" /\ UNCHANGED <<fork, op>> /\ op \in OpType
        /\ hdr'.total = hdr.total
    <3>1. CASE Shrink
      <4>1. hdr' = [hdr EXCEPT !.free = hdr.free + Len(ext[op.f]) - Need]
        BY <3>1 DEF Shrink
      <4>2. hdr'.total = hdr.total
        BY <4>1, Facts
      <4>3. QED
        BY <3>1, <4>2 DEF Shrink, ControlInv, Working
    <3>2. CASE Keep
      BY <3>2 DEF Keep, ControlInv, Working
    <3>3. QED
      BY <2>1, <3>1, <3>2
  <2>3. QED
    BY <2>2, OpFacts DEF ControlInv, Working, MapBytes
<1>6. SaveExtents => ControlInv'
  <2>1. SUFFICES ASSUME SaveExtents PROVE ControlInv'
    OBVIOUS
  <2>2. fork'[op.f].size = op.size
    <3>1. op.f \in Files /\ DOMAIN fork = Files
      BY <2>1, Saved, OpFacts DEF TypeOK
    <3>2. fork'[op.f] = [size |-> op.size, total |-> Need, ext |-> ext[op.f]]
      BY <2>1, <3>1, Saved
    <3>3. QED
      BY <3>2
  <2>3. MapBytes' = MapBytes
    BY <2>1, Saved DEF MapBytes
  <2>4. op.then = "mark" => op.f = MapFile /\ op.size = MapBytes
    BY <2>1, Saved, OpFacts DEF ControlInv
  <2>5. MapBytes \in Nat
    <3>1. hdr.total - 1 \in Nat
      BY Facts DEF MapInv
    <3>2. QED
      BY <3>1, Bytes DEF MapBytes
  <2>6. /\ at = "extents" /\ at' = "alternate" /\ op \in OpType /\ op' = op /\ op # NoOp
        /\ UNCHANGED <<hdr, ext>>
    BY <2>1, Saved, OpFacts
  <2>7. op.then = "mark" => MapBytes' <= fork'[op.f].size /\ op.f = MapFile
    BY <2>2, <2>3, <2>4, <2>5
  <2>8. QED
    BY <2>3, <2>4, <2>6, <2>7 DEF ControlInv, Working
<1>7. SaveAlternate => ControlInv'
  BY DEF SaveAlternate, ControlInv, Working, MapBytes
<1>8. ASSUME Return, at \in {"primary", "catalog"}, UNCHANGED <<hdr, fork, ext>>,
             at = "primary" <=> op.f \notin DataFiles
      PROVE  ControlInv'
  <2>1. op \in OpType
    BY <1>8 DEF ControlInv, Working
  <2>2. CASE op.then = "return"
    BY <1>8, <2>2 DEF Return, ControlInv, Working
  <2>3. CASE op.then # "return"
    <3>1. at' = op.then /\ op' = op /\ at' \in {"data", "enlarge", "mark"}
      BY <1>8, <2>1, <2>3, OpFacts DEF Return
    <3>2. op.f \in DataFiles => op.f # MapFile
      BY NotFiles
    <3>3. QED
      BY <1>8, <2>1, <3>1, <3>2, OpFacts DEF ControlInv, Working, MapBytes
  <2>4. QED
    BY <2>2, <2>3
<1>9. SavePrimary => ControlInv'
  <2>1. SUFFICES ASSUME SavePrimary PROVE ControlInv'
    OBVIOUS
  <2>2. CASE op.f \in DataFiles
    <3>1. at = "primary" /\ at' = "catalog" /\ UNCHANGED <<op, hdr, fork, ext>> /\ op \in OpType
      BY <2>1, <2>2 DEF SavePrimary, ControlInv, Working
    <3>2. QED
      BY <2>2, <3>1, OpFacts DEF ControlInv, Working, MapBytes
  <2>3. CASE op.f \notin DataFiles
    BY <1>8, <2>1, <2>3 DEF SavePrimary
  <2>4. QED
    BY <2>2, <2>3
<1>10. SaveCatalog => ControlInv'
  <2>1. SUFFICES ASSUME SaveCatalog PROVE ControlInv'
    OBVIOUS
  <2>2. op.f \in DataFiles
    BY <2>1 DEF SaveCatalog, ControlInv
  <2>3. QED
    BY <1>8, <2>1, <2>2 DEF SaveCatalog
<1>11. WriteData => ControlInv'
  BY DEF WriteData, ControlInv, Working
<1>12. Enlarge => ControlInv'
  <2>1. SUFFICES ASSUME Enlarge PROVE ControlInv'
    OBVIOUS
  <2>2. /\ at' \in {"exited", "reserve"} /\ op' = op /\ fork' = fork /\ ext' = ext
        /\ op \in OpType /\ op.then = "enlarge"
    BY <2>1, Enlarged
  <2>3. QED
    BY <2>2, OpFacts DEF ControlInv, Working
<1>13. Reserve => ControlInv'
  <2>1. SUFFICES ASSUME Reserve PROVE ControlInv'
    OBVIOUS
  <2>2. op' # NoOp
    BY <2>1, ReserveCalled, NotFiles DEF NoOp
  <2>3. MapBytes' = MapBytes
    BY <2>1, ReserveCalled DEF MapBytes
  <2>4. QED
    BY <2>1, <2>2, <2>3, ReserveCalled DEF ControlInv, Working
<1>14. Mark => ControlInv'
  <2>1. SUFFICES ASSUME Mark PROVE ControlInv'
    OBVIOUS
  <2>2. op' # NoOp
    BY <2>1, Marked, NotFiles DEF NoOp
  <2>3. op.size <= 2 * BlockUnits
    BY <2>1, Marked, OpFacts DEF ControlInv
  <2>4. QED
    BY <2>1, <2>2, <2>3, Marked, OpFacts DEF ControlInv, Working
<1>15. QED
  BY <1>1, <1>2, <1>3, <1>4, <1>5, <1>6, <1>7, <1>9, <1>10, <1>11, <1>12, <1>13,
     <1>14 DEF Step

LEMMA ControlKept ==
  ASSUME AllocInv, FewExtents, FewExtents', Next
  PROVE  ControlInv'
<1>1. Over => ControlInv'
  BY DEF Over, vars, AllocInv, ControlInv, Working, MapBytes
<1>2. QED
  BY <1>1, ControlCaller, ControlStep DEF Next

-----------------------------------------------------------------------------
(* Every step keeps ShapeInv and MapInv.                                   *)

(* The list of the file that Take gives a block to.                        *)
LEMMA TakenList ==
  ASSUME AllocInv, Take
  PROVE  /\ ext' \in [Files -> Seq(Nat)]
         /\ Len(ext'[op.f]) = Len(ext[op.f]) + 1
         /\ ext'[op.f][Len(ext[op.f]) + 1] = op.cur
         /\ \A i \in DOMAIN ext[op.f] : ext'[op.f][i] = ext[op.f][i]
         /\ \A f \in Files \ {op.f} : ext'[f] = ext[f]
<1>1. op.f \in Files /\ op.cur \in Nat /\ ext \in [Files -> Seq(Nat)]
      /\ ext' = [ext EXCEPT ![op.f] = Append(ext[op.f], op.cur)]
  BY Taken, OpFacts DEF AllocInv, TypeOK
<1>2. PICK s \in Seq(Nat) : s = ext[op.f]
  BY <1>1
<1>3. PICK e : e = Append(s, op.cur)
  OBVIOUS
<1>4. /\ e \in Seq(Nat) /\ Len(e) = Len(s) + 1 /\ e[Len(s) + 1] = op.cur
      /\ \A i \in DOMAIN s : e[i] = s[i]
  BY <1>1, <1>3
<1>5. ext'[op.f] = e /\ ext' \in [Files -> Seq(Nat)]
  BY <1>1, <1>2, <1>3, <1>4
<1>6. \A f \in Files \ {op.f} : ext'[f] = ext[f]
  BY <1>1
<1>7. QED
  BY <1>2, <1>4, <1>5, <1>6

(* The list of the file that is shrunk loses its tail.                     *)
LEMMA Shrunk ==
  ASSUME AllocInv, Shrink
  PROVE  /\ at = "start" /\ at' = "extents" /\ op \in OpType /\ op.f # MapFile
         /\ Need \in Nat /\ Need < Len(ext[op.f]) /\ Len(ext[op.f]) = Have
         /\ ext[op.f] = fork[op.f].ext
         /\ ext' \in [Files -> Seq(Nat)]
         /\ Len(ext'[op.f]) = Need
         /\ \A i \in 1 .. Need : ext'[op.f][i] = ext[op.f][i]
         /\ \A f \in Files \ {op.f} : ext'[f] = ext[f]
         /\ used' = used \ TailAfter(ext[op.f], Need)
         /\ hdr' = [total |-> hdr.total, free |-> hdr.free + Len(ext[op.f]) - Need,
                    next |-> hdr.next]
         /\ UNCHANGED <<fork, open, catalog, overflow, alternate, primary, image,
                        op, wild>>
<1> USE DEF AllocInv
<1>1. at = "start" /\ at' = "extents" /\ op \in OpType
  BY DEF Shrink, ControlInv, Working
<1>2. op.f \in Files /\ op.size \in Nat /\ ext[op.f] = fork[op.f].ext
      /\ Len(fork[op.f].ext) = fork[op.f].total /\ ext[op.f] \in Seq(Nat)
      /\ fork[op.f].total = Blocks(fork[op.f].size)
      /\ ext \in [Files -> Seq(Nat)]
  BY <1>1, OpFacts, Facts DEF ShapeInv, TypeOK
<1>3. Need \in Nat /\ Len(ext[op.f]) = Have /\ Need < Len(ext[op.f]) /\ Have \in Nat
  BY <1>2, BlocksBound, Facts DEF Need, Have, Shrink
<1>4. op.f # MapFile
  <2>1. ASSUME op.f = MapFile PROVE FALSE
    <3>1. op.size > fork[MapFile].size /\ fork[MapFile].size \in Nat
      BY <1>1, <1>2, <2>1, OpFacts, Facts DEF ControlInv
    <3>2. Blocks(fork[MapFile].size) <= Blocks(op.size)
      BY <1>2, <3>1, BlocksMonotone
    <3>3. QED
      BY <1>2, <1>3, <2>1, <3>2 DEF Need, Have
  <2>2. QED
    BY <2>1
<1>12. PICK s \in Seq(Nat), n \in Nat : s = ext[op.f] /\ n = Need
  BY <1>2, <1>3
<1>5. PICK e : e = SubSeq(s, 1, n)
  OBVIOUS
<1>6. e \in Seq(Nat) /\ Len(e) = n /\ \A i \in 1 .. n : e[i] = s[i]
  BY <1>3, <1>5, <1>12
<1>7. ext' = [ext EXCEPT ![op.f] = e]
  BY <1>5, <1>12 DEF Shrink
<1>8. /\ ext' \in [Files -> Seq(Nat)] /\ ext'[op.f] = e
      /\ \A f \in Files \ {op.f} : ext'[f] = ext[f]
  BY <1>2, <1>6, <1>7
<1>9. hdr' = [total |-> hdr.total, free |-> hdr.free + Len(ext[op.f]) - Need,
              next |-> hdr.next]
  <2>1. hdr' = [hdr EXCEPT !.free = hdr.free + Len(ext[op.f]) - Need]
    BY DEF Shrink
  <2>2. QED
    BY <2>1, Facts
<1>10. used' = used \ TailAfter(ext[op.f], Need)
       /\ UNCHANGED <<fork, open, catalog, overflow, alternate, primary, image, op, wild>>
  BY DEF Shrink
<1>11. QED
  BY <1>1, <1>2, <1>3, <1>4, <1>5, <1>6, <1>8, <1>9, <1>10, <1>12

LEMMA ShapeStep ==
  ASSUME AllocInv, FewExtents, FewExtents', Next
  PROVE  ShapeInv'
<1> USE DEF AllocInv
<1>1. Quiet => ShapeInv'
  BY DEF Quiet, ShapeInv, InWork
<1>2. BeginGrow => ShapeInv'
  <2>1. SUFFICES ASSUME BeginGrow PROVE ShapeInv'
    OBVIOUS
  <2>2. op # NoOp /\ op' # NoOp /\ op.f \in Files /\ op.size \in Nat /\ InWork(op.f)'
    BY <2>1, Begun, OpFacts, NotFiles DEF NoOp, InWork
  <2>3. Need' = Need /\ Have' = Have /\ Need \in Nat /\ Have \in Nat
    BY <2>1, <2>2, Begun, BlocksBound, Facts DEF Need, Have
  <2>4. Len(ext[op.f]) = Have
    BY <2>1, <2>2, Begun DEF ShapeInv, Have
  <2>5. Len(ext'[op'.f]) + op'.left = Need' /\ Len(ext'[op'.f]) >= Have'
    BY <2>1, <2>3, <2>4, Begun
  <2>6. QED
    BY <2>1, <2>2, <2>5, Begun DEF ShapeInv, InWork
<1>3. Keep => ShapeInv'
  <2>1. SUFFICES ASSUME Keep PROVE ShapeInv'
    OBVIOUS
  <2>2. at = "start" /\ at' = "extents" /\ op \in OpType /\ UNCHANGED <<fork, ext, op>>
        /\ Need = Have
    BY <2>1 DEF Keep, ControlInv, Working
  <2>3. op.f \in Files /\ ext[op.f] = fork[op.f].ext /\ Len(ext[op.f]) = Need
    BY <2>2, OpFacts DEF ShapeInv, Have
  <2>4. Need' = Need
    BY <2>2 DEF Need
  <2>5. QED
    BY <2>2, <2>3, <2>4 DEF ShapeInv, InWork
<1>4. Skip => ShapeInv'
  <2>1. SUFFICES ASSUME Skip PROVE ShapeInv'
    OBVIOUS
  <2>2. op # NoOp /\ op' # NoOp
    BY <2>1, Skipped, CallRuns
  <2>3. Need' = Need /\ Have' = Have
    BY <2>1, Skipped DEF Need, Have
  <2>4. QED
    BY <2>1, <2>2, <2>3, Skipped DEF ShapeInv, InWork
<1>5. Take => ShapeInv'
  <2>1. SUFFICES ASSUME Take PROVE ShapeInv'
    OBVIOUS
  <2>2. op # NoOp /\ op' # NoOp /\ op.f \in Files /\ op.left \in Nat /\ op'.f = op.f
    BY <2>1, Taken, OpFacts, CallRuns
  <2>3. Need' = Need /\ Have' = Have /\ Need \in Nat /\ Have \in Nat
    BY <2>1, <2>2, Taken, BlocksBound, Facts, OpFacts DEF Need, Have
  <2>4. /\ Len(ext[op.f]) + op.left = Need /\ Len(ext[op.f]) >= Have
        /\ Len(ext[op.f]) \in Nat /\ DOMAIN ext[op.f] = 1 .. Len(ext[op.f])
        /\ \A i \in DOMAIN ext[op.f] : i <= Have => ext[op.f][i] = fork[op.f].ext[i]
    BY <2>1, <2>2, Taken, Facts DEF ShapeInv
  <2>5. DOMAIN ext'[op.f] = 1 .. Len(ext[op.f]) + 1
    BY <2>1, <2>2, TakenList
  <2>6. \A i \in DOMAIN ext'[op.f] : i <= Have => ext'[op.f][i] = fork[op.f].ext[i]
    <3>1. ASSUME NEW i \in DOMAIN ext'[op.f], i <= Have
          PROVE  ext'[op.f][i] = fork[op.f].ext[i]
      <4>1. i \in 1 .. Len(ext[op.f]) + 1
        BY <2>5, <3>1
      <4>2. i \in DOMAIN ext[op.f]
        BY <2>3, <2>4, <3>1, <4>1
      <4>3. ext'[op.f][i] = ext[op.f][i]
        BY <2>1, <4>2, TakenList
      <4>4. QED
        BY <2>4, <3>1, <4>2, <4>3
    <3>2. QED
      BY <3>1
  <2>7. Len(ext'[op.f]) >= Have /\ Len(ext'[op.f]) + op'.left = Need
    <3>1. Len(ext'[op.f]) = Len(ext[op.f]) + 1 /\ op'.left = op.left - 1
      BY <2>1, Taken, TakenList
    <3>2. Len(ext[op.f]) \in Nat /\ op.left \in Nat /\ op.left >= 1
      BY <2>1, <2>2, <2>4, Taken, OpFacts
    <3>3. Len(ext[op.f]) + op.left = Need /\ Len(ext[op.f]) >= Have
      BY <2>4
    <3>4. Have \in Nat
      BY <2>3
    <3>5. PICK l \in Nat, n \in Nat, h \in Nat :
             l = Len(ext[op.f]) /\ n = op.left /\ h = Have
      BY <3>2, <3>4
    <3>6. n >= 1 /\ l + n = Need /\ l >= h
      BY <3>2, <3>3, <3>5
    <3>7. l + 1 >= h /\ (l + 1) + (n - 1) = Need
      BY <3>6
    <3>8. QED
      BY <3>1, <3>5, <3>7
  <2>8. at' = "extents" => Len(ext'[op.f]) = Need
    BY <2>1, <2>2, <2>3, <2>4, <2>7, Taken, TakenList
  <2>9. \A f \in Files : f # op.f => ext'[f] = fork'[f].ext
    BY <2>1, Taken, TakenList DEF ShapeInv, InWork
  <2>10. QED
    BY <2>1, <2>2, <2>3, <2>6, <2>7, <2>8, <2>9, Taken DEF ShapeInv, InWork
<1>6. Shrink => ShapeInv'
  <2>1. SUFFICES ASSUME Shrink PROVE ShapeInv'
    OBVIOUS
  <2>2. op # NoOp /\ op.f \in Files
    BY <2>1, Shrunk, OpFacts
  <2>3. Need' = Need /\ Have' = Have
    BY <2>1, Shrunk DEF Need, Have
  <2>4. DOMAIN ext'[op.f] = 1 .. Need
    BY <2>1, <2>2, Shrunk
  <2>5. \A f \in Files : f # op.f => ext'[f] = fork'[f].ext
    BY <2>1, Shrunk DEF ShapeInv, InWork
  <2>6. QED
    <3>1. UNCHANGED <<fork, op>> /\ at' = "extents" /\ Len(ext'[op.f]) = Need
      BY <2>1, Shrunk
    <3>2. \A i \in DOMAIN ext'[op.f] : ext'[op.f][i] = fork[op.f].ext[i]
      BY <2>1, <2>4, Shrunk
    <3>3. QED
      BY <2>2, <2>3, <2>5, <3>1, <3>2 DEF ShapeInv, InWork
<1>7. SaveExtents => ShapeInv'
  <2>1. SUFFICES ASSUME SaveExtents PROVE ShapeInv'
    OBVIOUS
  <2>2. op.f \in Files /\ op # NoOp /\ Len(ext[op.f]) = Need /\ Need = Blocks(op.size)
    BY <2>1, Saved, OpFacts DEF ShapeInv, Need
  <2>3. /\ fork'[op.f].size = op.size /\ fork'[op.f].total = Need /\ fork'[op.f].ext = ext[op.f]
        /\ \A f \in Files : f # op.f => fork'[f] = fork[f]
    BY <2>1, <2>2, Saved DEF TypeOK
  <2>4. \A f \in Files : f # op.f => ext[f] = fork[f].ext
    BY DEF ShapeInv, InWork
  <2>5. QED
    BY <2>1, <2>2, <2>3, <2>4, Saved DEF ShapeInv, InWork
<1>8. Enlarge \/ Mark => ShapeInv'
  <2>1. SUFFICES ASSUME Enlarge \/ Mark PROVE ShapeInv'
    OBVIOUS
  <2>2. UNCHANGED <<fork, ext>> /\ at \in {"enlarge", "mark"}
        /\ at' \in {"exited", "reserve", "alternate"}
    BY <2>1, Enlarged, Marked
  <2>3. QED
    BY <2>2 DEF ShapeInv
<1>9. QED
  BY <1>1, <1>2, <1>3, <1>4, <1>5, <1>6, <1>7, <1>8, QuietSteps

LEMMA MapStep ==
  ASSUME AllocInv, FewExtents, FewExtents', Next
  PROVE  MapInv'
<1> USE DEF AllocInv
<1>1. BlockUnits \in Nat \ {0} /\ MapBits \in Nat \ {0} /\ MapFile \in Files
  BY UnitsAssumption, NotFiles
<1>2. used \subseteq Nat /\ \A b \in used : ByteOf(b) \in Nat
  BY Bytes DEF TypeOK
<1>3. ASSUME UNCHANGED <<fork, ext>>, hdr'.total = hdr.total, used' \subseteq used
      PROVE  MapInv'
  BY <1>3 DEF MapInv, Mapped
<1>4. Quiet \/ BeginGrow \/ Keep => MapInv'
  BY <1>3 DEF Quiet, BeginGrow, Keep, disk
<1>5. Skip => MapInv'
  <2>1. Skip => hdr'.total = hdr.total /\ UNCHANGED <<fork, ext, used>>
    BY Skipped DEF disk
  <2>2. QED
    BY <1>3, <2>1
<1>6. Take => MapInv'
  <2>1. SUFFICES ASSUME Take PROVE MapInv'
    OBVIOUS
  <2>2. Len(ext[MapFile]) \in Nat /\ Len(ext'[MapFile]) \in Nat
        /\ Len(ext[MapFile]) <= Len(ext'[MapFile])
    <3>1. Len(ext[MapFile]) \in Nat
      BY <1>1, Facts
    <3>2. CASE op.f = MapFile
      BY <2>1, <3>1, <3>2, TakenList
    <3>3. CASE op.f # MapFile
      BY <1>1, <2>1, <3>1, <3>3, TakenList
    <3>4. QED
      BY <3>2, <3>3
  <2>3. Len(ext[MapFile]) * BlockUnits <= Len(ext'[MapFile]) * BlockUnits
        /\ Len(ext[MapFile]) * BlockUnits \in Nat /\ Len(ext'[MapFile]) * BlockUnits \in Nat
    <3>1. \A x, y \in Nat : x <= y => x * BlockUnits <= y * BlockUnits /\ x * BlockUnits \in Nat
      BY <1>1
    <3>2. PICK x \in Nat, y \in Nat : x = Len(ext[MapFile]) /\ y = Len(ext'[MapFile])
      BY <2>2
    <3>3. x <= y /\ y <= y
      BY <2>2, <3>2
    <3>4. x * BlockUnits <= y * BlockUnits /\ x * BlockUnits \in Nat /\ y * BlockUnits \in Nat
      BY <3>1, <3>3
    <3>5. QED
      BY <3>2, <3>4
  <2>4. \A b \in used' : Mapped(b)
    BY <2>1, Taken DEF MapInv, TypeOK
  <2>5. \A b \in used' : ByteOf(b) \in Nat
    <3>1. used' \subseteq Nat
      BY <1>2, <2>1, Taken
    <3>2. QED
      BY <3>1, Bytes
  <2>6. \A b \in used' : Mapped(b)'
    BY <2>3, <2>4, <2>5 DEF Mapped
  <2>7. hdr'.total = hdr.total /\ fork' = fork
    BY <2>1, Taken
  <2>8. QED
    BY <2>6, <2>7 DEF MapInv
<1>7. Shrink => MapInv'
  <2>1. SUFFICES ASSUME Shrink PROVE MapInv'
    OBVIOUS
  <2>2. ext'[MapFile] = ext[MapFile] /\ used' \subseteq used /\ fork' = fork
        /\ hdr'.total = hdr.total
    BY <1>1, <2>1, Shrunk
  <2>3. QED
    BY <2>2 DEF MapInv, Mapped
<1>8. SaveExtents => MapInv'
  <2>1. SUFFICES ASSUME SaveExtents PROVE MapInv'
    OBVIOUS
  <2>2. fork[MapFile].size \in Nat /\ fork[MapFile].size >= 1 /\ op.size \in Nat /\ op.f \in Files
    BY <1>1, <2>1, Facts, Saved, OpFacts DEF MapInv
  <2>3. fork'[MapFile].size >= 1
    <3>1. CASE op.f = MapFile
      <4>1. op.size > fork[MapFile].size
        BY <2>1, <3>1, Saved, OpFacts DEF ControlInv
      <4>2. fork'[MapFile].size = op.size
        BY <2>1, <2>2, <3>1, Saved DEF TypeOK
      <4>3. QED
        BY <2>2, <4>1, <4>2
    <3>2. CASE op.f # MapFile
      BY <1>1, <2>1, <2>2, <3>2, Saved DEF TypeOK
    <3>3. QED
      BY <3>1, <3>2
  <2>4. UNCHANGED <<hdr, ext, used>>
    BY <2>1, Saved
  <2>5. QED
    BY <2>3, <2>4 DEF MapInv, Mapped
<1>9. Enlarge => MapInv'
  <2>1. SUFFICES ASSUME Enlarge PROVE MapInv'
    OBVIOUS
  <2>2. op.total \in Nat /\ op.total <= 2 * BlockUnits * MapBits /\ op.total > hdr.total
    <3>1. 2 * BlockUnits * MapBits \in Nat
      BY <1>1
    <3>2. QED
      BY <2>1, <3>1, Enlarged, GrowAssumption, OpFacts
  <2>3. hdr'.total = hdr.total \/ hdr'.total = op.total
    BY <2>1, Enlarged
  <2>4. hdr'.total >= 4 /\ hdr'.total <= 2 * BlockUnits * MapBits
    BY <2>2, <2>3, Facts DEF MapInv
  <2>5. UNCHANGED <<fork, ext>> /\ used' \subseteq used
    BY <2>1, Enlarged
  <2>6. QED
    BY <2>4, <2>5 DEF MapInv, Mapped
<1>10. Mark => MapInv'
  <2>1. SUFFICES ASSUME Mark PROVE MapInv'
    OBVIOUS
  <2>2. fork[MapFile].size \in Nat /\ fork[MapFile].total = Blocks(fork[MapFile].size)
        /\ Len(ext[MapFile]) = fork[MapFile].total
    <3>1. ext[MapFile] = fork[MapFile].ext
      BY <1>1, <2>1, Marked DEF ShapeInv
    <3>2. QED
      BY <1>1, <3>1, Facts DEF ShapeInv
  <2>3. fork[MapFile].size <= Len(ext[MapFile]) * BlockUnits
    BY <2>2, BlocksBound
  <2>4. MapBytes <= fork[MapFile].size /\ ByteOf(hdr.total - 1) \in Nat
    <3>1. hdr.total - 1 \in Nat
      BY Facts DEF MapInv
    <3>2. QED
      BY <2>1, <3>1, Bytes, Marked DEF ControlInv
  <2>5. Len(ext[MapFile]) * BlockUnits \in Nat
    BY <1>1, Facts
  <2>6. ByteOf(hdr.total - 1) < Len(ext[MapFile]) * BlockUnits
    BY <2>2, <2>3, <2>4, <2>5 DEF MapBytes
  <2>7. \A b \in used' : Mapped(b)
    BY <2>1, <2>6, Marked DEF MapInv, Mapped
  <2>8. UNCHANGED <<hdr, fork, ext>>
    BY <2>1, Marked
  <2>9. QED
    BY <2>7, <2>8 DEF MapInv, Mapped
<1>11. QED
  BY <1>4, <1>5, <1>6, <1>7, <1>8, <1>9, <1>10, QuietSteps

-----------------------------------------------------------------------------
(* Every step keeps NoSharing and MarkInv.                                 *)

(* The blocks of the files are natural numbers below the last block.       *)
LEMMA OwnedRange ==
  ASSUME AllocInv, NEW b \in Owned
  PROVE  b \in Nat \ {0} /\ b < hdr.total - 1 /\ b \in used
<1> USE DEF AllocInv
<1>1. b \in Nat
  BY OwnedBlock, Facts
<1>2. b # 0 /\ b # hdr.total - 1 /\ ~(b >= hdr.total)
  BY DEF NoSharing, Reserved
<1>3. QED
  BY <1>1, <1>2, Facts DEF MarkInv

(* What NoSharing says, for proofs that build the blocks up.               *)
LEMMA SharingFacts ==
  ASSUME AllocInv, NEW f \in Files, NEW g \in Files,
         NEW i \in DOMAIN ext[f], NEW j \in DOMAIN ext[g], ext[f][i] = ext[g][j]
  PROVE  f = g /\ i = j
BY DEF AllocInv, NoSharing

LEMMA SharingStep ==
  ASSUME AllocInv, FewExtents, FewExtents', Next
  PROVE  NoSharing'
<1> USE DEF AllocInv
<1>1. ASSUME ext' = ext, hdr'.total = hdr.total
      PROVE  NoSharing'
  BY <1>1 DEF NoSharing, Owned, Reserved
<1>2. Quiet \/ BeginGrow \/ Keep => NoSharing'
  BY <1>1 DEF Quiet, BeginGrow, Keep
<1>3. Skip \/ SaveExtents \/ Mark => NoSharing'
  BY <1>1, Skipped, Saved, Marked
<1>4. Take => NoSharing'
  <2>1. SUFFICES ASSUME Take PROVE NoSharing'
    OBVIOUS
  <2>2. op.f \in Files /\ Len(ext[op.f]) \in Nat /\ DOMAIN ext[op.f] = 1 .. Len(ext[op.f])
    BY <2>1, Taken, OpFacts, Facts
  <2>3. DOMAIN ext'[op.f] = 1 .. Len(ext[op.f]) + 1
    BY <2>1, <2>2, TakenList
  <2>4. op.cur \notin Owned /\ op.cur \in Nat \ {0} /\ op.cur < hdr.total - 1
    BY <2>1, Taken, OwnedRange
  <2>5. ASSUME NEW f \in Files, NEW i \in DOMAIN ext'[f]
        PROVE  \/ i \in DOMAIN ext[f] /\ ext'[f][i] = ext[f][i] /\ ext'[f][i] \in Owned
               \/ f = op.f /\ i = Len(ext[op.f]) + 1 /\ ext'[f][i] = op.cur
    <3>1. CASE f = op.f /\ i = Len(ext[op.f]) + 1
      BY <2>1, <3>1, TakenList
    <3>2. CASE f = op.f /\ i # Len(ext[op.f]) + 1
      <4>1. i \in DOMAIN ext[op.f]
        BY <2>2, <2>3, <2>5, <3>2
      <4>2. QED
        BY <2>1, <2>2, <3>2, <4>1, TakenList, OwnedBlock
    <3>3. CASE f # op.f
      BY <2>1, <2>5, <3>3, TakenList, OwnedBlock
    <3>4. QED
      BY <3>1, <3>2, <3>3
  <2>6. ASSUME NEW f \in Files, NEW g \in Files, NEW i \in DOMAIN ext'[f],
               NEW j \in DOMAIN ext'[g], ext'[f][i] = ext'[g][j]
        PROVE  f = g /\ i = j
    <3>1. CASE ext'[f][i] = op.cur
      BY <2>4, <2>5, <2>6, <3>1
    <3>2. CASE ext'[f][i] # op.cur
      BY <2>5, <2>6, <3>2, SharingFacts
    <3>3. QED
      BY <3>1, <3>2
  <2>7. Owned' \subseteq Owned \cup {op.cur}
    BY <2>5, OwnedBlock
  <2>8. hdr'.total = hdr.total /\ hdr.total \in Nat
    BY <2>1, Taken, Facts
  <2>9. \A b \in Owned' : b \in Nat \ {0} /\ b < hdr.total - 1
    BY <2>4, <2>7, OwnedRange
  <2>10. Owned' \cap (Reserved' \cup {b \in Owned' : b >= hdr'.total}) = {}
    BY <2>8, <2>9 DEF Reserved
  <2>11. QED
    BY <2>6, <2>10 DEF NoSharing
<1>5. Shrink => NoSharing'
  <2>1. SUFFICES ASSUME Shrink PROVE NoSharing'
    OBVIOUS
  <2>2. op.f \in Files /\ DOMAIN ext[op.f] = 1 .. Len(ext[op.f]) /\ Len(ext[op.f]) \in Nat
    BY <2>1, Shrunk, OpFacts, Facts
  <2>3. DOMAIN ext'[op.f] = 1 .. Need
    BY <2>1, <2>2, Shrunk
  <2>4. ASSUME NEW f \in Files, NEW i \in DOMAIN ext'[f]
        PROVE  i \in DOMAIN ext[f] /\ ext'[f][i] = ext[f][i] /\ ext'[f][i] \in Owned
    <3>1. CASE f = op.f
      <4>1. i \in DOMAIN ext[op.f]
        <5>1. i \in 1 .. Need
          BY <2>3, <2>4, <3>1
        <5>2. Need \in Nat /\ Need < Len(ext[op.f])
          BY <2>1, Shrunk
        <5>3. QED
          BY <2>2, <5>1, <5>2
      <4>2. QED
        BY <2>1, <2>2, <2>3, <2>4, <3>1, <4>1, Shrunk, OwnedBlock
    <3>2. CASE f # op.f
      BY <2>1, <2>4, <3>2, Shrunk, OwnedBlock
    <3>3. QED
      BY <3>1, <3>2
  <2>5. Owned' \subseteq Owned
    BY <2>4, OwnedBlock
  <2>6. hdr'.total = hdr.total /\ hdr.total \in Nat
    BY <2>1, Shrunk, Facts
  <2>7. \A f, g \in Files : \A i \in DOMAIN ext'[f], j \in DOMAIN ext'[g] :
          ext'[f][i] = ext'[g][j] => f = g /\ i = j
    BY <2>4, SharingFacts
  <2>8. \A b \in Owned' : b \in Nat \ {0} /\ b < hdr.total - 1
    BY <2>5, OwnedRange
  <2>9. QED
    BY <2>6, <2>7, <2>8 DEF NoSharing, Reserved
<1>6. Enlarge => NoSharing'
  <2>1. SUFFICES ASSUME Enlarge PROVE NoSharing'
    OBVIOUS
  <2>2. ext' = ext /\ (hdr'.total = hdr.total \/ hdr'.total = op.total)
        /\ op.total > hdr.total /\ op.total \in Nat /\ hdr.total \in Nat
    BY <2>1, Enlarged, OpFacts, Facts
  <2>3. Owned' = Owned
    BY <2>2 DEF Owned
  <2>4. \A b \in Owned' : b \in Nat \ {0} /\ b < hdr'.total - 1
    BY <2>2, <2>3, OwnedRange
  <2>5. Owned' \cap (Reserved' \cup {b \in Owned' : b >= hdr'.total}) = {}
    BY <2>2, <2>4 DEF Reserved
  <2>6. QED
    BY <2>2, <2>5 DEF NoSharing
<1>7. QED
  BY <1>2, <1>3, <1>4, <1>5, <1>6, QuietSteps

(* The tail of a list: its blocks, which are in no other list and not in   *)
(* the rest of their own.                                                  *)
LEMMA TailBlock ==
  ASSUME AllocInv, Shrink, NEW b
  PROVE  /\ b \in TailAfter(ext[op.f], Need) <=>
              \E i \in Need + 1 .. Len(ext[op.f]) : ext[op.f][i] = b
         /\ b \in TailAfter(ext[op.f], Need) => b \in Owned
         /\ b \in Owned' <=> b \in Owned /\ b \notin TailAfter(ext[op.f], Need)
<1>1. op.f \in Files /\ DOMAIN ext[op.f] = 1 .. Len(ext[op.f]) /\ Len(ext[op.f]) \in Nat
      /\ Need \in Nat /\ Need < Len(ext[op.f])
  BY Shrunk, OpFacts, Facts DEF AllocInv
<1>2. b \in TailAfter(ext[op.f], Need) <=>
              \E i \in Need + 1 .. Len(ext[op.f]) : ext[op.f][i] = b
  <2>1. {j \in DOMAIN ext[op.f] : j > Need} = Need + 1 .. Len(ext[op.f])
    BY <1>1
  <2>2. QED
    BY <2>1 DEF TailAfter
<1>3. b \in TailAfter(ext[op.f], Need) => b \in Owned
  BY <1>1, <1>2, OwnedBlock
<1>4. DOMAIN ext'[op.f] = 1 .. Need
  BY <1>1, Shrunk
<1>5. ASSUME b \in Owned' PROVE b \in Owned /\ b \notin TailAfter(ext[op.f], Need)
  <2>0. PICK f \in Files : \E i \in DOMAIN ext'[f] : ext'[f][i] = b
    BY <1>5, OwnedBlock
  <2>1. PICK i \in DOMAIN ext'[f] : ext'[f][i] = b
    BY <2>0
  <2>2. i \in DOMAIN ext[f] /\ ext[f][i] = b /\ ~(f = op.f /\ i > Need)
    <3>1. CASE f = op.f
      <4>1. i \in 1 .. Need
        BY <1>4, <2>1, <3>1
      <4>2. ext[op.f][i] = b
        BY <2>1, <3>1, <4>1, Shrunk
      <4>3. QED
        BY <1>1, <3>1, <4>1, <4>2
    <3>2. CASE f # op.f
      BY <2>1, <3>2, Shrunk
    <3>3. QED
      BY <3>1, <3>2
  <2>3. ASSUME NEW j \in Need + 1 .. Len(ext[op.f]), ext[op.f][j] = b PROVE FALSE
    <3>1. j \in DOMAIN ext[op.f] /\ j > Need
      BY <1>1, <2>3
    <3>2. f = op.f /\ i = j
      BY <1>1, <2>2, <2>3, <3>1, SharingFacts
    <3>3. QED
      BY <2>2, <3>1, <3>2
  <2>4. QED
    BY <1>2, <2>2, <2>3, OwnedBlock
<1>6. ASSUME b \in Owned, b \notin TailAfter(ext[op.f], Need) PROVE b \in Owned'
  <2>0. PICK f \in Files : \E i \in DOMAIN ext[f] : ext[f][i] = b
    BY <1>6, OwnedBlock
  <2>1. PICK i \in DOMAIN ext[f] : ext[f][i] = b
    BY <2>0
  <2>2. i \in DOMAIN ext'[f] /\ ext'[f][i] = b
    <3>1. CASE f = op.f
      <4>1. i \in 1 .. Need
        BY <1>1, <1>2, <1>6, <2>1, <3>1
      <4>2. QED
        BY <1>4, <2>1, <3>1, <4>1, Shrunk
    <3>2. CASE f # op.f
      BY <2>1, <3>2, Shrunk
    <3>3. QED
      BY <3>1, <3>2
  <2>3. QED
    BY <2>2, OwnedBlock
<1>7. QED
  BY <1>2, <1>3, <1>5, <1>6

(* A program that has stopped does not go on.                              *)
LEMMA StaysStopped ==
  ASSUME Next, Stopped PROVE Stopped'
<1>1. at \in {"exited", "panic", "adrift"}
  BY DEF Stopped
<1>2. UNCHANGED at
  BY <1>1 DEF Next, Caller, Step, Over, vars, Open, Close, SetSize, GrowTree, WriteFile,
     GrowVolume, Refuse, BeginGrow, Skip, Take, Shrink, Keep, SaveExtents,
     SaveAlternate, SavePrimary, SaveCatalog, WriteData, Enlarge, Reserve, Mark
<1>3. QED
  BY <1>2 DEF Stopped

LEMMA MarkStep ==
  ASSUME AllocInv, FewExtents, FewExtents', Next
  PROVE  MarkInv'
<1> USE DEF AllocInv
<1>1. ASSUME UNCHANGED <<ext, used, wild>>, hdr'.total = hdr.total, Grown' <=> Grown,
             ~Stopped \/ Stopped'
      PROVE  MarkInv'
  BY <1>1 DEF MarkInv, Owned
<1>2. Quiet => MarkInv'
  <2>1. SUFFICES ASSUME Quiet PROVE MarkInv'
    OBVIOUS
  <2>2. Stopped => Stopped'
    BY StaysStopped
  <2>3. QED
    BY <1>1, <2>1, <2>2 DEF Quiet
<1>3. BeginGrow => MarkInv'
  <2>1. SUFFICES ASSUME BeginGrow PROVE MarkInv'
    OBVIOUS
  <2>2. op # NoOp /\ op' # NoOp
    BY <2>1, Begun, CallRuns
  <2>3. UNCHANGED <<ext, used, wild>> /\ hdr' = hdr /\ (Grown' <=> Grown) /\ ~Stopped
    BY <2>1, <2>2, Begun DEF Grown, Stopped, disk
  <2>4. QED
    BY <1>1, <2>3
<1>4. Keep => MarkInv'
  <2>1. Keep => UNCHANGED <<ext, used, wild, hdr>> /\ (Grown' <=> Grown) /\ ~Stopped
    BY DEF Keep, Grown, Stopped, disk
  <2>2. QED
    BY <1>1, <2>1
<1>5. Skip => MarkInv'
  <2>1. SUFFICES ASSUME Skip PROVE MarkInv'
    OBVIOUS
  <2>2. op # NoOp /\ op' # NoOp
    BY <2>1, Skipped, CallRuns
  <2>3. UNCHANGED <<ext, used, wild>> /\ hdr'.total = hdr.total /\ (Grown' <=> Grown) /\ ~Stopped
    BY <2>1, <2>2, Skipped DEF Grown, Stopped, disk
  <2>4. QED
    BY <1>1, <2>3
<1>6. SaveExtents => MarkInv'
  <2>1. SaveExtents => UNCHANGED <<ext, used, wild, hdr>> /\ (Grown' <=> Grown) /\ ~Stopped
    BY Saved DEF Grown, Stopped
  <2>2. QED
    BY <1>1, <2>1
<1>7. Take => MarkInv'
  <2>1. SUFFICES ASSUME Take PROVE MarkInv'
    OBVIOUS
  <2>2. op # NoOp /\ op' # NoOp /\ op.f \in Files
    BY <2>1, Taken, OpFacts, CallRuns
  <2>3. /\ hdr'.total = hdr.total /\ (Grown' <=> Grown) /\ ~Stopped
        /\ used' = used \cup {op.cur} /\ wild' = wild
    BY <2>1, <2>2, Taken DEF Grown, Stopped
  <2>4. Owned' = Owned \cup {op.cur}
    <3>1. DOMAIN ext'[op.f] = 1 .. Len(ext[op.f]) + 1 /\ Len(ext[op.f]) \in Nat
          /\ DOMAIN ext[op.f] = 1 .. Len(ext[op.f])
      BY <2>1, <2>2, TakenList, Facts
    <3>2. ASSUME NEW b \in Owned' PROVE b \in Owned \cup {op.cur}
      <4>0. PICK f \in Files : \E i \in DOMAIN ext'[f] : ext'[f][i] = b
        BY OwnedBlock
      <4>1. PICK i \in DOMAIN ext'[f] : ext'[f][i] = b
        BY <4>0
      <4>2. CASE f = op.f /\ i = Len(ext[op.f]) + 1
        BY <2>1, <4>1, <4>2, TakenList
      <4>3. CASE f = op.f /\ i # Len(ext[op.f]) + 1
        <5>1. i \in DOMAIN ext[op.f]
          BY <3>1, <4>1, <4>3
        <5>2. QED
          BY <2>1, <2>2, <4>1, <4>3, <5>1, TakenList, OwnedBlock
      <4>4. CASE f # op.f
        BY <2>1, <4>1, <4>4, TakenList, OwnedBlock
      <4>5. QED
        BY <4>2, <4>3, <4>4
    <3>3. ASSUME NEW b \in Owned PROVE b \in Owned'
      <4>0. PICK f \in Files : \E i \in DOMAIN ext[f] : ext[f][i] = b
        BY OwnedBlock
      <4>1. PICK i \in DOMAIN ext[f] : ext[f][i] = b
        BY <4>0
      <4>2. i \in DOMAIN ext'[f] /\ ext'[f][i] = b
        <5>1. CASE f = op.f
          <6>1. i \in DOMAIN ext[op.f] /\ ext[op.f][i] = b
            BY <4>1, <5>1
          <6>2. i \in DOMAIN ext'[op.f]
            BY <3>1, <6>1
          <6>3. QED
            BY <2>1, <5>1, <6>1, <6>2, TakenList
        <5>2. CASE f # op.f
          BY <2>1, <4>1, <5>2, TakenList
        <5>3. QED
          BY <5>1, <5>2
      <4>3. QED
        BY <4>2, OwnedBlock
    <3>4. op.cur \in Owned'
      <4>1. Len(ext[op.f]) + 1 \in DOMAIN ext'[op.f] /\ ext'[op.f][Len(ext[op.f]) + 1] = op.cur
        BY <2>1, <3>1, TakenList
      <4>2. QED
        BY <2>2, <4>1, OwnedBlock
    <3>5. QED
      BY <3>2, <3>3, <3>4
  <2>5. QED
    BY <2>3, <2>4 DEF MarkInv
<1>8. Shrink => MarkInv'
  <2>1. SUFFICES ASSUME Shrink PROVE MarkInv'
    OBVIOUS
  <2>2. /\ hdr'.total = hdr.total /\ (Grown' <=> Grown) /\ ~Stopped /\ wild' = wild
        /\ used' = used \ TailAfter(ext[op.f], Need)
    BY <2>1, Shrunk DEF Grown, Stopped
  <2>3. /\ \A b \in TailAfter(ext[op.f], Need) : b # 0 /\ b < hdr.total - 1
        /\ hdr.total \in Nat
    BY <2>1, TailBlock, OwnedRange, Facts
  <2>4. Owned' = Owned \ TailAfter(ext[op.f], Need)
    BY <2>1, TailBlock
  <2>5. hdr.total - 1 \notin TailAfter(ext[op.f], Need) /\ 0 \notin TailAfter(ext[op.f], Need)
    BY <2>3
  <2>6. QED
    BY <2>2, <2>4, <2>5 DEF MarkInv
<1>9. Enlarge => MarkInv'
  <2>1. SUFFICES ASSUME Enlarge PROVE MarkInv'
    OBVIOUS
  <2>2. ~Grown /\ (Grown' \/ Stopped') /\ Owned' = Owned /\ wild' = wild
    BY <2>1, Enlarged, OpFacts DEF Grown, Stopped, Owned
  <2>3. Owned' \cup {0} \subseteq used'
    <3>1. \A b \in Owned : b \in used /\ b < hdr.total - 1
      BY OwnedRange
    <3>2. 0 \in used /\ 0 < hdr.total - 1
      BY Facts DEF MarkInv, MapInv
    <3>3. QED
      BY <2>1, <2>2, <3>1, <3>2, Enlarged
  <2>4. ~wild => used' \subseteq Owned \cup {0}
    BY <2>1, <2>2, Enlarged DEF MarkInv
  <2>5. QED
    BY <2>2, <2>3, <2>4 DEF MarkInv
<1>10. Mark => MarkInv'
  <2>1. SUFFICES ASSUME Mark PROVE MarkInv'
    OBVIOUS
  <2>2. Grown /\ ~Grown' /\ Owned' = Owned /\ hdr' = hdr /\ hdr'.total - 1 \in used'
    BY <2>1, Marked DEF Grown, Owned
  <2>3. used \subseteq used' /\ (~wild' => ~wild /\ used' = used \cup {hdr.total - 1})
    BY <2>1, Marked
  <2>4. QED
    BY <2>2, <2>3 DEF MarkInv
<1>11. QED
  BY <1>2, <1>3, <1>4, <1>5, <1>6, <1>7, <1>8, <1>9, <1>10, QuietSteps

-----------------------------------------------------------------------------
(* Every step keeps GrowInv.                                               *)

(* What GrowInv says of a block b.                                         *)
Stepping(b) ==
  /\ b \in 1 .. hdr.total - 2 /\ b \notin used /\ Mapped(b)
  /\ at # "loop" => hdr.next <= b /\ \A i \in DOMAIN ext[MapFile] : ext[MapFile][i] < b
  /\ at = "loop" => op.cur = b \/ (op.cur < b /\ hdr.next <= b)
  /\ at # "reserve" /\ op.blind => ByteOf(b) < ByteOf(hdr.total - 1)

(* A growing bitmap takes one block at most, for it needs no more than two *)
(* and has one.                                                            *)
LEMMA OneBlock ==
  ASSUME AllocInv, Take, op.f = MapFile
  PROVE  at' = "extents"
<1> USE DEF AllocInv
<1>1. op \in OpType /\ op.size \in Nat /\ op.size <= 2 * BlockUnits /\ op.left \in Nat
  BY Taken, OpFacts DEF ControlInv
<1>2. Need \in Nat /\ Need <= 2
  BY <1>1, BlocksBound DEF Need
<1>3. Have \in Nat /\ Have >= 1
  <2>1. fork[MapFile].size \in Nat /\ fork[MapFile].size >= 1
        /\ fork[MapFile].total = Blocks(fork[MapFile].size)
    BY NotFiles, Facts DEF MapInv, ShapeInv
  <2>2. QED
    BY <2>1, BlocksBound DEF Have
<1>4. Len(ext[MapFile]) + op.left = Need /\ Len(ext[MapFile]) >= Have
      /\ Len(ext[MapFile]) \in Nat
  BY Taken, NotFiles, Facts DEF ShapeInv
<1>5. op.left = 1
  BY <1>1, <1>2, <1>3, <1>4, Taken
<1>6. QED
  BY <1>5, Taken

LEMMA GrowStep ==
  ASSUME AllocInv, FewExtents, FewExtents', Next
  PROVE  GrowInv'
<1> USE DEF AllocInv
<1>1. MapFile \in Files /\ hdr.total \in Nat /\ used \subseteq Nat
      /\ \A b \in used : ByteOf(b) \in Nat
  BY NotFiles, Facts, Bytes DEF TypeOK
<1>2. ASSUME Grown' => at' \notin {"reserve", "start", "loop"},
             op' # NoOp => op'.then # "mark"
      PROVE  GrowInv'
  BY <1>2 DEF GrowInv
<1>3. ASSUME Grown' /\ at' \in {"reserve", "start", "loop"} =>
               \E b \in Nat : Stepping(b)',
             op' # NoOp /\ op'.then = "mark" /\ op'.blind =>
               \A b \in used' : ByteOf(b) < ByteOf(hdr'.total - 1)
      PROVE  GrowInv'
  BY <1>3 DEF GrowInv, Stepping
<1>4. ASSUME Grown, at \in {"reserve", "start", "loop"}
      PROVE  \E b \in Nat : Stepping(b)
  BY <1>1, <1>4 DEF GrowInv, Stepping
<1>5. at = "idle" => op = NoOp /\ ~Grown
  BY DEF ControlInv, Grown
<1>6. op # NoOp => op \in OpType
  BY DEF ControlInv
<1>7. Quiet /\ ~Reserve => GrowInv'
  <2>1. SUFFICES ASSUME Quiet, ~Reserve PROVE GrowInv'
    OBVIOUS
  <2>2. ASSUME ~Grown PROVE GrowInv'
    BY <1>2, <2>1, <2>2 DEF Quiet, Grown
  <2>3. ASSUME Grown PROVE GrowInv'
    <3>1. at # "idle"
      BY <1>5, <2>3
    <3>2. CASE at \in {"start", "loop", "reserve", "mark", "extents", "enlarge"}
      <4>1. Refuse
        <5>1. ~Caller
          BY <3>1 DEF Caller, Open, Close, SetSize, GrowTree, WriteFile, GrowVolume
        <5>2. ~Over
          BY <3>2 DEF Over, Stopped
        <5>3. ~SaveExtents /\ ~SaveAlternate /\ ~SavePrimary /\ ~SaveCatalog /\ ~WriteData
          BY <2>1, <3>2 DEF Quiet, SaveExtents, SaveAlternate, SavePrimary, SaveCatalog, WriteData
        <5>4. ~BeginGrow /\ ~Skip /\ ~Take /\ ~Shrink /\ ~Keep
          BY <2>1 DEF Quiet, BeginGrow, Skip, Take, Shrink, Keep
        <5>5. ~Enlarge
          BY <2>3, Enlarged, OpFacts DEF Grown
        <5>6. ~Mark
          BY <2>1, <2>3, Marked, OpFacts DEF Quiet, Grown
        <5>7. QED
          BY <2>1, <5>1, <5>2, <5>3, <5>4, <5>5, <5>6 DEF Next, Step
      <4>2. at = "start" /\ op \in OpType /\ op.then = "mark"
        BY <2>3, <4>1, OpFacts DEF Refuse, ControlInv, Working, Grown
      <4>3. at' = "exited" /\ op' = op /\ UNCHANGED <<hdr, used>>
        BY <4>1, <4>2 DEF Refuse, disk
      <4>4. QED
        BY <4>3 DEF GrowInv
    <3>3. CASE at \notin {"start", "loop", "reserve", "mark", "extents", "enlarge"}
      <4>1. (SaveAlternate \/ SavePrimary \/ SaveCatalog \/ WriteData \/ Over)
        BY <2>1, <3>1, <3>3 DEF Next, Caller, Step, Open, Close, SetSize, GrowTree, WriteFile,
           GrowVolume, Refuse, BeginGrow, Skip, Take, Shrink, Keep, SaveExtents, Enlarge,
           Reserve, Mark
      <4>2. op' = op \/ op' = NoOp
        BY <4>1 DEF SaveAlternate, SavePrimary, SaveCatalog, WriteData, Over, Return, vars
      <4>3. at' \notin {"reserve", "start", "loop"}
        <5>1. SaveAlternate \/ WriteData \/ Over => at' \notin {"reserve", "start", "loop"}
          BY <3>3 DEF SaveAlternate, WriteData, Over, vars, Stopped
        <5>2. SavePrimary \/ SaveCatalog => at' \notin {"reserve", "start", "loop"}
          BY OpFacts DEF SavePrimary, SaveCatalog, Return, ControlInv, Working
        <5>3. QED
          BY <4>1, <5>1, <5>2
      <4>4. UNCHANGED <<used, hdr>>
        BY <2>1 DEF Quiet
      <4>5. QED
        BY <4>2, <4>3, <4>4 DEF GrowInv
    <3>4. QED
      BY <3>2, <3>3
  <2>4. QED
    BY <2>2, <2>3
<1>8. Reserve => GrowInv'
  <2>1. SUFFICES ASSUME Reserve PROVE GrowInv'
    OBVIOUS
  <2>2. at = "reserve" /\ UNCHANGED <<hdr, ext, used>> /\ at' \in {"start", "mark"}
        /\ op'.blind = ~Mapped(hdr.total - 1)
    BY <2>1, ReserveCalled DEF disk
  <2>3. hdr.total - 1 \in Nat /\ ByteOf(hdr.total - 1) \in Nat
    <3>1. hdr.total - 1 \in Nat
      BY <1>1 DEF MapInv
    <3>2. QED
      BY <3>1, Bytes
  <2>4. Len(ext[MapFile]) * BlockUnits \in Nat
    BY <1>1, Facts, UnitsAssumption
  <2>5. ASSUME NEW b \in Nat, Mapped(b), ~Mapped(hdr.total - 1)
        PROVE  ByteOf(b) < ByteOf(hdr.total - 1)
    <3>1. ByteOf(b) \in Nat
      BY <2>5, Bytes
    <3>2. /\ ByteOf(b) < Len(ext[MapFile]) * BlockUnits
          /\ ~(ByteOf(hdr.total - 1) < Len(ext[MapFile]) * BlockUnits)
      BY <2>5 DEF Mapped
    <3>3. QED
      BY <2>3, <2>4, <3>1, <3>2
  <2>6. PICK b \in Nat : Stepping(b)
    BY <1>4, <2>2 DEF Grown
  <2>7. Stepping(b)'
    BY <2>2, <2>5, <2>6 DEF Stepping, Mapped
  <2>8. op'.blind => \A c \in used' : ByteOf(c) < ByteOf(hdr'.total - 1)
    BY <1>1, <2>2, <2>5 DEF MapInv
  <2>9. QED
    BY <1>3, <2>7, <2>8
<1>9. BeginGrow => GrowInv'
  <2>1. SUFFICES ASSUME BeginGrow PROVE GrowInv'
    OBVIOUS
  <2>2. op # NoOp /\ op' # NoOp
    BY <2>1, Begun, CallRuns
  <2>3. at = "start" /\ at' = "loop" /\ UNCHANGED <<hdr, ext, used>> /\ op'.then = op.then
        /\ op'.blind = op.blind
    BY <2>1, Begun DEF disk
  <2>4. ASSUME Grown' PROVE \E b \in Nat : Stepping(b)'
    <3>1. Grown /\ op.f = MapFile
      BY <2>2, <2>3, <2>4 DEF Grown, ControlInv
    <3>2. PICK b \in Nat : Stepping(b)
      BY <1>4, <2>3, <3>1
    <3>3. op'.cur = b \/ (op'.cur < b /\ hdr.next <= b)
      <4>1. CASE ext[MapFile] = <<>>
        <5>1. op'.cur = hdr.next
          BY <2>1, <3>1, <4>1, Begun
        <5>2. hdr.next <= b
          BY <2>3, <3>2 DEF Stepping
        <5>3. QED
          BY <5>1, <5>2, Facts
      <4>2. CASE ext[MapFile] # <<>>
        <5>1. Len(ext[MapFile]) \in DOMAIN ext[MapFile] /\ Last(ext[MapFile]) \in Nat
          BY <1>1, <4>2, Facts DEF Last
        <5>2. Last(ext[MapFile]) < b /\ hdr.next <= b
          BY <2>3, <3>2, <5>1 DEF Stepping, Last
        <5>3. op'.cur = Last(ext[MapFile]) + 1
          BY <2>1, <3>1, <4>2, Begun
        <5>4. QED
          BY <5>1, <5>2, <5>3
      <4>3. QED
        BY <4>1, <4>2
    <3>4. Stepping(b)'
      BY <2>3, <3>2, <3>3 DEF Stepping, Mapped
    <3>5. QED
      BY <3>4
  <2>5. op'.then = "mark" /\ op'.blind => \A b \in used' : ByteOf(b) < ByteOf(hdr'.total - 1)
    BY <2>2, <2>3 DEF GrowInv
  <2>6. QED
    BY <1>3, <2>4, <2>5
<1>10. Skip => GrowInv'
  <2>1. SUFFICES ASSUME Skip PROVE GrowInv'
    OBVIOUS
  <2>2. op # NoOp /\ op' # NoOp
    BY <2>1, Skipped, CallRuns
  <2>3. at = "loop" /\ at' = "loop" /\ UNCHANGED <<ext, used>> /\ op'.then = op.then
        /\ op'.blind = op.blind /\ hdr'.total = hdr.total /\ hdr'.next = NextAllocation
        /\ op'.cur = hdr.next /\ op.cur \in used
    BY <2>1, Skipped DEF disk
  <2>4. ASSUME Grown' PROVE \E b \in Nat : Stepping(b)'
    <3>1. Grown
      BY <2>2, <2>3, <2>4 DEF Grown
    <3>2. PICK b \in Nat : Stepping(b)
      BY <1>4, <2>3, <3>1
    <3>3. hdr.next <= b
      BY <2>3, <3>2 DEF Stepping
    <3>4. hdr.next < b => NextAllocation <= b
      BY <2>1, <3>2, <3>3, Facts, Skipped DEF Stepping
    <3>5. op'.cur = b \/ (op'.cur < b /\ hdr'.next <= b)
      BY <2>3, <3>2, <3>3, <3>4, Facts
    <3>6. Stepping(b)'
      BY <2>3, <3>2, <3>5 DEF Stepping, Mapped
    <3>7. QED
      BY <3>6
  <2>5. op'.then = "mark" /\ op'.blind => \A b \in used' : ByteOf(b) < ByteOf(hdr'.total - 1)
    BY <2>2, <2>3 DEF GrowInv
  <2>6. QED
    BY <1>3, <2>4, <2>5
<1>11. Take => GrowInv'
  <2>1. SUFFICES ASSUME Take PROVE GrowInv'
    OBVIOUS
  <2>2. op # NoOp /\ op' # NoOp /\ op'.then = op.then /\ op'.blind = op.blind /\ at = "loop"
        /\ hdr'.total = hdr.total /\ op.cur \in Nat /\ at' \in {"loop", "extents"}
    <3>1. op # NoOp /\ op' # NoOp
      BY <2>1, Taken, CallRuns
    <3>2. QED
      BY <2>1, <3>1, Taken
  <2>3. ASSUME Grown' PROVE at' \notin {"reserve", "start", "loop"}
    <3>1. op.then = "mark"
      BY <2>2, <2>3 DEF Grown
    <3>2. op.f = MapFile
      BY <2>2, <3>1 DEF ControlInv
    <3>3. QED
      BY <2>1, <3>2, OneBlock
  <2>4. ASSUME op'.then = "mark", op'.blind
        PROVE  \A b \in used' : ByteOf(b) < ByteOf(hdr'.total - 1)
    <3>1. PICK b \in Nat : Stepping(b)
      BY <1>4, <2>2, <2>4 DEF Grown
    <3>2. op.cur <= b /\ ByteOf(b) < ByteOf(hdr.total - 1)
      BY <2>2, <2>4, <3>1 DEF Stepping
    <3>3. ByteOf(op.cur) <= ByteOf(b) /\ ByteOf(op.cur) \in Nat /\ ByteOf(b) \in Nat
      BY <2>2, <3>2, Bytes
    <3>4. ByteOf(hdr.total - 1) \in Nat
      <4>1. hdr.total - 1 \in Nat
        BY <1>1 DEF MapInv
      <4>2. QED
        BY <4>1, Bytes
    <3>5. ByteOf(op.cur) < ByteOf(hdr.total - 1)
      BY <3>2, <3>3, <3>4
    <3>6. \A c \in used : ByteOf(c) < ByteOf(hdr.total - 1)
      BY <2>2, <2>4 DEF GrowInv
    <3>7. QED
      BY <2>1, <2>2, <3>5, <3>6, Taken
  <2>5. QED
    BY <1>3, <2>3, <2>4
<1>12. SaveExtents \/ Keep => GrowInv'
  <2>1. SUFFICES ASSUME SaveExtents \/ Keep PROVE GrowInv'
    OBVIOUS
  <2>2. at' \in {"alternate", "extents"} /\ UNCHANGED <<hdr, used, op>>
    BY <2>1, Saved DEF Keep, disk
  <2>3. QED
    BY <2>2 DEF GrowInv
<1>13. Shrink => GrowInv'
  <2>1. SUFFICES ASSUME Shrink PROVE GrowInv'
    OBVIOUS
  <2>2. at' = "extents" /\ op' = op /\ used' \subseteq used /\ hdr'.total = hdr.total
    BY <2>1, Shrunk
  <2>3. QED
    BY <2>2 DEF GrowInv
<1>14. Enlarge => GrowInv'
  <2>1. SUFFICES ASSUME Enlarge PROVE GrowInv'
    OBVIOUS
  <2>2. at = "enlarge" /\ op' = op /\ op \in OpType /\ op.then = "enlarge" /\ ext' = ext
    BY <2>1, Enlarged
  <2>3. ~Grown
    BY <2>2, OpFacts DEF Grown
  <2>4. CASE at' = "exited"
    BY <1>2, <2>2, <2>4
  <2>5. CASE at' = "reserve"
    <3>1. PICK b \in Nat : b = hdr.total - 1
      BY <1>1 DEF MapInv
    <3>2. hdr'.total = op.total /\ hdr'.next = hdr.next /\ op.total > hdr.total /\ op.total \in Nat
          /\ b \notin used'
      BY <2>1, <2>5, <3>1, Enlarged, OpFacts
    <3>3. b \in 1 .. hdr'.total - 2
      BY <1>1, <3>1, <3>2 DEF MapInv
    <3>4. Mapped(b)
      BY <2>2, <2>3, <3>1 DEF MarkInv, MapInv, Stopped
    <3>5. hdr.next <= b
      BY <3>1, Facts
    <3>6. \A i \in DOMAIN ext[MapFile] : ext[MapFile][i] < b
      BY <1>1, <3>1, OwnedBlock, OwnedRange
    <3>7. Stepping(b)'
      BY <2>2, <2>5, <3>2, <3>3, <3>4, <3>5, <3>6 DEF Stepping, Mapped
    <3>8. QED
      BY <1>3, <2>2, <3>7
  <2>6. QED
    BY <2>1, <2>4, <2>5, Enlarged
<1>15. Mark => GrowInv'
  <2>1. Mark => op'.then = "return" /\ at' = "alternate"
    BY Marked
  <2>2. QED
    BY <1>2, <2>1
<1>16. QED
  BY <1>7, <1>8, <1>9, <1>10, <1>11, <1>12, <1>13, <1>14, <1>15, QuietSteps

-----------------------------------------------------------------------------
(* Every step keeps FreeCount.                                             *)

Clear == {b \in 0 .. hdr.total - 1 : b \notin used}

(* The tail of a list has as many blocks as it has places.                 *)
LEMMA TailSize ==
  ASSUME AllocInv, Shrink
  PROVE  /\ IsFiniteSet(TailAfter(ext[op.f], Need))
         /\ Cardinality(TailAfter(ext[op.f], Need)) = Len(ext[op.f]) - Need
<1>1. op.f \in Files /\ DOMAIN ext[op.f] = 1 .. Len(ext[op.f]) /\ Len(ext[op.f]) \in Nat
      /\ Need \in Nat /\ Need < Len(ext[op.f])
  BY Shrunk, OpFacts, Facts DEF AllocInv
<1> DEFINE tail == TailAfter(ext[op.f], Need)
           S    == Need + 1 .. Len(ext[op.f])
           F    == [i \in S |-> ext[op.f][i]]
<1>2. \A b : b \in tail <=> \E i \in S : ext[op.f][i] = b
  BY TailBlock
<1> HIDE DEF tail
<1>3. S \subseteq DOMAIN ext[op.f]
  BY <1>1
<1>4. \A i, j \in S : F[i] = F[j] => i = j
  BY <1>1, <1>3, SharingFacts
<1>5. F \in Bijection(S, tail)
  <2>1. F \in [S -> tail] /\ \A b \in tail : \E i \in S : F[i] = b
    BY <1>2
  <2>2. QED
    BY <1>4, <2>1 DEF Bijection, Injection, Surjection, IsInjective
<1>6. IsFiniteSet(S) /\ Cardinality(S) = Len(ext[op.f]) - Need
  <2>1. Need + 1 \in Int /\ Len(ext[op.f]) \in Int /\ ~(Need + 1 > Len(ext[op.f]))
    BY <1>1
  <2>2. IsFiniteSet(S) /\ Cardinality(S) = Len(ext[op.f]) - (Need + 1) + 1
    BY <2>1, FS_Interval
  <2>3. QED
    BY <1>1, <2>2
<1>7. ExistsBijection(S, tail)
  BY <1>5 DEF ExistsBijection
<1>8. QED
  BY <1>6, <1>7, FS_Bijection DEF tail

LEMMA CountStep ==
  ASSUME AllocInv, FewExtents, FewExtents', Next
  PROVE  FreeCount'
<1> USE DEF AllocInv
<1> DEFINE Extra == IF Grown THEN 1 ELSE 0
<1>1. /\ hdr.total \in Nat /\ hdr.free \in Nat /\ hdr.total >= 4 /\ wild \in BOOLEAN
      /\ used \subseteq Nat
  BY Facts DEF MapInv, TypeOK
<1>2. IsFiniteSet(Clear) /\ Cardinality(Clear) \in Nat
  <2>1. IsFiniteSet(0 .. hdr.total - 1)
    <3>1. 0 \in Int /\ hdr.total - 1 \in Int
      BY <1>1
    <3>2. QED
      BY <3>1, FS_Interval
  <2>2. Clear \in SUBSET (0 .. hdr.total - 1)
    BY DEF Clear
  <2>3. IsFiniteSet(Clear)
    BY <2>1, <2>2, FS_Subset
  <2>4. QED
    BY <2>3, FS_CardinalityType
<1>3. ~wild /\ ~Stopped => Cardinality(Clear) = hdr.free + Extra
  BY DEF FreeCount, Clear
<1>4. ASSUME ~wild' => ~wild, ~Stopped' => ~Stopped,
             ~wild /\ ~Stopped /\ ~wild' /\ ~Stopped' =>
               Cardinality(Clear') = hdr'.free + (IF Grown' THEN 1 ELSE 0)
      PROVE  FreeCount'
  BY <1>4 DEF FreeCount, Clear
<1>5. ASSUME UNCHANGED <<used, wild>>, hdr'.total = hdr.total, hdr'.free = hdr.free,
             Grown' <=> Grown, ~Stopped \/ Stopped'
      PROVE  FreeCount'
  <2>1. Clear' = Clear
    BY <1>5 DEF Clear
  <2>2. QED
    BY <1>3, <1>4, <1>5, <2>1
<1>6. Quiet => FreeCount'
  <2>1. SUFFICES ASSUME Quiet PROVE FreeCount'
    OBVIOUS
  <2>2. Stopped => Stopped'
    BY StaysStopped
  <2>3. QED
    BY <1>5, <2>1, <2>2 DEF Quiet
<1>7. BeginGrow => FreeCount'
  <2>1. SUFFICES ASSUME BeginGrow PROVE FreeCount'
    OBVIOUS
  <2>2. op # NoOp /\ op' # NoOp
    BY <2>1, Begun, CallRuns
  <2>3. UNCHANGED <<used, wild>> /\ hdr' = hdr /\ (Grown' <=> Grown) /\ ~Stopped
    BY <2>1, <2>2, Begun DEF Grown, Stopped, disk
  <2>4. QED
    BY <1>5, <2>3
<1>8. Keep \/ SaveExtents => FreeCount'
  <2>1. Keep \/ SaveExtents => UNCHANGED <<used, wild, hdr>> /\ (Grown' <=> Grown) /\ ~Stopped
    BY Saved DEF Keep, Grown, Stopped, disk
  <2>2. QED
    BY <1>5, <2>1
<1>9. Skip => FreeCount'
  <2>1. SUFFICES ASSUME Skip PROVE FreeCount'
    OBVIOUS
  <2>2. op # NoOp /\ op' # NoOp
    BY <2>1, Skipped, CallRuns
  <2>3. UNCHANGED <<used, wild>> /\ hdr'.total = hdr.total /\ hdr'.free = hdr.free
        /\ (Grown' <=> Grown) /\ ~Stopped
    BY <2>1, <2>2, Skipped DEF Grown, Stopped, disk
  <2>4. QED
    BY <1>5, <2>3
<1>10. Take => FreeCount'
  <2>1. SUFFICES ASSUME Take PROVE FreeCount'
    OBVIOUS
  <2>2. op # NoOp /\ op' # NoOp
    BY <2>1, Taken, CallRuns
  <2>3. /\ hdr'.total = hdr.total /\ hdr'.free = hdr.free - 1 /\ (Grown' <=> Grown)
        /\ ~Stopped /\ wild' = wild /\ used' = used \cup {op.cur}
    BY <2>1, <2>2, Taken DEF Grown, Stopped
  <2>4. Clear' = Clear \ {op.cur} /\ op.cur \in Clear
    <3>1. op.cur \in 0 .. hdr.total - 1 /\ op.cur \notin used
      BY <1>1, <2>1, Taken
    <3>2. QED
      BY <2>3, <3>1 DEF Clear
  <2>5. Cardinality(Clear') = Cardinality(Clear) - 1
    BY <1>2, <2>4, FS_RemoveElement
  <2>6. QED
    BY <1>1, <1>2, <1>3, <1>4, <2>3, <2>5
<1>11. Shrink => FreeCount'
  <2>1. SUFFICES ASSUME Shrink PROVE FreeCount'
    OBVIOUS
  <2> DEFINE tail == TailAfter(ext[op.f], Need)
  <2>2. /\ hdr'.total = hdr.total /\ hdr'.free = hdr.free + Len(ext[op.f]) - Need
        /\ (Grown' <=> Grown) /\ ~Stopped /\ wild' = wild /\ used' = used \ tail
        /\ Len(ext[op.f]) \in Nat /\ Need \in Nat
    <3>1. op \in OpType /\ op.f \in Files
      BY <2>1, Shrunk, OpFacts
    <3>2. Len(ext[op.f]) \in Nat
      BY <3>1, Facts
    <3>3. (Grown' <=> Grown) /\ ~Stopped
      BY <2>1, Shrunk DEF Grown, Stopped
    <3>4. QED
      BY <2>1, <3>2, <3>3, Shrunk
  <2>3. IsFiniteSet(tail) /\ Cardinality(tail) = Len(ext[op.f]) - Need
    BY <2>1, TailSize
  <2>4. \A b \in tail : b \in used /\ b \in 0 .. hdr.total - 1
    BY <1>1, <2>1, TailBlock, OwnedRange
  <2> HIDE DEF tail
  <2>5. Clear' = Clear \cup tail /\ Clear \cap tail = {}
    BY <2>2, <2>4 DEF Clear
  <2>6. Cardinality(Clear') = Cardinality(Clear) + Cardinality(tail)
    <3>1. Cardinality(Clear \cup tail) =
            Cardinality(Clear) + Cardinality(tail) - Cardinality(Clear \cap tail)
      BY <1>2, <2>3, FS_Union
    <3>2. Cardinality(Clear \cap tail) = 0
      BY <2>5, FS_EmptySet
    <3>3. QED
      BY <1>2, <2>2, <2>3, <2>5, <3>1, <3>2
  <2>7. wild \/ Cardinality(Clear) = hdr.free + (IF Grown THEN 1 ELSE 0)
    BY <1>3, <2>2
  <2>8. Cardinality(Clear) \in Nat /\ hdr.free \in Nat /\ Len(ext[op.f]) \in Nat /\ Need \in Nat
    BY <1>1, <1>2, <2>2
  <2>9. wild' \/ Cardinality(Clear') = hdr'.free + (IF Grown' THEN 1 ELSE 0)
    <3>1. PICK c \in Nat, h \in Nat, l \in Nat, n \in Nat :
             c = Cardinality(Clear) /\ h = hdr.free /\ l = Len(ext[op.f]) /\ n = Need
      BY <2>8
    <3>2. hdr'.free = h + l - n /\ Cardinality(Clear') = c + (l - n)
      BY <2>2, <2>3, <2>6, <3>1
    <3>3. PICK g \in Nat : g = IF Grown THEN 1 ELSE 0
      OBVIOUS
    <3>4. g = IF Grown' THEN 1 ELSE 0
      BY <2>2, <3>3
    <3>5. wild \/ c = h + g
      BY <2>7, <3>1, <3>3
    <3>6. c = h + g => c + (l - n) = (h + l - n) + g
      OBVIOUS
    <3>7. QED
      BY <2>2, <3>2, <3>4, <3>5, <3>6
  <2>10. QED
    BY <1>4, <2>2, <2>9
<1>12. Enlarge => FreeCount'
  <2>1. SUFFICES ASSUME Enlarge PROVE FreeCount'
    OBVIOUS
  <2>2. at = "enlarge" /\ op' = op /\ op \in OpType /\ op.then = "enlarge" /\ wild' = wild
    BY <2>1, Enlarged
  <2>3. ~Grown /\ ~Stopped
    BY <2>2, OpFacts DEF Grown, Stopped
  <2>4. CASE at' = "exited"
    BY <1>4, <2>2, <2>3, <2>4 DEF Stopped
  <2>5. CASE at' = "reserve" /\ ~wild
    <3>1. /\ hdr'.total = op.total /\ op.total > hdr.total /\ op.total \in Nat
          /\ hdr'.free = hdr.free + op.total - hdr.total
      BY <2>1, <2>5, Enlarged, OpFacts
    <3>2. Grown'
      BY <2>5 DEF Grown
    <3> DEFINE new == hdr.total - 1 .. op.total - 1
    <3>3. IsFiniteSet(new) /\ Cardinality(new) = op.total - hdr.total + 1
      <4>1. hdr.total - 1 \in Int /\ op.total - 1 \in Int /\ ~(hdr.total - 1 > op.total - 1)
        BY <1>1, <3>1
      <4>2. IsFiniteSet(new) /\ Cardinality(new) = (op.total - 1) - (hdr.total - 1) + 1
        BY <4>1, FS_Interval
      <4>3. hdr.total \in Nat /\ op.total \in Nat
        BY <1>1, <3>1
      <4>4. (op.total - 1) - (hdr.total - 1) + 1 = op.total - hdr.total + 1
        BY <4>3
      <4>5. QED
        BY <4>2, <4>4
    <3>4. hdr.total - 1 \in used
      BY <2>3 DEF MarkInv
    <3>5. \A b \in used : b < hdr.total
      <4>1. used \subseteq Owned \cup {0, hdr.total - 1}
        BY <2>3, <2>5 DEF MarkInv
      <4>2. QED
        BY <1>1, <4>1, OwnedRange
    <3>6. \A b \in used' : b \in used /\ b # hdr.total - 1
      BY <2>1, Enlarged
    <3>7. \A b \in used : b < hdr.total - 1 => b \in used'
      BY <2>1, Enlarged
    <3>8. Clear' = Clear \cup new
      <4>1. ASSUME NEW b \in Clear' PROVE b \in Clear \cup new
        <5>1. b \in 0 .. op.total - 1 /\ b \notin used'
          BY <3>1 DEF Clear
        <5>2. CASE b < hdr.total - 1
          <6>1. b \notin used
            BY <3>7, <5>1, <5>2
          <6>2. QED
            BY <1>1, <3>1, <5>1, <5>2, <6>1 DEF Clear
        <5>3. CASE ~(b < hdr.total - 1)
          BY <1>1, <3>1, <5>1, <5>3
        <5>4. QED
          BY <5>2, <5>3
      <4>2. ASSUME NEW b \in Clear PROVE b \in Clear'
        BY <1>1, <3>1, <3>6 DEF Clear
      <4>3. ASSUME NEW b \in new PROVE b \in Clear'
        <5>1. b \in 0 .. op.total - 1 /\ (b = hdr.total - 1 \/ ~(b < hdr.total))
          BY <1>1, <3>1
        <5>2. b \notin used'
          BY <3>5, <3>6, <5>1
        <5>3. QED
          BY <3>1, <5>1, <5>2 DEF Clear
      <4>4. QED
        BY <4>1, <4>2, <4>3
    <3>9. Clear \cap new = {}
      <4>1. \A b \in Clear : b \in 0 .. hdr.total - 1 /\ b # hdr.total - 1
        BY <3>4 DEF Clear
      <4>2. QED
        BY <1>1, <3>1, <4>1
    <3> HIDE DEF new
    <3>10. Cardinality(Clear') = Cardinality(Clear) + Cardinality(new)
      <4>1. Cardinality(Clear \cup new) =
              Cardinality(Clear) + Cardinality(new) - Cardinality(Clear \cap new)
        BY <1>2, <3>3, FS_Union
      <4>2. Cardinality(Clear \cap new) = 0
        BY <3>9, FS_EmptySet
      <4>3. QED
        BY <1>1, <1>2, <3>1, <3>3, <3>8, <4>1, <4>2
    <3>11. Cardinality(Clear) = hdr.free
      BY <1>1, <1>3, <2>3, <2>5
    <3>12. QED
      BY <1>1, <1>4, <2>2, <2>3, <3>1, <3>2, <3>3, <3>10, <3>11
  <2>6. CASE wild
    BY <1>1, <1>4, <2>2, <2>3, <2>6
  <2>7. QED
    BY <1>1, <2>1, <2>4, <2>5, <2>6, Enlarged
<1>13. Mark => FreeCount'
  <2>1. SUFFICES ASSUME Mark PROVE FreeCount'
    OBVIOUS
  <2>2. Grown /\ ~Grown' /\ hdr' = hdr /\ ~Stopped
    BY <2>1, Marked DEF Grown, Stopped
  <2>3. ~wild' => ~wild /\ used' = used \cup {hdr.total - 1}
    BY <2>1, Marked
  <2>4. ASSUME ~wild' PROVE Cardinality(Clear') = Cardinality(Clear) - 1
    <3>1. used \subseteq Owned \cup {0}
      BY <2>2, <2>3, <2>4 DEF MarkInv
    <3>2. hdr.total - 1 \notin used
      BY <1>1, <3>1, OwnedRange
    <3>3. hdr.total - 1 \in Clear /\ Clear' = Clear \ {hdr.total - 1}
      BY <1>1, <2>2, <2>3, <2>4, <3>2 DEF Clear
    <3>4. IsFiniteSet(Clear)
      BY <1>2
    <3>5. PICK last \in Clear : last = hdr.total - 1
      BY <3>3
    <3>6. Cardinality(Clear \ {last}) = Cardinality(Clear) - 1
      <4>1. Cardinality(Clear \ {last}) =
              IF last \in Clear THEN Cardinality(Clear) - 1 ELSE Cardinality(Clear)
        BY <3>4, FS_RemoveElement
      <4>2. QED
        BY <3>5, <4>1
    <3>7. QED
      BY <3>3, <3>5, <3>6
  <2>5. QED
    BY <1>1, <1>2, <1>3, <1>4, <2>2, <2>3, <2>4
<1>14. QED
  BY <1>6, <1>7, <1>8, <1>9, <1>10, <1>11, <1>12, <1>13, QuietSteps

-----------------------------------------------------------------------------
(* Every step keeps DiskInv.                                               *)

(* What is in memory is on the disk.                                       *)
Clean == /\ \A f \in DataFiles : catalog[f] = fork[f]
         /\ \A f \in Specials : primary.forks[f] = fork[f]

LEMMA CleanFacts ==
  ASSUME AllocInv
  PROVE  at \notin {"alternate", "primary", "catalog"} => Clean
BY DEF AllocInv, DiskInv, Clean

(* If so, what is on the disk agrees with the extent lists.                *)
LEMMA CleanDisk ==
  ASSUME ShapeInv', Clean', ext' \in [Files -> Seq(Nat)], fork' \in [Files -> ForkType],
         op' # NoOp => Need' \in Nat
  PROVE  \A f \in Files :
       /\ Len(OnDisk(f)'.ext) = OnDisk(f)'.total
       /\ \A i \in DOMAIN ext'[f] : i <= OnDisk(f)'.total => ext'[f][i] = OnDisk(f)'.ext[i]
       /\ ~InWork(f)' \/ OnDisk(f)'.total <= Need' => OnDisk(f)'.total <= Len(ext'[f])
<1> SUFFICES ASSUME NEW f \in Files
             PROVE  /\ Len(OnDisk(f)'.ext) = OnDisk(f)'.total
                    /\ \A i \in DOMAIN ext'[f] :
                         i <= OnDisk(f)'.total => ext'[f][i] = OnDisk(f)'.ext[i]
                    /\ ~InWork(f)' \/ OnDisk(f)'.total <= Need' =>
                         OnDisk(f)'.total <= Len(ext'[f])
  OBVIOUS
<1>1. OnDisk(f)' = fork'[f]
  BY DEF OnDisk, Clean, Files
<1>2. Len(fork'[f].ext) = fork'[f].total /\ fork'[f].total \in Nat /\ Len(ext'[f]) \in Nat
  BY DEF ShapeInv, ForkType
<1>3. CASE InWork(f)' /\ at' \in {"loop", "extents"}
  <2>1. op' # NoOp /\ op'.f = f
    BY <1>3 DEF InWork
  <2>2. Have' = fork'[f].total
    BY <2>1 DEF Have
  <2>3. \A i \in DOMAIN ext'[f] : i <= fork'[f].total => ext'[f][i] = fork'[f].ext[i]
    BY <1>3, <2>1, <2>2 DEF ShapeInv
  <2>4. fork'[f].total <= Need' => fork'[f].total <= Len(ext'[f])
    BY <1>2, <1>3, <2>1, <2>2 DEF ShapeInv
  <2>5. QED
    BY <1>1, <1>2, <1>3, <2>3, <2>4
<1>4. CASE ~(InWork(f)' /\ at' \in {"loop", "extents"})
  <2>1. ext'[f] = fork'[f].ext
    BY <1>4 DEF ShapeInv
  <2>2. QED
    BY <1>1, <1>2, <2>1
<1>5. QED
  BY <1>3, <1>4

(* The types of what the steps change.                                     *)
LEMMA SpaceTypes ==
  ASSUME AllocInv, FewExtents, FewExtents', Next
  PROVE  /\ used' \subseteq Nat
         /\ hdr' \in [total : Nat, free : Nat, next : Nat] /\ hdr'.next < hdr'.total
         /\ fork' \in [Files -> ForkType]
         /\ ext' \in [Files -> Seq(Nat)]
         /\ wild' \in BOOLEAN
<1> USE DEF AllocInv
<1>1. /\ used \subseteq Nat /\ hdr \in [total : Nat, free : Nat, next : Nat]
      /\ hdr.next < hdr.total /\ fork \in [Files -> ForkType]
      /\ ext \in [Files -> Seq(Nat)] /\ wild \in BOOLEAN
      /\ hdr.total \in Nat /\ hdr.free \in Nat /\ hdr.next \in Nat
  BY Facts DEF TypeOK
<1>2. CASE Quiet
  BY <1>1, <1>2 DEF Quiet
<1>3. CASE BeginGrow \/ Keep
  BY <1>1, <1>3 DEF BeginGrow, Keep, disk
<1>4. CASE Skip
  <2>1. hdr' = [total |-> hdr.total, free |-> hdr.free, next |-> NextAllocation]
        /\ NextAllocation \in Nat /\ NextAllocation < hdr.total
        /\ UNCHANGED <<fork, ext, used, wild>>
    BY <1>4, Skipped DEF disk
  <2>2. QED
    BY <1>1, <2>1
<1>5. CASE Take
  <2>1. hdr.free >= 1 /\ op.cur \in Nat /\ used' = used \cup {op.cur}
        /\ hdr' = [total |-> hdr.total, free |-> hdr.free - 1, next |-> hdr.next]
        /\ UNCHANGED <<fork, wild>>
    BY <1>5, Taken
  <2>2. hdr.free - 1 \in Nat /\ used' \subseteq Nat
    <3>1. hdr.free - 1 \in Nat
      BY <1>1, <2>1
    <3>2. used' \subseteq Nat
      BY <1>1, <2>1
    <3>3. QED
      BY <3>1, <3>2
  <2>3. QED
    BY <1>1, <1>5, <2>1, <2>2, TakenList
<1>6. CASE Shrink
  <2>1. Len(ext[op.f]) \in Nat /\ Need \in Nat /\ Need < Len(ext[op.f])
    BY <1>6, Shrunk, OpFacts, Facts
  <2>2. PICK l \in Nat, n \in Nat : l = Len(ext[op.f]) /\ n = Need
    BY <2>1
  <2>3. hdr.free + l - n \in Nat
    <3>1. PICK h \in Nat : h = hdr.free
      BY <1>1
    <3>2. n < l
      BY <2>1, <2>2
    <3>3. h + l - n \in Nat
      BY <3>2
    <3>4. QED
      BY <3>1, <3>3
  <2>4. hdr' = [total |-> hdr.total, free |-> hdr.free + l - n, next |-> hdr.next]
        /\ UNCHANGED <<fork, wild>> /\ used' \subseteq used
    BY <1>6, <2>2, Shrunk
  <2>5. QED
    BY <1>1, <1>6, <2>3, <2>4, Shrunk
<1>7. CASE SaveExtents
  <2>1. op.f \in Files /\ op.size \in Nat /\ Need \in Nat /\ ext[op.f] \in Seq(Nat)
    BY <1>1, <1>7, Saved, OpFacts, BlocksBound DEF Need
  <2>2. [size |-> op.size, total |-> Need, ext |-> ext[op.f]] \in ForkType
    BY <2>1 DEF ForkType
  <2>3. fork' = [fork EXCEPT ![op.f] =
                    [size |-> op.size, total |-> Need, ext |-> ext[op.f]]]
        /\ UNCHANGED <<hdr, ext, used, wild>>
    BY <1>7, Saved
  <2>4. fork' \in [Files -> ForkType]
    BY <1>1, <2>2, <2>3
  <2>5. QED
    BY <1>1, <2>3, <2>4
<1>8. CASE Enlarge
  <2>1. used' \subseteq used /\ UNCHANGED <<fork, ext, wild>>
    BY <1>8, Enlarged
  <2>2. hdr' = hdr \/ (hdr' \in [total : Nat, free : Nat, next : Nat]
                        /\ hdr'.total > hdr.total /\ hdr'.next = hdr.next /\ hdr'.total \in Nat)
    BY <1>8, Enlarged, OpFacts
  <2>3. QED
    BY <1>1, <2>1, <2>2
<1>9. CASE Mark
  BY <1>1, <1>9, Marked
<1>10. QED
  BY <1>2, <1>3, <1>4, <1>5, <1>6, <1>7, <1>8, <1>9, QuietSteps

LEMMA DiskStep ==
  ASSUME AllocInv, FewExtents, FewExtents', Next
  PROVE  DiskInv'
<1> USE DEF AllocInv
<1>1. ShapeInv' /\ ControlInv' /\ ext' \in [Files -> Seq(Nat)] /\ fork' \in [Files -> ForkType]
  BY ShapeStep, SpaceTypes, ControlKept
<1>2. op' # NoOp => Need' \in Nat
  <2>1. op' # NoOp => op' \in OpType
    BY <1>1 DEF ControlInv
  <2>2. op' \in OpType => op'.size \in Nat
    BY DEF OpType
  <2>3. op'.size \in Nat => Need' \in Nat
    BY BlocksBound DEF Need
  <2>4. QED
    BY <2>1, <2>2, <2>3
<1>3. ASSUME Clean', at' # "primary",
             at' \in {"idle", "catalog", "data"} \/ (at' = "start" /\ op'.then # "mark") =>
               primary' = Header' /\ alternate' = Header'
      PROVE  DiskInv'
  <2>1. \A f \in Files :
       /\ Len(OnDisk(f)'.ext) = OnDisk(f)'.total
       /\ \A i \in DOMAIN ext'[f] : i <= OnDisk(f)'.total => ext'[f][i] = OnDisk(f)'.ext[i]
       /\ ~InWork(f)' \/ OnDisk(f)'.total <= Need' => OnDisk(f)'.total <= Len(ext'[f])
    BY <1>1, <1>2, <1>3, CleanDisk
  <2>2. QED
    BY <1>3, <2>1 DEF DiskInv, Clean
<1>4. ASSUME Clean, UNCHANGED <<fork, catalog, primary>> PROVE Clean'
  BY <1>4 DEF Clean
<1>5. ASSUME hdr' = hdr, fork' = fork PROVE Header' = Header
  BY <1>5 DEF Header
<1>6. Caller => DiskInv'
  <2>1. SUFFICES ASSUME Caller PROVE DiskInv'
    OBVIOUS
  <2>2. /\ at = "idle" /\ UNCHANGED <<hdr, fork, disk>> /\ at' # "primary"
    <3>1. ASSUME NEW f \in DataFiles, Open(f)
          PROVE  at = "idle" /\ UNCHANGED <<hdr, fork, disk>> /\ at' # "primary"
      BY <3>1, OpenSame DEF Open
    <3>2. QED
      BY <2>1, <3>1 DEF Caller, Close, SetSize, GrowTree, WriteFile, GrowVolume, Start
  <2>3. primary = Header /\ alternate = Header /\ Clean
    BY <2>2, CleanFacts DEF DiskInv
  <2>4. QED
    BY <1>3, <1>4, <1>5, <2>2, <2>3 DEF disk
<1>7. Over => DiskInv'
  BY DEF Over, vars, disk, Stopped, DiskInv, Header, OnDisk, InWork, Need
<1>8. Refuse => DiskInv'
  <2>1. SUFFICES ASSUME Refuse PROVE DiskInv'
    OBVIOUS
  <2>2. at = "start" /\ UNCHANGED <<hdr, fork, disk>> /\ at' \in {"idle", "enlarge", "exited"}
        /\ (at' = "idle" => op.then = "return")
    BY <2>1 DEF Refuse
  <2>3. Clean /\ (at' = "idle" => primary = Header /\ alternate = Header)
    BY <2>2, CleanFacts DEF DiskInv
  <2>4. QED
    BY <1>3, <1>4, <1>5, <2>2, <2>3 DEF disk
<1>9. BeginGrow \/ Keep \/ Skip \/ Take \/ Shrink => DiskInv'
  <2>1. SUFFICES ASSUME BeginGrow \/ Keep \/ Skip \/ Take \/ Shrink PROVE DiskInv'
    OBVIOUS
  <2>2. at \in {"start", "loop"} /\ at' \in {"loop", "extents"}
        /\ UNCHANGED <<fork, catalog, primary>>
    BY <2>1, Taken DEF BeginGrow, Keep, Skip, Shrink, disk
  <2>3. Clean
    BY <2>2, CleanFacts
  <2>4. QED
    BY <1>3, <1>4, <2>2, <2>3
<1>10. WriteData \/ Enlarge \/ Reserve \/ Mark => DiskInv'
  <2>1. SUFFICES ASSUME WriteData \/ Enlarge \/ Reserve \/ Mark PROVE DiskInv'
    OBVIOUS
  <2>2. at \in {"data", "enlarge", "reserve", "mark"}
        /\ UNCHANGED <<fork, catalog, primary, alternate>>
    BY <2>1 DEF WriteData, Enlarge, Reserve, Mark, disk
  <2>3. Clean
    BY <2>2, CleanFacts
  <2>4. CASE WriteData
    <3>1. at = "data" /\ at' = "idle" /\ hdr' = hdr
      BY <2>4 DEF WriteData
    <3>2. primary = Header /\ alternate = Header
      BY <3>1 DEF DiskInv
    <3>3. QED
      BY <1>3, <1>4, <1>5, <2>2, <2>3, <3>1, <3>2
  <2>5. CASE Enlarge \/ Mark
    <3>1. at' \in {"exited", "reserve", "alternate"}
      BY <2>5, Enlarged, Marked
    <3>2. QED
      BY <1>3, <1>4, <2>2, <2>3, <3>1
  <2>6. CASE Reserve
    <3>1. at' \in {"start", "mark"} /\ op'.then = "mark"
      BY <2>6, ReserveCalled
    <3>2. QED
      BY <1>3, <1>4, <2>2, <2>3, <3>1
  <2>7. QED
    BY <2>1, <2>4, <2>5, <2>6
<1>11. SaveExtents => DiskInv'
  <2>1. SUFFICES ASSUME SaveExtents PROVE DiskInv'
    OBVIOUS
  <2>2. /\ at = "extents" /\ at' = "alternate" /\ op \in OpType
        /\ UNCHANGED <<ext, catalog, primary, op>>
        /\ \A f \in Files : f # op.f => fork'[f] = fork[f]
    BY <2>1, Saved DEF TypeOK
  <2>3. Clean /\ op # NoOp
    BY <2>2, CleanFacts, OpFacts
  <2>4. \A f \in Files : OnDisk(f)' = OnDisk(f) /\ InWork(f)' = InWork(f)
    BY <2>2 DEF OnDisk, InWork
  <2>5. Need' = Need
    BY <2>2 DEF Need
  <2>6. QED
    BY <2>2, <2>3, <2>4, <2>5 DEF DiskInv, Clean, InWork, Files
<1>12. SaveAlternate => DiskInv'
  <2>1. SUFFICES ASSUME SaveAlternate PROVE DiskInv'
    OBVIOUS
  <2>2. /\ at = "alternate" /\ at' = "primary" /\ alternate' = Header
        /\ UNCHANGED <<hdr, fork, ext, catalog, primary, op>>
    BY <2>1 DEF SaveAlternate
  <2>3. \A f \in Files : OnDisk(f)' = OnDisk(f) /\ InWork(f)' = InWork(f)
    BY <2>2 DEF OnDisk, InWork
  <2>4. Need' = Need /\ Header' = Header
    BY <1>5, <2>2 DEF Need
  <2>5. QED
    BY <2>2, <2>3, <2>4 DEF DiskInv, InWork
<1>13. SavePrimary => DiskInv'
  <2>1. SUFFICES ASSUME SavePrimary PROVE DiskInv'
    OBVIOUS
  <2>2. /\ at = "primary" /\ primary' = Header /\ op \in OpType
        /\ UNCHANGED <<hdr, fork, ext, catalog, alternate>>
    BY <2>1 DEF SavePrimary, ControlInv, Working
  <2>3. Header' = Header /\ alternate = Header
    BY <1>5, <2>2 DEF DiskInv
  <2>4. \A f \in Specials : primary'.forks[f] = fork'[f]
    BY <2>2 DEF Header
  <2>5. CASE op.f \in DataFiles
    <3>1. at' = "catalog" /\ op' = op
      BY <2>1, <2>5 DEF SavePrimary
    <3>2. Need' = Need /\ \A f \in DataFiles : OnDisk(f)' = OnDisk(f)
      BY <2>2, <3>1 DEF Need, OnDisk
    <3>3. \A f \in Files : InWork(f)' = InWork(f)
      BY <3>1 DEF InWork
    <3>4. ASSUME NEW f \in Specials
          PROVE  /\ OnDisk(f)' = fork'[f] /\ ext'[f] = fork'[f].ext
                 /\ Len(fork'[f].ext) = fork'[f].total /\ fork'[f].total \in Nat
      <4>1. f \in Files /\ f \notin DataFiles
        BY NotFiles DEF Files, Specials
      <4>2. OnDisk(f)' = fork'[f]
        BY <2>4, <4>1 DEF OnDisk
      <4>3. QED
        BY <1>1, <3>1, <4>1, <4>2 DEF ShapeInv, ForkType
    <3>5. \A f \in Files :
       /\ Len(OnDisk(f)'.ext) = OnDisk(f)'.total
       /\ \A i \in DOMAIN ext'[f] : i <= OnDisk(f)'.total => ext'[f][i] = OnDisk(f)'.ext[i]
       /\ ~InWork(f)' \/ OnDisk(f)'.total <= Need' => OnDisk(f)'.total <= Len(ext'[f])
      <4>1. SUFFICES ASSUME NEW f \in Files
                     PROVE  /\ Len(OnDisk(f)'.ext) = OnDisk(f)'.total
                            /\ \A i \in DOMAIN ext'[f] :
                                 i <= OnDisk(f)'.total => ext'[f][i] = OnDisk(f)'.ext[i]
                            /\ ~InWork(f)' \/ OnDisk(f)'.total <= Need' =>
                                 OnDisk(f)'.total <= Len(ext'[f])
        OBVIOUS
      <4>2. CASE f \in DataFiles
        BY <2>2, <3>2, <3>3, <4>2 DEF DiskInv
      <4>3. CASE f \in Specials
        BY <3>4, <4>3
      <4>4. QED
        BY <4>2, <4>3 DEF Files
    <3>6. \A f \in DataFiles :
            ~(InWork(f)' /\ at' \in {"alternate", "primary", "catalog"}) => catalog'[f] = fork'[f]
      BY <2>2, <3>1, <3>3 DEF DiskInv, Files
    <3>7. QED
      BY <2>2, <2>3, <2>4, <3>1, <3>5, <3>6 DEF DiskInv
  <2>6. CASE op.f \notin DataFiles
    <3>1. at' \in {"idle", "data", "enlarge", "mark"}
      BY <2>1, <2>2, <2>6, OpFacts DEF SavePrimary, Return
    <3>2. Clean'
      BY <2>2, <2>4, <2>6 DEF Clean, DiskInv, InWork
    <3>3. QED
      BY <1>3, <2>2, <2>3, <3>1, <3>2
  <2>7. QED
    BY <2>5, <2>6
<1>14. SaveCatalog => DiskInv'
  <2>1. SUFFICES ASSUME SaveCatalog PROVE DiskInv'
    OBVIOUS
  <2>2. /\ at = "catalog" /\ op \in OpType /\ op.f \in DataFiles
        /\ catalog' = [catalog EXCEPT ![op.f] = fork[op.f]]
        /\ UNCHANGED <<hdr, fork, ext, primary, alternate>>
    BY <2>1 DEF SaveCatalog, ControlInv, Working
  <2>3. at' \in {"idle", "data", "enlarge", "mark"}
    BY <2>1, <2>2, OpFacts DEF SaveCatalog, Return
  <2>4. Clean'
    BY <2>2 DEF Clean, DiskInv, InWork, TypeOK
  <2>5. primary = Header /\ alternate = Header /\ Header' = Header
    BY <1>5, <2>2 DEF DiskInv
  <2>6. QED
    BY <1>3, <2>2, <2>3, <2>4, <2>5
<1>15. QED
  BY <1>6, <1>7, <1>8, <1>9, <1>10, <1>11, <1>12, <1>13, <1>14 DEF Next, Step

(* While allocate is at a file, the records on the disk and the lists of   *)
(* the other files stay.                                                   *)
LEMMA ApartBusy ==
  ASSUME AllocInv, FewExtents, FewExtents', Next, NEW f \in Files, InWork(f)',
         at' \in {"loop", "extents", "alternate", "primary", "catalog"},
         NEW g \in Files, g # f
  PROVE  OnDisk(f)' = OnDisk(f) /\ ext'[g] = ext[g]
<1> USE DEF AllocInv
<1>1. UNCHANGED <<ext, catalog, primary>> => OnDisk(f)' = OnDisk(f) /\ ext'[g] = ext[g]
  BY DEF OnDisk
<1>2. ~Caller
  BY DEF Caller, Open, Close, SetSize, GrowTree, WriteFile, GrowVolume, Start, ControlInv
<1>3. ~Over /\ ~Refuse /\ ~WriteData /\ ~Enlarge /\ ~Reserve
  BY DEF Over, vars, Stopped, Refuse, WriteData, Enlarge, Reserve
<1>4. BeginGrow \/ Skip \/ Keep \/ SaveExtents \/ SaveAlternate \/ Mark =>
        UNCHANGED <<ext, catalog, primary>>
  BY DEF BeginGrow, Skip, Keep, SaveExtents, SaveAlternate, Mark, disk
<1>5. CASE Take
  <2>1. op'.f = op.f /\ UNCHANGED <<catalog, primary>>
    BY <1>5, Taken
  <2>2. g # op.f /\ ext'[g] = ext[g]
    BY <1>5, <2>1, TakenList DEF InWork
  <2>3. QED
    BY <2>1, <2>2 DEF OnDisk
<1>6. CASE Shrink
  <2>1. op' = op /\ UNCHANGED <<catalog, primary>>
    BY <1>6 DEF Shrink
  <2>2. g # op.f /\ ext'[g] = ext[g]
    BY <1>6, <2>1, Shrunk DEF InWork
  <2>3. QED
    BY <2>1, <2>2 DEF OnDisk
<1>7. CASE SavePrimary
  <2>1. op \in OpType /\ UNCHANGED <<ext, catalog>>
    BY <1>7 DEF SavePrimary, ControlInv, Working
  <2>2. CASE op.f \in DataFiles
    <3>1. op' = op
      BY <1>7, <2>2 DEF SavePrimary
    <3>2. QED
      BY <2>1, <2>2, <3>1 DEF OnDisk, InWork
  <2>3. CASE op.f \notin DataFiles
    BY <1>7, <2>1, <2>3, OpFacts DEF SavePrimary, Return
  <2>4. QED
    BY <2>2, <2>3
<1>8. ~SaveCatalog
  <2>1. SaveCatalog => op \in OpType
    BY DEF SaveCatalog, ControlInv, Working
  <2>2. QED
    BY <2>1, OpFacts DEF SaveCatalog, Return
<1>9. QED
  BY <1>1, <1>2, <1>3, <1>4, <1>5, <1>6, <1>7, <1>8 DEF Next, Step

LEMMA ApartStep ==
  ASSUME AllocInv, FewExtents, FewExtents', Next
  PROVE  ApartInv'
<1> SUFFICES ASSUME NEW f \in Files, NEW g \in Files, f # g
             PROVE  BlocksOf(OnDisk(f)'.ext) \cap BlocksOf(ext'[g]) = {}
  BY DEF ApartInv
<1>1. ShapeInv' /\ DiskInv' /\ NoSharing'
  BY ShapeStep, DiskStep, SharingStep
<1>2. CASE InWork(f)' /\ at' \in {"loop", "extents", "alternate", "primary", "catalog"}
  <2>1. OnDisk(f)' = OnDisk(f) /\ ext'[g] = ext[g]
    BY <1>2, ApartBusy
  <2>2. BlocksOf(OnDisk(f).ext) \cap BlocksOf(ext[g]) = {}
    BY DEF AllocInv, ApartInv
  <2>3. QED
    BY <2>1, <2>2
<1>3. CASE ~(InWork(f)' /\ at' \in {"loop", "extents", "alternate", "primary", "catalog"})
  <2>1. OnDisk(f)' = fork'[f] /\ ext'[f] = fork'[f].ext
    <3>1. ext'[f] = fork'[f].ext
      BY <1>1, <1>3 DEF ShapeInv
    <3>2. OnDisk(f)' = fork'[f]
      <4>1. CASE f \in DataFiles
        BY <1>1, <1>3, <4>1 DEF DiskInv, OnDisk
      <4>2. CASE f \in Specials
        BY <1>1, <1>3, <4>2, FilesAssumption DEF DiskInv, OnDisk
      <4>3. QED
        BY <4>1, <4>2 DEF Files
    <3>3. QED
      BY <3>1, <3>2
  <2>2. \A i \in DOMAIN ext'[f], j \in DOMAIN ext'[g] : ext'[f][i] # ext'[g][j]
    BY <1>1 DEF NoSharing
  <2>3. BlocksOf(ext'[f]) \cap BlocksOf(ext'[g]) = {}
    BY <2>2 DEF BlocksOf
  <2>4. QED
    BY <2>1, <2>3
<1>4. QED
  BY <1>2, <1>3

-----------------------------------------------------------------------------
(* The theorems.                                                           *)

Steps == {"idle", "start", "loop", "extents", "alternate", "primary",
          "catalog", "data", "enlarge", "reserve", "mark", "panic", "exited",
          "adrift"}

HeaderType == [hdr : [total : Nat, free : Nat, next : Nat],
               forks : [Specials -> ForkType]]

(* The types of the rest.                                                  *)
LEMMA RestTypes ==
  ASSUME AllocInv, FewExtents, Next
  PROVE  /\ open' \in DataFiles \cup {NoFile} /\ catalog' \in [DataFiles -> ForkType]
         /\ at' \in Steps /\ primary' \in HeaderType
<1> USE DEF AllocInv
<1>1. /\ open \in DataFiles \cup {NoFile} /\ catalog \in [DataFiles -> ForkType]
      /\ at \in Steps /\ primary \in HeaderType /\ fork \in [Files -> ForkType]
  BY DEF TypeOK, Stopped, Steps, HeaderType
<1>2. ASSUME UNCHANGED <<open, catalog, primary>>, at' \in Steps
      PROVE  /\ open' \in DataFiles \cup {NoFile} /\ catalog' \in [DataFiles -> ForkType]
             /\ at' \in Steps /\ primary' \in HeaderType
  BY <1>1, <1>2
<1> DEFINE Good == /\ open' \in DataFiles \cup {NoFile}
                   /\ catalog' \in [DataFiles -> ForkType]
                   /\ at' \in Steps /\ primary' \in HeaderType
<1>3. ASSUME NEW f \in DataFiles, Open(f) PROVE Good
  BY <1>1, <1>3, OpenSame DEF disk
<1>4. Close \/ Over => Good
  BY <1>1 DEF Close, Over, vars, disk
<1>5. ASSUME NEW size, SetSize(size) PROVE Good
  BY <1>2, <1>5 DEF SetSize, Start, disk, Steps
<1>6. GrowTree => Good
  BY <1>2 DEF GrowTree, Start, disk, Steps
<1>7. ASSUME NEW loc, NEW len, WriteFile(loc, len) PROVE Good
  BY <1>2, <1>7 DEF WriteFile, Start, disk, Steps
<1>8. ASSUME NEW total, GrowVolume(total) PROVE Good
  BY <1>2, <1>8 DEF GrowVolume, Start, disk, Steps
<1>9. Refuse \/ BeginGrow \/ Keep \/ Reserve => Good
  BY <1>2 DEF Refuse, BeginGrow, Keep, Reserve, disk, Steps
<1>10. Skip \/ Take \/ Shrink \/ WriteData \/ Enlarge \/ Mark => Good
  BY <1>1, <1>2, Taken DEF Skip, Shrink, WriteData, Enlarge, Mark, disk, Steps
<1>11. SaveExtents => Good
  BY <1>2 DEF SaveExtents, Steps
<1>12. SaveAlternate => Good
  BY <1>2 DEF SaveAlternate, Steps
<1>13. ASSUME Return, at \in {"primary", "catalog"} PROVE at' \in Steps
  <2>1. op \in OpType
    BY <1>13 DEF ControlInv, Working
  <2>2. QED
    BY <1>13, <2>1, OpFacts DEF Return, Steps
<1>14. SavePrimary => Good
  <2>1. SUFFICES ASSUME SavePrimary PROVE Good
    OBVIOUS
  <2>2. at' \in Steps
    <3>1. CASE op.f \in DataFiles
      BY <2>1, <3>1 DEF SavePrimary, Steps
    <3>2. CASE op.f \notin DataFiles
      BY <1>13, <2>1, <3>2 DEF SavePrimary
    <3>3. QED
      BY <3>1, <3>2
  <2>3. Header \in HeaderType
    <3>1. hdr \in [total : Nat, free : Nat, next : Nat]
      BY Facts
    <3>2. [s \in Specials |-> fork[s]] \in [Specials -> ForkType]
      BY <1>1 DEF Files
    <3>3. QED
      BY <3>1, <3>2 DEF Header, HeaderType
  <2>4. open' = open /\ catalog' = catalog /\ primary' = Header
    BY <2>1 DEF SavePrimary
  <2>5. QED
    BY <1>1, <2>2, <2>3, <2>4
<1>15. SaveCatalog => Good
  <2>1. SUFFICES ASSUME SaveCatalog PROVE Good
    OBVIOUS
  <2>2. at' \in Steps /\ open' = open /\ primary' = primary
        /\ catalog' = [catalog EXCEPT ![op.f] = fork[op.f]] /\ op.f \in Files
    BY <1>13, <2>1, NotFiles DEF SaveCatalog, ControlInv
  <2>3. QED
    BY <1>1, <2>2
<1>16. QED
  BY <1>3, <1>4, <1>5, <1>6, <1>7, <1>8, <1>9, <1>10, <1>11, <1>12, <1>14, <1>15
     DEF Next, Caller, Step

(* The allocation loop stays inside the bitmap: it is below the block that *)
(* the bitmap is known to have.                                            *)
LoopInv == /\ used \subseteq Nat /\ hdr.total \in Nat /\ ext \in [Files -> Seq(Nat)]
           /\ ControlInv /\ MapInv /\ MarkInv /\ GrowInv /\ at = "loop"

LEMMA LoopMapped == LoopInv => Mapped(op.cur)
<1> SUFFICES ASSUME LoopInv PROVE Mapped(op.cur)
  OBVIOUS
<1> USE DEF LoopInv
<1>1. op \in OpType /\ op.cur \in Nat /\ op.cur < hdr.total
  BY OpFacts DEF ControlInv, Working
<1>2. ByteOf(op.cur) \in Nat /\ Len(ext[MapFile]) * BlockUnits \in Nat
  <2>1. Len(ext[MapFile]) \in Nat /\ BlockUnits \in Nat
    BY NotFiles, UnitsAssumption
  <2>2. QED
    BY <1>1, <2>1, Bytes
<1>3. ASSUME NEW b \in Nat, Mapped(b), op.cur <= b PROVE Mapped(op.cur)
  <2>1. ByteOf(b) \in Nat /\ ByteOf(op.cur) <= ByteOf(b)
    BY <1>1, <1>3, Bytes
  <2>2. QED
    BY <1>2, <1>3, <2>1 DEF Mapped
<1>4. CASE Grown
  <2>1. PICK b \in 1 .. hdr.total - 2 : Mapped(b) /\ (op.cur = b \/ op.cur < b)
    BY <1>4 DEF GrowInv
  <2>2. b \in Nat /\ op.cur <= b
    BY <1>1, <2>1
  <2>3. QED
    BY <1>3, <2>1, <2>2
<1>5. CASE ~Grown
  <2>1. hdr.total - 1 \in used /\ Mapped(hdr.total - 1)
    BY <1>5 DEF MarkInv, MapInv, Stopped
  <2>2. hdr.total - 1 \in Nat /\ op.cur <= hdr.total - 1
    BY <1>1, <2>1
  <2>3. QED
    BY <1>3, <2>1, <2>2
<1>6. QED
  BY <1>4, <1>5

(* Every step keeps AllocInv.                                              *)
LEMMA AllocStep ==
  ASSUME AllocInv, FewExtents, FewExtents', Next, Narrow'
  PROVE  AllocInv'
<1>1. ControlInv' /\ ShapeInv' /\ MapInv' /\ NoSharing' /\ MarkInv' /\ FreeCount'
      /\ GrowInv' /\ DiskInv' /\ ApartInv'
  BY ControlKept, ShapeStep, MapStep, SharingStep, MarkStep, CountStep, GrowStep, DiskStep,
     ApartStep
<1>2. /\ used' \subseteq Nat
      /\ hdr' \in [total : Nat, free : Nat, next : Nat] /\ hdr'.next < hdr'.total
      /\ fork' \in [Files -> ForkType] /\ ext' \in [Files -> Seq(Nat)] /\ wild' \in BOOLEAN
  BY SpaceTypes
<1>3. /\ open' \in DataFiles \cup {NoFile} /\ catalog' \in [DataFiles -> ForkType]
      /\ at' \in Steps /\ primary' \in HeaderType
  BY RestTypes
<1>4. at' = "loop" => Mapped(op.cur)'
  <2>1. ASSUME at' = "loop" PROVE Mapped(op.cur)'
    <3>1. LoopInv'
      BY <1>1, <1>2, <2>1 DEF LoopInv
    <3>2. (LoopInv => Mapped(op.cur))'
      BY LoopMapped, PTL
    <3>3. QED
      BY <3>1, <3>2
  <2>2. QED
    BY <2>1
<1>5. hdr' \in [total : Nat, free : Nat, next : 0 .. hdr'.total - 1]
  <2>1. hdr'.next \in 0 .. hdr'.total - 1
    BY <1>2
  <2>2. QED
    BY <1>2, <2>1
<1>6. TypeOK'
  BY <1>2, <1>3, <1>4, <1>5 DEF TypeOK, FewExtents, Steps, Stopped
<1>7. QED
  BY <1>1, <1>3, <1>6 DEF AllocInv, HeaderType

(* The bitmap of the volume as it is opened fills no more than a block.    *)
LEMMA FirstBytes ==
  /\ (FirstTotal + MapBits - 1) \div MapBits \in Nat
  /\ (FirstTotal + MapBits - 1) \div MapBits >= 1
  /\ (FirstTotal + MapBits - 1) \div MapBits <= BlockUnits
<1>1. FirstTotal \in Nat /\ FirstTotal >= 4 /\ FirstTotal <= BlockUnits * MapBits
      /\ BlockUnits \in Nat /\ MapBits \in Nat \ {0}
  BY VolumeAssumption, UnitsAssumption
<1>2. PICK t \in Nat : t = FirstTotal + MapBits - 1
  BY <1>1
<1>3. PICK n \in Nat : n = BlockUnits * MapBits
  BY <1>1
<1>4. t < (BlockUnits + 1) * MapBits
  <2>1. (BlockUnits + 1) * MapBits = n + MapBits
    BY <1>1, <1>3
  <2>2. QED
    BY <1>1, <1>2, <1>3, <2>1
<1>5. ByteOf(t) \in Nat /\ ByteOf(t) < BlockUnits + 1
  <2>1. BlockUnits + 1 \in Nat
    BY <1>1
  <2>2. QED
    BY <1>2, <1>4, <2>1, Bytes
<1>6. ByteOf(t) >= 1
  <2>1. t <= ByteOf(t) * MapBits + MapBits /\ (ByteOf(t) = 0 => ByteOf(t) * MapBits = 0)
    BY <1>1, <1>2, <1>5, Bytes
  <2>2. t >= MapBits
    BY <1>1, <1>2
  <2>3. ASSUME ByteOf(t) = 0 PROVE FALSE
    <3>1. t \in InByte(0)
      BY <1>2, <2>3, Bytes
    <3>2. 0 * MapBits = 0 /\ (0 + 1) * MapBits = MapBits
      BY <1>1
    <3>3. QED
      BY <1>1, <1>2, <2>2, <3>1, <3>2 DEF InByte
  <2>4. QED
    BY <1>5, <2>3
<1>7. QED
  BY <1>1, <1>2, <1>5, <1>6 DEF ByteOf

LEMMA OneMapBlock ==
  /\ \A u \in Nat \ {0} : u <= BlockUnits => Blocks(u) = 1
  /\ Blocks(0) = 0
<1>1. BlockUnits \in Nat \ {0}
  BY UnitsAssumption
<1>2. ASSUME NEW u \in Nat, u <= BlockUnits PROVE u # 0 => Blocks(u) = 1
  <2>1. CASE u = BlockUnits
    <3>1. (1 * BlockUnits + 0) \div BlockUnits = 1 /\ (1 * BlockUnits + 0) % BlockUnits = 0
      BY <1>1, QuotientUnique
    <3>2. 1 * BlockUnits + 0 = u
      BY <1>1, <2>1
    <3>3. QED
      BY <3>1, <3>2 DEF Blocks
  <2>2. CASE u < BlockUnits
    <3>1. (0 * BlockUnits + u) \div BlockUnits = 0 /\ (0 * BlockUnits + u) % BlockUnits = u
      BY <1>1, <2>2, QuotientUnique
    <3>2. 0 * BlockUnits + u = u
      BY <1>1
    <3>3. QED
      BY <3>1, <3>2 DEF Blocks
  <2>3. QED
    BY <1>1, <1>2, <2>1, <2>2
<1>3. Blocks(0) = 0
  <2>1. (0 * BlockUnits + 0) \div BlockUnits = 0 /\ (0 * BlockUnits + 0) % BlockUnits = 0
    BY <1>1, QuotientUnique
  <2>2. 0 * BlockUnits + 0 = 0
    BY <1>1
  <2>3. QED
    BY <2>1, <2>2 DEF Blocks
<1>4. QED
  BY <1>2, <1>3

(* A list of one block needs no overflow record.                           *)
LEMMA SingleRecord ==
  ASSUME NEW b \in Nat
  PROVE  Record(<<b>>, 0) = <<b>>
<1>1. Len(<<b>>) = 1 /\ <<b>> \in Seq(Nat) /\ <<b>> # <<>> /\ DOMAIN <<b>> = 1 .. 1
  OBVIOUS
<1>2. Breaks(<<b>>, 1) = {1}
  BY DEF Breaks
<1>3. Cardinality(Breaks(<<b>>, 1)) = 1
  <2>1. Cardinality({} \cup {1}) = 1
    BY FS_EmptySet, FS_AddElement
  <2>2. {} \cup {1} = {1}
    OBVIOUS
  <2>3. QED
    BY <1>2, <2>1, <2>2
<1>4. RecordAt(<<b>>, 1) = 0
  <2>1. InlineMax \in Nat \ {0}
    BY UnitsAssumption
  <2>2. (0 * InlineMax + 0) \div InlineMax = 0
    BY <2>1, QuotientUnique
  <2>3. 0 * InlineMax + 0 = 0 /\ 1 - 1 = 0
    BY <2>1
  <2>4. QED
    BY <1>3, <2>2, <2>3 DEF RecordAt
<1>5. DOMAIN RecordsOf(MapFile, <<b>>) = {}
  <2>1. DOMAIN RecordsOf(MapFile, <<b>>) =
          {<<MapFile, Record(<<b>>, r)[1]>> : r \in 1 .. 0}
    BY <1>1, <1>4 DEF RecordsOf
  <2>2. ~(\E r : r \in 1 .. 0)
    OBVIOUS
  <2>3. QED
    BY <2>1, <2>2
<1>6. QED
  BY <1>1, <1>5, RecordFew, NotFiles

(* The volume as it is opened.                                             *)
LEMMA AllocInit == Init /\ Narrow => AllocInv
<1> SUFFICES ASSUME Init, Narrow PROVE AllocInv
  OBVIOUS
<1> USE DEF Init
<1>1. /\ FirstTotal \in Nat /\ FirstTotal >= 4 /\ FirstTotal <= BlockUnits * MapBits
      /\ BlockUnits \in Nat \ {0} /\ MapBits \in Nat \ {0} /\ InlineMax \in Nat \ {0}
      /\ FirstNext \subseteq 0 .. FirstTotal - 1
  BY VolumeAssumption, UnitsAssumption
<1>2. /\ at = "idle" /\ op = NoOp /\ wild = FALSE /\ open = NoFile /\ overflow = <<>>
      /\ hdr.total = FirstTotal /\ hdr.free = FirstTotal - 4 /\ hdr.next \in FirstNext
      /\ hdr \in [total : Nat, free : Nat, next : 0 .. hdr.total - 1]
      /\ used = {0, 1, 2, FirstTotal - 1} /\ ~Grown
      /\ primary = Header /\ alternate = Header
  BY <1>1 DEF Grown
<1>3. ext[MapFile] = <<1>> /\ ext[TreeFile] = <<2>> /\ \A f \in DataFiles : ext[f] = <<>>
      /\ ext \in [Files -> Seq(Nat)]
  BY NotFiles
<1>4. PICK size : size = (FirstTotal + MapBits - 1) \div MapBits
  OBVIOUS
<1>5. size \in Nat /\ size >= 1 /\ size <= BlockUnits
  BY <1>1, <1>4, FirstBytes
<1>6. Blocks(size) = 1 /\ Blocks(BlockUnits) = 1 /\ Blocks(0) = 0
  BY <1>1, <1>5, OneMapBlock
<1>7. \A b \in Nat : Record(<<b>>, 0) = <<b>>
  BY SingleRecord
<1>8. Fork(size, <<1>>) = [size |-> size, total |-> 1, ext |-> <<1>>]
      /\ Fork(BlockUnits, <<2>>) = [size |-> BlockUnits, total |-> 1, ext |-> <<2>>]
  BY <1>7 DEF Fork
<1>9. /\ fork[MapFile] = [size |-> size, total |-> 1, ext |-> <<1>>]
      /\ fork[TreeFile] = [size |-> BlockUnits, total |-> 1, ext |-> <<2>>]
      /\ \A f \in DataFiles : fork[f] = [size |-> 0, total |-> 0, ext |-> <<>>]
      /\ DOMAIN fork = Files /\ fork = [f \in Files |-> fork[f]]
  BY <1>4, <1>8, NotFiles DEF NoFork
<1>10. fork \in [Files -> ForkType] /\ catalog \in [DataFiles -> ForkType]
       /\ \A f \in DataFiles : catalog[f] = fork[f]
  <2>1. \A f \in Files : fork[f] \in ForkType
    <3>1. /\ [size |-> size, total |-> 1, ext |-> <<1>>] \in ForkType
          /\ [size |-> BlockUnits, total |-> 1, ext |-> <<2>>] \in ForkType
          /\ [size |-> 0, total |-> 0, ext |-> <<>>] \in ForkType
      BY <1>1, <1>5 DEF ForkType
    <3>2. QED
      BY <1>9, <3>1 DEF Files, Specials
  <2>2. NoFork \in ForkType
    BY DEF NoFork, ForkType
  <2>3. QED
    BY <1>9, <2>1, <2>2 DEF NoFork
<1>11. TypeOK
  <2>1. DOMAIN overflow = {}
    BY <1>2
  <2>2. used \subseteq Nat
    BY <1>1
  <2>3. QED
    <3>1. open \in DataFiles \cup {NoFile} /\ wild \in BOOLEAN
      BY <1>2
    <3>2. at = "idle" /\ (at = "loop" => Mapped(op.cur))
      BY <1>2
    <3>3. DOMAIN overflow \subseteq Files \X Nat
      BY <2>1
    <3>4. QED
      BY <1>2, <1>3, <1>10, <2>2, <3>1, <3>2, <3>3 DEF TypeOK
<1>12. ControlInv
  BY <1>2 DEF ControlInv, Working
<1>13. \A f \in Files : /\ ext[f] = fork[f].ext /\ Len(fork[f].ext) = fork[f].total
                        /\ fork[f].total = Blocks(fork[f].size)
  <2>1. /\ fork[MapFile].size = size /\ fork[MapFile].total = 1 /\ fork[MapFile].ext = <<1>>
        /\ fork[TreeFile].size = BlockUnits /\ fork[TreeFile].total = 1
        /\ fork[TreeFile].ext = <<2>>
        /\ \A f \in DataFiles : fork[f].size = 0 /\ fork[f].total = 0 /\ fork[f].ext = <<>>
    <3>1. fork[MapFile].size = size /\ fork[MapFile].total = 1 /\ fork[MapFile].ext = <<1>>
      BY <1>9
    <3>2. fork[TreeFile].size = BlockUnits /\ fork[TreeFile].total = 1
          /\ fork[TreeFile].ext = <<2>>
      BY <1>9
    <3>3. ASSUME NEW f \in DataFiles
          PROVE  fork[f].size = 0 /\ fork[f].total = 0 /\ fork[f].ext = <<>>
      <4>1. fork[f] = [size |-> 0, total |-> 0, ext |-> <<>>]
        BY <1>9
      <4>2. QED
        BY <4>1
    <3>4. QED
      BY <3>1, <3>2, <3>3
  <2>2. Len(<<1>>) = 1 /\ Len(<<2>>) = 1 /\ Len(<<>>) = 0
    OBVIOUS
  <2>3. \A f \in Files : f = MapFile \/ f = TreeFile \/ f \in DataFiles
    BY DEF Files, Specials
  <2>5. ASSUME NEW f \in Files, f = MapFile
        PROVE  ext[f] = fork[f].ext /\ Len(fork[f].ext) = fork[f].total
               /\ fork[f].total = Blocks(fork[f].size)
    BY <1>3, <1>6, <2>1, <2>2, <2>5
  <2>6. ASSUME NEW f \in Files, f = TreeFile
        PROVE  ext[f] = fork[f].ext /\ Len(fork[f].ext) = fork[f].total
               /\ fork[f].total = Blocks(fork[f].size)
    BY <1>3, <1>6, <2>1, <2>2, <2>6
  <2>7. ASSUME NEW f \in DataFiles
        PROVE  ext[f] = fork[f].ext /\ Len(fork[f].ext) = fork[f].total
               /\ fork[f].total = Blocks(fork[f].size)
    BY <1>3, <1>6, <2>1, <2>2, <2>7
  <2>8. QED
    BY <2>3, <2>5, <2>6, <2>7
<1>14. ShapeInv
  BY <1>2, <1>13 DEF ShapeInv
<1>15. MapInv
  <2>1. ASSUME NEW b \in used PROVE Mapped(b)
    <3>1. b \in Nat /\ b < FirstTotal
      BY <1>1, <1>2
    <3>2. b < BlockUnits * MapBits
      BY <1>1, <3>1
    <3>3. ByteOf(b) < BlockUnits
      BY <1>1, <3>1, <3>2, Bytes
    <3>4. Len(ext[MapFile]) * BlockUnits = BlockUnits
      <4>1. Len(<<1>>) = 1 /\ 1 * BlockUnits = BlockUnits
        BY <1>1
      <4>2. QED
        BY <1>3, <4>1
    <3>5. QED
      BY <3>3, <3>4 DEF Mapped
  <2>2. FirstTotal <= 2 * BlockUnits * MapBits
    <3>1. PICK n \in Nat : n = BlockUnits * MapBits
      BY <1>1
    <3>2. 2 * BlockUnits * MapBits = 2 * n
      <4>1. \A x, y \in Nat : 2 * x * y = 2 * (x * y)
        OBVIOUS
      <4>2. QED
        BY <1>1, <3>1, <4>1
    <3>3. QED
      BY <1>1, <3>1, <3>2
  <2>3. hdr.total = FirstTotal
    BY <1>2
  <2>4. fork[MapFile].size = size
    BY <1>9
  <2>5. QED
    BY <1>1, <1>2, <1>5, <2>1, <2>2, <2>3, <2>4 DEF MapInv
<1>16. Owned = {1, 2}
  <2>1. ASSUME NEW b PROVE b \in Owned <=> b \in {1, 2}
    <3>1. \A f \in Files : f = MapFile \/ f = TreeFile \/ f \in DataFiles
      BY DEF Files, Specials
    <3>2. QED
      BY <1>3, <3>1, NotFiles, OwnedBlock
  <2>2. QED
    BY <2>1
<1>17. NoSharing
  <2>1. \A f \in Files : f = MapFile \/ f = TreeFile \/ f \in DataFiles
    BY DEF Files, Specials
  <2>2. \A f, g \in Files : \A i \in DOMAIN ext[f], j \in DOMAIN ext[g] :
          ext[f][i] = ext[g][j] => f = g /\ i = j
    BY <1>3, <2>1
  <2>3. Owned \cap (Reserved \cup {b \in Owned : b >= hdr.total}) = {}
    BY <1>1, <1>2, <1>16 DEF Reserved
  <2>4. QED
    BY <2>2, <2>3 DEF NoSharing
<1>18. MarkInv
  BY <1>1, <1>2, <1>16 DEF MarkInv
<1>19. FreeCount
  <2>1. {b \in 0 .. hdr.total - 1 : b \notin used} = 3 .. FirstTotal - 2
    <3>1. hdr.total = FirstTotal /\ used = {0, 1, 2, FirstTotal - 1}
      BY <1>2
    <3>2. \A b : b \in 0 .. FirstTotal - 1 /\ b \notin {0, 1, 2, FirstTotal - 1} <=>
                 b \in 3 .. FirstTotal - 2
      <4>1. PICK n \in Nat : n = FirstTotal /\ n >= 4
        BY <1>1
      <4>2. \A b : b \in 0 .. n - 1 /\ b \notin {0, 1, 2, n - 1} <=> b \in 3 .. n - 2
        <5>1. ASSUME NEW b \in Int PROVE b \in 0 .. n - 1 /\ b \notin {0, 1, 2, n - 1} <=> b \in 3 .. n - 2
          BY <4>1
        <5>2. \A b : b \in 0 .. n - 1 => b \in Int
          BY <4>1
        <5>3. \A b : b \in 3 .. n - 2 => b \in Int
          BY <4>1
        <5>4. QED
          BY <5>1, <5>2, <5>3
      <4>3. QED
        BY <4>1, <4>2
    <3>3. QED
      BY <3>1, <3>2
  <2>2. Cardinality(3 .. FirstTotal - 2) = FirstTotal - 4
    <3>1. 3 \in Int /\ FirstTotal - 2 \in Int
      BY <1>1
    <3>2. Cardinality(3 .. FirstTotal - 2) =
            IF 3 > FirstTotal - 2 THEN 0 ELSE FirstTotal - 2 - 3 + 1
      BY <3>1, FS_Interval
    <3>3. PICK n \in Nat : n = FirstTotal /\ n >= 4
      BY <1>1
    <3>4. (IF 3 > n - 2 THEN 0 ELSE n - 2 - 3 + 1) = n - 4
      BY <3>3
    <3>5. QED
      BY <3>2, <3>3, <3>4
  <2>3. QED
    <3>1. Cardinality({b \in 0 .. hdr.total - 1 : b \notin used}) = hdr.free
      BY <1>2, <2>1, <2>2
    <3>2. hdr.free + 0 = hdr.free
      BY <1>1, <1>2
    <3>3. QED
      BY <1>2, <3>1, <3>2 DEF FreeCount
<1>20. GrowInv
  BY <1>2 DEF GrowInv
<1>21. Clean
  BY <1>2, <1>10 DEF Clean, Header
<1>22. DiskInv
  <2>1. \A f \in Files : OnDisk(f) = fork[f]
    BY <1>21 DEF OnDisk, Clean, Files
  <2>2. \A f \in Files : fork[f].total \in Nat
    BY <1>10 DEF ForkType
  <2>3. ASSUME NEW f \in Files
        PROVE  /\ Len(OnDisk(f).ext) = OnDisk(f).total
               /\ \A i \in DOMAIN ext[f] :
                    i <= OnDisk(f).total => ext[f][i] = OnDisk(f).ext[i]
               /\ OnDisk(f).total <= Len(ext[f])
    <3>1. /\ OnDisk(f) = fork[f] /\ ext[f] = fork[f].ext
          /\ Len(fork[f].ext) = fork[f].total /\ fork[f].total \in Nat
      BY <1>13, <2>1, <2>2
    <3>2. fork[f].total <= Len(ext[f])
      <4>1. PICK n \in Nat : n = fork[f].total
        BY <3>1
      <4>2. Len(ext[f]) = n
        BY <3>1, <4>1, Zenon
      <4>3. n <= n
        OBVIOUS
      <4>4. QED
        BY <4>1, <4>2, <4>3
    <3>3. QED
      BY <3>1, <3>2
  <2>4. QED
    BY <1>2, <1>21, <2>3 DEF DiskInv, Clean
<1>25. ApartInv
  <2>1. \A f \in Files : OnDisk(f).ext = ext[f]
    <3>1. \A f \in Files : OnDisk(f) = fork[f]
      BY <1>21 DEF OnDisk, Clean, Files
    <3>2. \A f \in Files : ext[f] = fork[f].ext
      BY <1>13
    <3>3. QED
      BY <3>1, <3>2, Zenon
  <2>2. QED
    BY <1>17, <2>1 DEF ApartInv, NoSharing, BlocksOf
<1>23. primary \in HeaderType
  <2>1. hdr \in [total : Nat, free : Nat, next : Nat]
    BY <1>11, Facts
  <2>2. [s \in Specials |-> fork[s]] \in [Specials -> ForkType]
    BY <1>10 DEF Files
  <2>3. QED
    BY <1>2, <2>1, <2>2 DEF Header, HeaderType
<1>24. QED
  BY <1>11, <1>12, <1>14, <1>15, <1>17, <1>18, <1>19, <1>20, <1>22, <1>23,
     <1>25
     DEF AllocInv, HeaderType

(* A volume never shrinks, whatever has become of it: grow_hfs goes on only *)
(* with more blocks than there are.                                        *)
GrowsInv ==
  /\ "total" \in DOMAIN hdr /\ hdr.total \in Nat
  /\ Working =>
       /\ "then" \in DOMAIN op /\ "total" \in DOMAIN op
       /\ op.then \in {"return", "data", "enlarge", "mark"}
       /\ op.then = "enlarge" => op.total \in Nat /\ op.total > hdr.total
       /\ at = "enlarge" => op.then = "enlarge"

LEMMA GrowsStep ==
  ASSUME GrowsInv, [Next]_vars
  PROVE  GrowsInv' /\ (Narrow' => Narrow) /\ (Enlarge \/ hdr'.total = hdr.total)
<1> DEFINE Kept == GrowsInv' /\ hdr'.total = hdr.total
<1>1. Reach \in Nat /\ GrowTotals \subseteq Nat
  BY UnitsAssumption, GrowAssumption
<1>2. ASSUME NEW o, op' = o, at' = "start", hdr' = hdr,
             "then" \in DOMAIN o, "total" \in DOMAIN o,
             o.then \in {"return", "data", "enlarge", "mark"},
             o.then = "enlarge" => o.total \in Nat /\ o.total > hdr.total
      PROVE  Kept
  BY <1>2 DEF GrowsInv, Working
<1>3. ASSUME hdr'.total = hdr.total, "total" \in DOMAIN hdr', ~Working' PROVE Kept
  BY <1>3 DEF GrowsInv
<1>4. ASSUME hdr'.total = hdr.total, "total" \in DOMAIN hdr', Working,
             op'.then = op.then, op'.total = op.total, DOMAIN op' = DOMAIN op,
             at' = "enlarge" => op.then = "enlarge"
      PROVE  Kept
  BY <1>4 DEF GrowsInv
<1>5. Caller => Kept
  <2>1. ASSUME NEW f \in DataFiles, Open(f) PROVE Kept
    BY <1>3, <2>1 DEF Open, Working, GrowsInv
  <2>2. Close => Kept
    BY <1>3 DEF Close, Working, GrowsInv
  <2>3. ASSUME NEW size \in Sizes, SetSize(size) PROVE Kept
    BY <1>2, <2>3 DEF SetSize, Start, Call
  <2>4. GrowTree => Kept
    BY <1>2 DEF GrowTree, Start, Call
  <2>5. ASSUME NEW loc, NEW len, WriteFile(loc, len) PROVE Kept
    <3>1. PICK o : o = [Call(open, loc + len, "data") EXCEPT !.loc = loc, !.len = len]
      OBVIOUS
    <3>2. "then" \in DOMAIN o /\ "total" \in DOMAIN o /\ o.then = "data"
      BY <3>1 DEF Call
    <3>3. hdr' = hdr /\ op' = o /\ at' \in {"start", "data"}
      BY <2>5, <3>1 DEF WriteFile, Start
    <3>4. QED
      BY <3>2, <3>3 DEF GrowsInv, Working
  <2>6. ASSUME NEW total \in GrowTotals, GrowVolume(total) PROVE Kept
    <3>1. total \in Nat /\ total > hdr.total /\ hdr' = hdr
      BY <1>1, <2>6 DEF GrowVolume, Start
    <3>2. \/ at' = "exited"
          \/ /\ op' = [Call(MapFile, total \div MapBits, "enlarge") EXCEPT !.total = total]
             /\ at' \in {"start", "enlarge"}
      BY <2>6 DEF GrowVolume, Start
    <3>3. ASSUME op' = [Call(MapFile, total \div MapBits, "enlarge") EXCEPT !.total = total]
          PROVE  /\ "then" \in DOMAIN op' /\ "total" \in DOMAIN op'
                 /\ op'.then = "enlarge" /\ op'.total = total
      BY <3>3 DEF Call
    <3>4. QED
      BY <3>1, <3>2, <3>3 DEF GrowsInv, Working
  <2>7. QED
    BY <2>1, <2>2, <2>3, <2>4, <2>5, <2>6 DEF Caller
<1>6. UNCHANGED vars => Kept
  BY DEF vars, GrowsInv, Working
<1>7. Refuse \/ Keep \/ SaveExtents \/ SaveAlternate => Kept
  <2>1. Refuse \/ Keep \/ SaveExtents \/ SaveAlternate =>
          hdr' = hdr /\ Working /\ (op' = op \/ ~Working')
          /\ (at' = "enlarge" => op.then = "enlarge")
    BY DEF Refuse, Keep, SaveExtents, SaveAlternate, Working
  <2>2. QED
    BY <1>3, <1>4, <2>1 DEF GrowsInv
<1>8. BeginGrow \/ Skip \/ Take \/ Shrink => Kept
  <2>1. SUFFICES ASSUME BeginGrow \/ Skip \/ Take \/ Shrink PROVE Kept
    OBVIOUS
  <2>2. Working /\ at' # "enlarge"
    BY <2>1 DEF BeginGrow, Skip, Take, Shrink, Working
  <2>3. hdr'.total = hdr.total /\ "total" \in DOMAIN hdr'
    <3>1. \E n, v : hdr' = hdr \/ hdr' = [hdr EXCEPT !.next = v] \/ hdr' = [hdr EXCEPT !.free = v]
      BY <2>1 DEF BeginGrow, Skip, Take, Shrink
    <3>2. QED
      BY <3>1 DEF GrowsInv
  <2>4. op'.then = op.then /\ op'.total = op.total /\ DOMAIN op' = DOMAIN op
    <3>1. \E l, r, c : \/ op' = op
                        \/ op' = [op EXCEPT !.left = l, !.fresh = r, !.cur = c]
                        \/ op' = [op EXCEPT !.fresh = r, !.cur = c]
      <4>1. BeginGrow \/ Take => \E l, r, c : op' = [op EXCEPT !.left = l, !.fresh = r, !.cur = c]
        <5>1. ASSUME BeginGrow
              PROVE  \E l, r, c : op' = [op EXCEPT !.left = l, !.fresh = r, !.cur = c]
          BY <5>1, Zenon DEF BeginGrow
        <5>2. Take => \E l, c : op' = [op EXCEPT !.left = l, !.fresh = FALSE, !.cur = c]
          BY Zenon DEF Take
        <5>3. QED
          BY <5>1, <5>2
      <4>2. Skip => \E r, c : op' = [op EXCEPT !.fresh = r, !.cur = c]
        BY Zenon DEF Skip
      <4>3. Shrink => op' = op
        BY DEF Shrink
      <4>4. QED
        BY <2>1, <4>1, <4>2, <4>3
    <3>2. QED
      BY <2>2, <3>1 DEF GrowsInv
  <2>5. QED
    BY <1>4, <2>2, <2>3, <2>4
<1>9. ASSUME SavePrimary \/ SaveCatalog PROVE Kept
  <2>1. hdr' = hdr /\ Working /\ op.then \in {"return", "data", "enlarge", "mark"}
    BY <1>9 DEF SavePrimary, SaveCatalog, Working, GrowsInv
  <2>2. \/ at' = "catalog" /\ op' = op
        \/ at' = "idle"
        \/ at' = op.then /\ op' = op /\ at' # "return"
    BY <1>9 DEF SavePrimary, SaveCatalog, Return
  <2>3. QED
    BY <1>3, <1>4, <2>1, <2>2 DEF GrowsInv, Working
<1>10. WriteData => Kept
  BY <1>3 DEF WriteData, Working, GrowsInv
<1>11. Reserve => Kept
  <2>1. SUFFICES ASSUME Reserve PROVE Kept
    OBVIOUS
  <2>2. PICK b, size : op' = [Call(MapFile, size, "mark") EXCEPT !.blind = b]
    BY <2>1, Zenon DEF Reserve
  <2>3. op'.then = "mark" /\ "then" \in DOMAIN op' /\ "total" \in DOMAIN op'
    BY <2>2 DEF Call
  <2>4. hdr' = hdr /\ at' # "enlarge"
    BY <2>1 DEF Reserve
  <2>5. QED
    BY <2>3, <2>4 DEF GrowsInv
<1>12. Mark => Kept
  <2>1. SUFFICES ASSUME Mark PROVE Kept
    OBVIOUS
  <2>2. op' = [op EXCEPT !.then = "return"] /\ hdr' = hdr /\ at' = "alternate" /\ Working
    BY <2>1 DEF Mark, Working
  <2>3. op'.then = "return" /\ DOMAIN op' = DOMAIN op
    BY <2>2 DEF GrowsInv
  <2>4. QED
    BY <2>2, <2>3 DEF GrowsInv
<1>13. Enlarge => GrowsInv' /\ hdr'.total \in Nat /\ hdr.total <= hdr'.total
  <2>1. SUFFICES ASSUME Enlarge
                 PROVE  GrowsInv' /\ hdr'.total \in Nat /\ hdr.total <= hdr'.total
    OBVIOUS
  <2>2. op.total \in Nat /\ op.total > hdr.total /\ ~Working'
    BY <2>1 DEF Enlarge, Working, GrowsInv
  <2>3. PICK v : hdr' = hdr \/ hdr' = [hdr EXCEPT !.total = op.total, !.free = v]
    BY <2>1 DEF Enlarge
  <2>4. "total" \in DOMAIN hdr' /\ (hdr'.total = hdr.total \/ hdr'.total = op.total)
    BY <2>3 DEF GrowsInv
  <2>5. QED
    BY <2>2, <2>4 DEF GrowsInv
<1>14. Kept \/ (Enlarge /\ GrowsInv' /\ hdr'.total \in Nat /\ hdr.total <= hdr'.total)
  <2>1. Over => UNCHANGED vars
    BY DEF Over
  <2>2. QED
    BY <1>5, <1>6, <1>7, <1>8, <1>9, <1>10, <1>11, <1>12, <1>13, <2>1 DEF Next, Step
<1>15. QED
  BY <1>1, <1>14 DEF Narrow, GrowsInv

LEMMA GrowsInit == Init => GrowsInv
BY VolumeAssumption DEF Init, GrowsInv, Working

(* While no file has needed an overflow record and every block can be      *)
(* sought, every state has AllocInv.                                       *)
THEOREM AllocInductive == Spec /\ []FewExtents => [](Narrow => AllocInv)
<1>1. Init => (Narrow => AllocInv)
  BY AllocInit
<1>2. AllocInv /\ FewExtents /\ FewExtents' /\ [Next]_vars => (Narrow' => AllocInv')
  <2>1. ASSUME AllocInv, FewExtents, FewExtents', [Next]_vars, Narrow' PROVE AllocInv'
    <3>1. CASE Next
      BY <2>1, <3>1, AllocStep
    <3>2. CASE UNCHANGED vars
      <4>1. UNCHANGED <<used, hdr, fork, ext, open, catalog, overflow, alternate, primary,
                        image, at, op, wild>>
        BY <3>2 DEF vars, disk
      <4>2. TypeOK' /\ ControlInv'
        BY <2>1, <4>1 DEF AllocInv, TypeOK, Mapped, ControlInv, Working, MapBytes, Stopped
      <4>3. ShapeInv' /\ MapInv' /\ NoSharing'
        <5>1. ShapeInv'
          BY <2>1, <4>1 DEF AllocInv, ShapeInv, InWork, Need, Have
        <5>2. MapInv'
          BY <2>1, <4>1 DEF AllocInv, MapInv, Mapped
        <5>3. NoSharing'
          <6>1. Owned' = Owned /\ Reserved' = Reserved
            BY <4>1 DEF Owned, Reserved
          <6>2. QED
            BY <2>1, <4>1, <6>1 DEF AllocInv, NoSharing
        <5>4. QED
          BY <5>1, <5>2, <5>3
      <4>4. MarkInv' /\ FreeCount'
        BY <2>1, <4>1 DEF AllocInv, MarkInv, Owned, Grown, Stopped, FreeCount
      <4>5. GrowInv'
        BY <2>1, <4>1 DEF AllocInv, GrowInv, Mapped, Grown
      <4>6. DiskInv'
        BY <2>1, <4>1 DEF AllocInv, DiskInv, OnDisk, Header, InWork, Need
      <4>8. ApartInv'
        BY <2>1, <4>1 DEF AllocInv, ApartInv, OnDisk
      <4>7. QED
        BY <2>1, <4>1, <4>2, <4>3, <4>4, <4>5, <4>6, <4>8 DEF AllocInv
    <3>3. QED
      BY <2>1, <3>1, <3>2
  <2>2. QED
    BY <2>1
<1>3. Init => GrowsInv
  BY GrowsInit
<1>4. GrowsInv /\ [Next]_vars => GrowsInv' /\ (Narrow' => Narrow)
  BY GrowsStep
<1>5. QED
  BY <1>1, <1>2, <1>3, <1>4, PTL DEF Spec

(* rawfile.c and grow_hfs keep every variable within its type: the loop of *)
(* allocate reads no bit beyond the bitmap, nextAllocation names a block.  *)
THEOREM AllocatorTypes == Spec /\ []FewExtents => [](Narrow => TypeOK)
<1>1. AllocInv => TypeOK
  BY DEF AllocInv
<1>2. QED
  BY <1>1, AllocInductive, PTL

(* The bitmap, the header's count of free blocks and the extents of the    *)
(* files agree: no block is lost, counted twice or given to two files.     *)
THEOREM SpaceIsAccounted == Spec /\ []FewExtents => []SpaceAccounting
<1>1. (Narrow => AllocInv) => SpaceAccounting
  <2>1. ASSUME AllocInv, at = "idle", ~wild PROVE used = Owned \cup Reserved
    <3>1. ~Grown /\ ~Stopped
      BY <2>1 DEF AllocInv, ControlInv, Grown, Stopped
    <3>2. QED
      BY <2>1, <3>1 DEF AllocInv, MarkInv, Reserved
  <2>2. QED
    BY <2>1 DEF AllocInv, SpaceAccounting, BitmapExact
<1>2. QED
  BY <1>1, AllocInductive, PTL

(* A crash at any step leaves every file of the disk the blocks it had:    *)
(* shared with no other and, but for those allocate is cutting off, marked *)
(* in the bitmap.                                                          *)
THEOREM FilesSurvive == Spec /\ []FewExtents => []CrashKeepsFiles
<1>1. FewExtents /\ (Narrow => AllocInv) => CrashKeepsFiles
  <2>1. SUFFICES ASSUME AllocInv, FewExtents
                 PROVE  /\ Durable
                        /\ \A f \in Files :
                             /\ \A i \in DOMAIN Found(f).blocks :
                                  i <= Len(ext[f]) => Found(f).blocks[i] \in used
                             /\ \A g \in Files \ {f} :
                                  BlocksOf(Found(f).blocks) \cap BlocksOf(Found(g).blocks) = {}
    BY DEF CrashKeepsFiles
  <2>2. Durable
    <3>1. ASSUME at = "idle" PROVE /\ primary = Header /\ alternate = Header
                                   /\ \A f \in DataFiles : catalog[f] = fork[f]
      BY <2>1, <3>1, CleanFacts DEF AllocInv, DiskInv, Clean
    <3>2. QED
      BY <3>1 DEF Durable
  <2>3. ASSUME NEW f \in Files
        PROVE  /\ OnDisk(f) \in ForkType /\ Found(f).blocks = OnDisk(f).ext
               /\ Len(OnDisk(f).ext) = OnDisk(f).total
    <3>1. OnDisk(f) \in ForkType
      <4>1. CASE f \in DataFiles
        BY <2>1, <4>1 DEF AllocInv, TypeOK, OnDisk
      <4>2. CASE f \in Specials
        <5>1. f \notin DataFiles
          BY <4>2, FilesAssumption
        <5>2. QED
          BY <2>1, <4>2, <5>1 DEF AllocInv, OnDisk
      <4>3. QED
        BY <4>1, <4>2 DEF Files
    <3>2. QED
      BY <2>1, <3>1, FollowFew DEF Found, AllocInv, DiskInv
  <2>4. ASSUME NEW f \in Files, NEW i \in DOMAIN Found(f).blocks, i <= Len(ext[f])
        PROVE  Found(f).blocks[i] \in used
    <3>1. i \in 1 .. OnDisk(f).total
      BY <2>3, <2>4 DEF ForkType
    <3>2. i \in DOMAIN ext[f] /\ i <= OnDisk(f).total
      BY <2>1, <2>3, <2>4, <3>1, Facts DEF AllocInv, ForkType
    <3>3. ext[f][i] = Found(f).blocks[i]
      BY <2>1, <2>3, <3>2 DEF AllocInv, DiskInv
    <3>4. ext[f][i] \in Owned
      BY <3>2, OwnedBlock
    <3>5. QED
      BY <2>1, <3>3, <3>4, OwnedRange
  <2>5. ASSUME NEW f \in Files, NEW g \in Files \ {f}
        PROVE  BlocksOf(OnDisk(f).ext) \cap BlocksOf(OnDisk(g).ext) = {}
    <3>1. ASSUME NEW h \in Files, ~InWork(h) PROVE OnDisk(h).ext = ext[h]
      <4>1. OnDisk(h) = fork[h]
        BY <2>1, <3>1 DEF AllocInv, DiskInv, OnDisk, Files
      <4>2. QED
        BY <2>1, <3>1, <4>1 DEF AllocInv, ShapeInv
    <3>2. ~InWork(f) \/ ~InWork(g)
      BY DEF InWork
    <3>3. /\ BlocksOf(OnDisk(f).ext) \cap BlocksOf(ext[g]) = {}
          /\ BlocksOf(OnDisk(g).ext) \cap BlocksOf(ext[f]) = {}
      BY <2>1 DEF AllocInv, ApartInv
    <3>4. QED
      BY <3>1, <3>2, <3>3
  <2>6. QED
    BY <2>2, <2>3, <2>4, <2>5
<1>2. QED
  BY <1>1, AllocInductive, PTL

-----------------------------------------------------------------------------
(* What the blocks of the files hold.                                      *)

(* The block, within the list of a file, that unit u is in.                *)
BlockNo(u) == (u \div BlockUnits) + 1

UnitsInv ==
  /\ DOMAIN image = 0 .. 2 * BlockUnits * MapBits * BlockUnits - 1
  /\ \A f \in DataFiles : \A u \in Nat :
       BlockNo(u) \in DOMAIN ext[f] => image[Place(ext[f], u)] \in {Zero, <<f, u>>}

(* What rawFileWrite writes is in the file by the time it is written.      *)
WriteInv ==
  /\ at = "data" => op.then = "data"
  /\ op # NoOp /\ op.then = "data" =>
       /\ op.len >= 1 /\ op.size = op.loc + op.len
       /\ at \in {"alternate", "primary", "catalog", "data"} =>
            op.size <= fork[op.f].size

DataInv == UnitsInv /\ WriteInv

(* A unit is a place in one block.                                         *)
LEMMA UnitPlace ==
  ASSUME NEW u \in Nat
  PROVE  /\ u \div BlockUnits \in Nat /\ u % BlockUnits \in Nat
         /\ u % BlockUnits < BlockUnits
         /\ u = (u \div BlockUnits) * BlockUnits + (u % BlockUnits)
         /\ BlockNo(u) \in Nat \ {0}
<1>1. BlockUnits \in Nat \ {0}
  BY UnitsAssumption
<1>2. /\ u \div BlockUnits \in Nat /\ u % BlockUnits \in Nat
      /\ u % BlockUnits < BlockUnits
      /\ u = (u \div BlockUnits) * BlockUnits + (u % BlockUnits)
  BY <1>1, Quotient
<1> QED BY <1>2 DEF BlockNo

(* The place of a unit of a file, in the volume.                           *)
LEMMA PlaceParts ==
  ASSUME AllocInv, NEW f \in Files, NEW u \in Nat, BlockNo(u) \in DOMAIN ext[f]
  PROVE  /\ Place(ext[f], u) \in Nat
         /\ Place(ext[f], u) \in 0 .. 2 * BlockUnits * MapBits * BlockUnits - 1
         /\ Place(ext[f], u) \div BlockUnits = ext[f][BlockNo(u)]
         /\ Place(ext[f], u) % BlockUnits = u % BlockUnits
         /\ ext[f][BlockNo(u)] \in used
<1>1. BlockUnits \in Nat \ {0} /\ MapBits \in Nat \ {0}
  BY UnitsAssumption
<1>2. PICK b \in Nat : b = ext[f][BlockNo(u)]
  BY Facts DEF AllocInv
<1>3. PICK r \in Nat : r = u % BlockUnits /\ r < BlockUnits
  BY UnitPlace
<1>4. b \in used /\ b < hdr.total - 1
  <2>1. b \in Owned
    BY <1>2, OwnedBlock
  <2> QED BY <2>1, OwnedRange
<1>5. PICK m \in Nat : m = 2 * BlockUnits * MapBits
  BY <1>1
<1>6. b + 1 <= m
  <2>1. hdr.total <= m /\ hdr.total \in Nat
    BY <1>5, Facts DEF AllocInv, MapInv
  <2> QED BY <1>4, <2>1
<1>7. PICK p \in Nat : p = b * BlockUnits + r
  BY <1>1
<1>8. Place(ext[f], u) = p
  BY <1>2, <1>3, <1>7 DEF Place, BlockNo
<1>9. p \div BlockUnits = b /\ p % BlockUnits = r
  BY <1>1, <1>3, <1>7, QuotientUnique
<1>10. p < m * BlockUnits /\ m * BlockUnits \in Nat
  <2>1. \A x, y \in Nat : x <= y => x * BlockUnits <= y * BlockUnits
    BY <1>1
  <2>2. (b + 1) * BlockUnits <= m * BlockUnits
    BY <1>6, <2>1
  <2>3. (b + 1) * BlockUnits = b * BlockUnits + BlockUnits
    BY <1>1
  <2>4. b * BlockUnits \in Nat /\ m * BlockUnits \in Nat
    BY <1>1
  <2> QED BY <1>1, <1>3, <1>7, <2>2, <2>3, <2>4
<1>11. p \in 0 .. m * BlockUnits - 1
  BY <1>10
<1> QED BY <1>2, <1>3, <1>4, <1>5, <1>8, <1>9, <1>11

(* No two units of the files are in one place.                             *)
LEMMA PlaceOnce ==
  ASSUME AllocInv, NEW f \in Files, NEW u \in Nat, BlockNo(u) \in DOMAIN ext[f],
         NEW g \in Files, NEW v \in Nat, BlockNo(v) \in DOMAIN ext[g],
         Place(ext[f], u) = Place(ext[g], v)
  PROVE  f = g /\ u = v
<1>1. ext[f][BlockNo(u)] = ext[g][BlockNo(v)] /\ u % BlockUnits = v % BlockUnits
  BY PlaceParts
<1>2. f = g /\ BlockNo(u) = BlockNo(v)
  BY <1>1, SharingFacts
<1>3. PICK q \in Nat, p \in Nat : /\ q = u \div BlockUnits /\ p = v \div BlockUnits
                                  /\ q + 1 = p + 1
  BY <1>2, UnitPlace DEF BlockNo
<1>4. q = p
  BY <1>3
<1>5. u = v
  BY <1>1, <1>3, <1>4, UnitPlace
<1> QED BY <1>2, <1>5

(* A unit of a file is in one of its blocks.                               *)
LEMMA UnitInSize ==
  ASSUME NEW n \in Nat, NEW u \in Nat, u < n
  PROVE  BlockNo(u) <= Blocks(n) /\ Blocks(n) \in Nat
<1>1. BlockUnits \in Nat \ {0}
  BY UnitsAssumption
<1>2. PICK q \in Nat, r \in Nat : /\ q = u \div BlockUnits /\ r < BlockUnits
                                  /\ u = q * BlockUnits + r
  BY <1>1, Quotient
<1>3. PICK p \in Nat, s \in Nat : /\ p = n \div BlockUnits /\ s = n % BlockUnits
                                  /\ s < BlockUnits /\ n = p * BlockUnits + s
  BY <1>1, Quotient
<1>4. Blocks(n) = p + (IF s = 0 THEN 0 ELSE 1)
  BY <1>3 DEF Blocks
<1>5. ~(p < q)
  <2>1. SUFFICES ASSUME p < q PROVE FALSE
    OBVIOUS
  <2>2. \A x, y \in Nat : x <= y => x * BlockUnits <= y * BlockUnits
    BY <1>1
  <2>3. (p + 1) * BlockUnits <= q * BlockUnits
    BY <2>1, <2>2
  <2>4. (p + 1) * BlockUnits = p * BlockUnits + BlockUnits
    BY <1>1
  <2>5. p * BlockUnits \in Nat /\ q * BlockUnits \in Nat
    BY <1>1
  <2> QED BY <1>1, <1>2, <1>3, <2>3, <2>4, <2>5
<1>6. p = q => s # 0
  BY <1>1, <1>2, <1>3
<1>7. BlockNo(u) = q + 1
  BY <1>2 DEF BlockNo
<1> QED BY <1>4, <1>5, <1>6, <1>7

(* A file has blocks for its size, also while it grows.                    *)
LEMMA SizeFits ==
  ASSUME AllocInv, NEW f \in DataFiles
  PROVE  /\ SizeOf(f) \in Nat
         /\ \A u \in Nat : u < SizeOf(f) => BlockNo(u) \in DOMAIN ext[f]
<1> USE DEF AllocInv
<1>1. /\ f \in Files /\ fork[f].size \in Nat /\ fork[f].total = Blocks(fork[f].size)
      /\ fork[f].total \in Nat
      /\ Len(fork[f].ext) = fork[f].total /\ Len(ext[f]) \in Nat
      /\ DOMAIN ext[f] = 1 .. Len(ext[f])
  BY NotFiles, Facts DEF ShapeInv
<1>2. SizeOf(f) \in Nat /\ Blocks(SizeOf(f)) <= Len(ext[f])
  <2>1. CASE at = "extents" /\ InWork(f)
    <3>1. SizeOf(f) = op.size /\ op.f = f
      BY <2>1 DEF SizeOf, InWork
    <3>2. op.size \in Nat
      BY <2>1, OpFacts DEF ControlInv, InWork
    <3>3. Len(ext[f]) = Blocks(op.size)
      BY <2>1, <3>1 DEF ShapeInv, Need
    <3> QED BY <1>1, <3>1, <3>2, <3>3
  <2>2. CASE ~(at = "extents" /\ InWork(f))
    <3>1. SizeOf(f) = fork[f].size
      BY <2>2 DEF SizeOf, InWork, ControlInv
    <3>2. CASE at = "loop" /\ InWork(f)
      <4>1. Len(ext[f]) >= fork[f].total
        BY <3>2 DEF ShapeInv, InWork, Have
      <4> QED BY <1>1, <3>1, <4>1
    <3>3. CASE ~(at = "loop" /\ InWork(f))
      <4>1. ext[f] = fork[f].ext
        BY <1>1, <2>2, <3>3 DEF ShapeInv
      <4> QED BY <1>1, <3>1, <4>1
    <3> QED BY <3>2, <3>3
  <2> QED BY <2>1, <2>2
<1>3. ASSUME NEW u \in Nat, u < SizeOf(f) PROVE BlockNo(u) \in DOMAIN ext[f]
  <2>1. BlockNo(u) <= Blocks(SizeOf(f)) /\ Blocks(SizeOf(f)) \in Nat
    BY <1>2, <1>3, UnitInSize
  <2>2. BlockNo(u) \in Nat \ {0}
    BY UnitPlace
  <2> QED BY <1>1, <1>2, <2>1, <2>2
<1> QED BY <1>2, <1>3

(* The loop of allocate is the one step that zeroes, rawFileWrite the one  *)
(* that writes.                                                            *)
LEMMA ImageSteps == Next => WriteData \/ Take \/ image' = image
<1>1. Caller => image' = image
  BY DEF Caller, Open, Close, SetSize, GrowTree, WriteFile, GrowVolume, Start, disk
<1>2. Over => image' = image
  BY DEF Over, vars, disk
<1>3. Step => WriteData \/ Take \/ image' = image
  <2>1. Refuse \/ BeginGrow \/ Skip \/ Shrink \/ Keep => image' = image
    BY DEF Refuse, BeginGrow, Skip, Shrink, Keep, disk
  <2>2. SaveExtents \/ SaveAlternate \/ SavePrimary \/ SaveCatalog => image' = image
    BY DEF SaveExtents, SaveAlternate, SavePrimary, SaveCatalog
  <2>3. Enlarge \/ Reserve \/ Mark => image' = image
    BY DEF Enlarge, Reserve, Mark, disk
  <2> QED BY <2>1, <2>2, <2>3 DEF Step
<1> QED BY <1>1, <1>2, <1>3 DEF Next

(* Every other step leaves a file its blocks, as far as it keeps them, and *)
(* what is in them; a block that it gets is zero.                          *)
LEMMA BlocksKept ==
  ASSUME AllocInv, FewExtents, FewExtents', Next, NEW f \in Files
  PROVE  /\ \A i \in DOMAIN ext[f] : i \in DOMAIN ext'[f] => ext'[f][i] = ext[f][i]
         /\ ~Take => DOMAIN ext'[f] \subseteq DOMAIN ext[f]
<1> USE DEF AllocInv
<1>1. CASE ext' = ext
  BY <1>1
<1>2. CASE Take
  BY <1>2, TakenList DEF AllocInv
<1>3. CASE Shrink
  <2>1. /\ Len(ext'[op.f]) = Need /\ \A i \in 1 .. Need : ext'[op.f][i] = ext[op.f][i]
        /\ \A g \in Files \ {op.f} : ext'[g] = ext[g]
        /\ Need \in Nat /\ Need < Len(ext[op.f]) /\ ext' \in [Files -> Seq(Nat)]
        /\ op.f \in Files
    BY <1>3, Shrunk, OpFacts
  <2>2. DOMAIN ext'[op.f] = 1 .. Need /\ DOMAIN ext[op.f] = 1 .. Len(ext[op.f])
        /\ Len(ext[op.f]) \in Nat
    BY <2>1, Facts
  <2>3. CASE f = op.f
    BY <2>1, <2>2, <2>3
  <2>4. CASE f # op.f
    BY <2>1, <2>4
  <2> QED BY <2>3, <2>4
<1>4. Quiet \/ BeginGrow \/ Keep \/ Skip \/ SaveExtents \/ Enlarge \/ Mark => ext' = ext
  BY DEF Quiet, BeginGrow, Keep, Skip, SaveExtents, Enlarge, Mark
<1> QED BY <1>1, <1>2, <1>3, <1>4, QuietSteps

LEMMA UnitsKept ==
  ASSUME AllocInv, UnitsInv, FewExtents, FewExtents', Next, ~WriteData,
         NEW f \in DataFiles, NEW u \in Nat, BlockNo(u) \in DOMAIN ext'[f]
  PROVE  IF BlockNo(u) \in DOMAIN ext[f]
         THEN image'[Place(ext'[f], u)] = image[Place(ext[f], u)]
         ELSE image'[Place(ext'[f], u)] = Zero
<1>1. f \in Files
  BY NotFiles
<1>2. CASE BlockNo(u) \in DOMAIN ext[f]
  <2>1. Place(ext'[f], u) = Place(ext[f], u)
    BY <1>1, <1>2, BlocksKept DEF Place, BlockNo
  <2>2. CASE image' = image
    BY <1>2, <2>1, <2>2
  <2>3. CASE Take
    <3>1. /\ Place(ext[f], u) \in DOMAIN image
          /\ Place(ext[f], u) \div BlockUnits # op.cur
      <4>1. op.cur \notin used
        BY <2>3 DEF Take
      <4> QED BY <1>1, <1>2, <4>1, PlaceParts DEF UnitsInv
    <3>2. image' = [p \in DOMAIN image |-> IF p \div BlockUnits = op.cur THEN Zero
                                           ELSE image[p]]
      BY <2>3, Taken DEF Zeroed
    <3>3. image'[Place(ext[f], u)] = image[Place(ext[f], u)]
      BY <3>1, <3>2
    <3> QED BY <1>2, <2>1, <3>3
  <2> QED BY <2>2, <2>3, ImageSteps
<1>3. CASE BlockNo(u) \notin DOMAIN ext[f]
  <2>1. Take
    BY <1>1, <1>3, BlocksKept
  <2>2. /\ op.f = f /\ DOMAIN ext[f] = 1 .. Len(ext[f]) /\ Len(ext[f]) \in Nat
        /\ DOMAIN ext'[f] = 1 .. Len(ext[f]) + 1
        /\ ext'[f][Len(ext[f]) + 1] = op.cur
    <3>1. op.f = f
      BY <1>1, <1>3, <2>1, TakenList
    <3>2. ext' \in [Files -> Seq(Nat)] /\ Len(ext'[f]) = Len(ext[f]) + 1
          /\ ext'[f][Len(ext[f]) + 1] = op.cur
      BY <2>1, <3>1, TakenList
    <3> QED BY <1>1, <3>1, <3>2, Facts DEF AllocInv
  <2>3. BlockNo(u) = Len(ext[f]) + 1
    <3>1. PICK n \in Nat, b \in Nat \ {0} : n = Len(ext[f]) /\ b = BlockNo(u)
      BY <2>2, UnitPlace
    <3>2. b \in 1 .. n + 1 /\ b \notin 1 .. n
      BY <1>3, <2>2, <3>1
    <3> QED BY <3>1, <3>2
  <2>4. PICK b \in Nat, r \in Nat : /\ b = op.cur /\ r = u % BlockUnits
                                    /\ r < BlockUnits /\ b < hdr.total - 1
    BY <2>1, Taken, UnitPlace
  <2>5. Place(ext'[f], u) = b * BlockUnits + r
    BY <2>2, <2>3, <2>4 DEF Place, BlockNo
  <2>6. BlockUnits \in Nat \ {0} /\ MapBits \in Nat \ {0}
    BY UnitsAssumption
  <2>7. PICK m \in Nat : m = 2 * BlockUnits * MapBits
    BY <2>6
  <2>8. b + 1 <= m
    <3>1. hdr.total <= m /\ hdr.total \in Nat
      BY <2>7, Facts DEF AllocInv, MapInv
    <3> QED BY <2>4, <3>1
  <2>9. PICK p \in Nat : p = b * BlockUnits + r
    BY <2>6
  <2>10. p \in 0 .. m * BlockUnits - 1
    <3>1. \A x, y \in Nat : x <= y => x * BlockUnits <= y * BlockUnits
      BY <2>6
    <3>2. (b + 1) * BlockUnits <= m * BlockUnits
      BY <2>8, <3>1
    <3>3. (b + 1) * BlockUnits = b * BlockUnits + BlockUnits
      BY <2>6
    <3>4. b * BlockUnits \in Nat /\ m * BlockUnits \in Nat
      BY <2>6
    <3> QED BY <2>4, <2>6, <2>9, <3>2, <3>3, <3>4
  <2>11. p \in DOMAIN image /\ p \div BlockUnits = op.cur
    <3>1. p \in DOMAIN image
      BY <2>7, <2>10 DEF UnitsInv
    <3>2. p \div BlockUnits = b
      BY <2>4, <2>6, <2>9, QuotientUnique
    <3> QED BY <2>4, <3>1, <3>2
  <2>12. image' = [x \in DOMAIN image |-> IF x \div BlockUnits = op.cur THEN Zero
                                          ELSE image[x]]
    BY <2>1, Taken DEF Zeroed
  <2>13. image'[p] = Zero
    BY <2>11, <2>12
  <2> QED BY <1>3, <2>5, <2>9, <2>13
<1> QED BY <1>2, <1>3

(* What is written is where it was to be written, and nowhere else.        *)
LEMMA DataWritten ==
  ASSUME AllocInv, UnitsInv, WriteInv, WriteData,
         NEW f \in DataFiles, NEW u \in Nat, BlockNo(u) \in DOMAIN ext[f]
  PROVE  /\ ext' = ext
         /\ image'[Place(ext[f], u)] =
              IF f = op.f /\ u \in op.loc .. op.loc + op.len - 1
              THEN <<f, u>> ELSE image[Place(ext[f], u)]
<1> DEFINE units == op.loc .. op.loc + op.len - 1
           goal(v) == Place(ext[op.f], v)
           place == Place(ext[f], u)
<1>1. ext' = ext /\ image' = [p \in DOMAIN image |->
                                IF \E v \in units : goal(v) = p
                                THEN <<op.f, CHOOSE v \in units : goal(v) = p>>
                                ELSE image[p]]
  BY DEF WriteData
<1>2. /\ op \in OpType /\ op.f \in DataFiles /\ op.f \in Files /\ f \in Files
      /\ op.loc \in Nat /\ op.len \in Nat /\ op.size = op.loc + op.len
      /\ op.size <= fork[op.f].size
  <2>1. at = "data" /\ op # NoOp /\ op \in OpType /\ op.f \in DataFiles
    BY DEF WriteData, AllocInv, ControlInv, Working
  <2> QED BY <2>1, OpFacts, NotFiles DEF WriteInv
<1>3. \A v \in units : v \in Nat /\ BlockNo(v) \in DOMAIN ext[op.f]
  <2>1. SizeOf(op.f) = fork[op.f].size /\ fork[op.f].size \in Nat
    BY <1>2, Facts DEF WriteData, SizeOf, AllocInv
  <2>2. ASSUME NEW v \in units PROVE v \in Nat /\ v < fork[op.f].size
    BY <1>2, <2>1
  <2> QED BY <1>2, <2>1, <2>2, SizeFits
<1>4. \A v \in units : goal(v) = place => op.f = f /\ v = u
  BY <1>2, <1>3, PlaceOnce
<1>5. place \in DOMAIN image
  BY <1>2, PlaceParts DEF UnitsInv
<1>6. CASE f = op.f /\ u \in units
  <2>1. goal(u) = place
    BY <1>6
  <2>2. \E v \in units : goal(v) = place
    BY <1>6, <2>1
  <2>3. (CHOOSE v \in units : goal(v) = place) = u
    <3>1. PICK w : w = CHOOSE v \in units : goal(v) = place
      OBVIOUS
    <3>2. w \in units /\ goal(w) = place
      BY <2>2, <3>1
    <3> QED BY <1>4, <3>1, <3>2
  <2>4. image'[place] = <<op.f, CHOOSE v \in units : goal(v) = place>>
    <3> HIDE DEF units, goal, place
    <3> QED BY <1>1, <1>5, <2>2
  <2> QED BY <1>1, <1>6, <2>3, <2>4
<1>7. CASE ~(f = op.f /\ u \in units)
  <2>1. ~\E v \in units : goal(v) = place
    BY <1>4, <1>7
  <2>2. image'[place] = image[place]
    <3> HIDE DEF units, goal, place
    <3> QED BY <1>1, <1>5, <2>1
  <2> QED BY <1>1, <1>7, <2>2
<1> QED BY <1>6, <1>7

LEMMA UnitsStep ==
  ASSUME AllocInv, UnitsInv, WriteInv, FewExtents, FewExtents', Next
  PROVE  UnitsInv'
<1>1. DOMAIN image' = DOMAIN image
  <2>1. WriteData => DOMAIN image' = DOMAIN image
    BY DEF WriteData
  <2>2. Take => DOMAIN image' = DOMAIN image
    BY DEF Take, Zeroed
  <2> QED BY <2>1, <2>2, ImageSteps
<1>2. ASSUME NEW f \in DataFiles, NEW u \in Nat, BlockNo(u) \in DOMAIN ext'[f]
      PROVE  image'[Place(ext'[f], u)] \in {Zero, <<f, u>>}
  <2>1. CASE WriteData
    <3>1. ext' = ext
      BY <2>1 DEF WriteData
    <3>2. image[Place(ext[f], u)] \in {Zero, <<f, u>>}
      BY <1>2, <3>1 DEF UnitsInv
    <3> QED BY <1>2, <2>1, <3>1, <3>2, DataWritten
  <2>2. CASE ~WriteData
    BY <1>2, <2>2, UnitsKept DEF UnitsInv
  <2> QED BY <2>1, <2>2
<1> QED BY <1>1, <1>2 DEF UnitsInv, BlockNo, Place

(* The fields of a write stay as they are while its blocks are allocated.  *)
LEMMA WriteKept ==
  ASSUME AllocInv, BeginGrow \/ Skip \/ Take
  PROVE  /\ op' # NoOp /\ op # NoOp /\ op'.f = op.f /\ op'.then = op.then
         /\ op'.size = op.size /\ op'.loc = op.loc /\ op'.len = op.len
         /\ at' \in {"loop", "extents"}
<1>1. op \in OpType /\ at' \in {"loop", "extents"}
  BY Taken DEF BeginGrow, Skip, AllocInv, ControlInv, Working
<1>2. PICK l, r, c : op' = [op EXCEPT !.left = l, !.fresh = r, !.cur = c]
  <2>1. CASE BeginGrow
    BY <2>1, Zenon DEF BeginGrow
  <2>2. CASE Skip
    <3>1. op = [op EXCEPT !.left = op.left]
      BY <1>1 DEF OpType
    <3>2. op' = [op EXCEPT !.fresh = TRUE, !.cur = hdr.next]
      BY <2>2 DEF Skip
    <3>3. op' = [op EXCEPT !.left = op.left, !.fresh = TRUE, !.cur = hdr.next]
      BY <1>1, <3>1, <3>2 DEF OpType
    <3> QED BY <3>3
  <2>3. CASE Take
    <3>1. PICK l, c : op' = [op EXCEPT !.left = l, !.fresh = FALSE, !.cur = c]
      BY <2>3, Zenon DEF Take
    <3> QED BY <3>1
  <2> QED BY <2>1, <2>2, <2>3
<1>3. op'.f = op.f /\ op'.then = op.then /\ op'.size = op.size
      /\ op'.loc = op.loc /\ op'.len = op.len
  BY <1>1, <1>2 DEF OpType
<1>4. op.f \in Files /\ NoOp.f = NoFile
  BY <1>1, OpFacts DEF NoOp
<1> QED BY <1>1, <1>3, <1>4, NotFiles

LEMMA WriteStep ==
  ASSUME AllocInv, WriteInv, FewExtents, FewExtents', Next
  PROVE  WriteInv'
<1> USE DEF AllocInv
<1>0. op = NoOp \/ op \in OpType
  BY DEF ControlInv
<1>1. CASE UNCHANGED <<fork, op>> /\ (at' = at \/ at' \notin {"alternate", "primary", "catalog", "data"})
  BY <1>1 DEF WriteInv
<1>2. ASSUME NEW f \in Files, NEW size \in Nat, NEW then \in {"return", "enlarge", "mark"},
             op'.f = Call(f, size, then).f, op'.then = then, at' # "data"
      PROVE  WriteInv'
  BY <1>2 DEF WriteInv
<1>3. CASE op' = NoOp /\ at' # "data"
  BY <1>3 DEF WriteInv
<1>4. Caller => WriteInv'
  <2>1. ASSUME NEW f \in DataFiles, Open(f) PROVE WriteInv'
    <3>1. UNCHANGED <<fork, op, at>>
      BY <2>1, OpenSame
    <3> QED BY <1>1, <3>1
  <2>2. Close => WriteInv'
    BY <1>1 DEF Close
  <2>3. ASSUME NEW size \in Sizes, SetSize(size) PROVE WriteInv'
    BY <2>3 DEF SetSize, Start, Call, WriteInv
  <2>4. GrowTree => WriteInv'
    BY DEF GrowTree, Start, Call, WriteInv
  <2>5. ASSUME NEW w \in Writes, WriteFile(w[1], w[2]) PROVE WriteInv'
    <3>1. PICK loc \in Nat, len \in Nat \ {0} : loc = w[1] /\ len = w[2]
      BY UnitsAssumption
    <3>2. /\ op' = [Call(open, loc + len, "data") EXCEPT !.loc = loc, !.len = len]
          /\ fork' = fork
          /\ \/ at' = "start"
             \/ at' = "data" /\ ~(fork[open].size < loc + len)
      BY <2>5, <3>1 DEF WriteFile, Start
    <3>3. /\ op'.then = "data" /\ op'.f = open /\ op'.len = len /\ op'.loc = loc
          /\ op'.size = loc + len
      BY <3>2 DEF Call
    <3>4. fork[open].size \in Nat
      BY <2>5, NotFiles, Facts DEF WriteFile, TypeOK
    <3> QED BY <3>1, <3>2, <3>3, <3>4 DEF WriteInv
  <2>6. ASSUME NEW total \in GrowTotals, GrowVolume(total) PROVE WriteInv'
    <3>1. CASE op' = op
      <4>1. at' \in {"exited", "start", "enlarge"} /\ fork' = fork
        BY <2>6 DEF GrowVolume, Start
      <4> QED BY <1>1, <3>1, <4>1
    <3>2. CASE op' # op
      <4>1. /\ op' = [Call(MapFile, total \div MapBits, "enlarge") EXCEPT !.total = total]
            /\ at' \in {"start", "enlarge"}
        BY <2>6, <3>2 DEF GrowVolume, Start
      <4>2. op'.then = "enlarge"
        BY <4>1 DEF Call
      <4> QED BY <4>1, <4>2 DEF WriteInv
    <3> QED BY <3>1, <3>2
  <2> QED BY <2>1, <2>2, <2>3, <2>4, <2>5, <2>6 DEF Caller
<1>5. Over => WriteInv'
  BY <1>1 DEF Over, vars, disk
<1>6. Step => WriteInv'
  <2>1. Refuse => WriteInv'
    <3>1. SUFFICES ASSUME Refuse PROVE WriteInv'
      OBVIOUS
    <3>2. at' \in {"idle", "enlarge", "exited"} /\ op' \in {op, NoOp} /\ fork' = fork
      BY <3>1 DEF Refuse
    <3> QED BY <1>1, <1>3, <3>2
  <2>2. BeginGrow \/ Skip \/ Take => WriteInv'
    BY WriteKept DEF WriteInv
  <2>3. Shrink \/ Keep => WriteInv'
    BY <1>1 DEF Shrink, Keep, disk
  <2>4. SaveExtents => WriteInv'
    <3>1. SUFFICES ASSUME SaveExtents PROVE WriteInv'
      OBVIOUS
    <3>2. /\ fork' = [fork EXCEPT ![op.f] =
                        [size |-> op.size, total |-> Need, ext |-> ext[op.f]]]
          /\ op' = op /\ at' = "alternate" /\ op \in OpType
      BY <3>1, Saved
    <3>3. op.f \in Files /\ op.size \in Nat /\ fork \in [Files -> ForkType]
      BY <3>2, OpFacts DEF TypeOK
    <3>4. fork'[op.f].size = op.size
      BY <3>2, <3>3
    <3> QED BY <3>2, <3>3, <3>4 DEF WriteInv
  <2>5. SaveAlternate => WriteInv'
    BY DEF SaveAlternate, WriteInv
  <2>6. ASSUME Return, at \in {"primary", "catalog"}, fork' = fork, op # NoOp
        PROVE  WriteInv'
    BY <2>6, <1>0, OpFacts DEF Return, WriteInv
  <2>7. SavePrimary => WriteInv'
    <3>1. SUFFICES ASSUME SavePrimary PROVE WriteInv'
      OBVIOUS
    <3>2. at = "primary" /\ fork' = fork /\ op # NoOp
      BY <3>1 DEF SavePrimary, ControlInv, Working
    <3>3. Return \/ (at' = "catalog" /\ op' = op)
      BY <3>1 DEF SavePrimary
    <3> QED BY <2>6, <3>2, <3>3 DEF WriteInv
  <2>8. SaveCatalog => WriteInv'
    BY <2>6 DEF SaveCatalog, ControlInv, Working
  <2>9. WriteData => WriteInv'
    BY <1>3 DEF WriteData
  <2>10. Enlarge => WriteInv'
    BY <1>1 DEF Enlarge
  <2>11. Reserve => WriteInv'
    <3>1. SUFFICES ASSUME Reserve PROVE WriteInv'
      OBVIOUS
    <3>2. PICK n, b : op' = [Call(MapFile, n, "mark") EXCEPT !.blind = b]
      BY <3>1, Zenon DEF Reserve
    <3>3. op'.then = "mark" /\ at' \in {"start", "mark"}
      BY <3>1, <3>2 DEF Reserve, Call
    <3> QED BY <3>3 DEF WriteInv
  <2>12. Mark => WriteInv'
    BY Marked DEF WriteInv
  <2> QED BY <2>1, <2>2, <2>3, <2>4, <2>5, <2>7, <2>8, <2>9, <2>10, <2>11, <2>12
          DEF Step
<1> QED BY <1>4, <1>5, <1>6 DEF Next

-----------------------------------------------------------------------------
(* The files of FileStore.                                                 *)

Units(f) == [i \in 1 .. SizeOf(f) |-> image[Place(ext[f], i - 1)]]
Data == [f \in DataFiles |-> Units(f)]

LEMMA UnitsSeq ==
  ASSUME AllocInv, UnitsInv, NEW f \in DataFiles
  PROVE  /\ DOMAIN Units(f) = 1 .. SizeOf(f) /\ Len(Units(f)) = SizeOf(f)
         /\ SizeOf(f) \in Nat
         /\ \A i \in 1 .. SizeOf(f) :
              /\ i - 1 \in Nat /\ BlockNo(i - 1) \in DOMAIN ext[f]
              /\ Units(f)[i] = image[Place(ext[f], i - 1)]
<1>1. PICK n \in Nat : n = SizeOf(f)
  BY SizeFits
<1>2. PICK s : s = Units(f)
  OBVIOUS
<1>3. s = [i \in 1 .. n |-> image[Place(ext[f], i - 1)]]
  BY <1>1, <1>2 DEF Units
<1>4. DOMAIN s = 1 .. n /\ \A i \in 1 .. n : s[i] = image[Place(ext[f], i - 1)]
  BY <1>3
<1>5. \A i \in 1 .. n : i - 1 \in Nat /\ i - 1 < n
  OBVIOUS
<1>6. \A i \in 1 .. n : BlockNo(i - 1) \in DOMAIN ext[f]
  BY <1>1, <1>5, SizeFits
<1>7. Len(s) = n
  <2>1. PICK S : \A i \in 1 .. n : image[Place(ext[f], i - 1)] \in S
    <3>1. \A i \in 1 .. n : image[Place(ext[f], i - 1)] \in {image[Place(ext[f], j - 1)] : j \in 1 .. n}
      OBVIOUS
    <3> QED BY <3>1
  <2>2. s \in Seq(S)
    BY <1>3, <2>1
  <2> QED BY <1>4, <2>2
<1> QED BY <1>1, <1>2, <1>4, <1>5, <1>6, <1>7

LEMMA AllUnits ==
  AllocInv /\ UnitsInv =>
    \A f \in DataFiles :
      /\ DOMAIN Units(f) = 1 .. SizeOf(f) /\ Len(Units(f)) = SizeOf(f)
      /\ SizeOf(f) \in Nat
      /\ \A i \in 1 .. SizeOf(f) :
           /\ i - 1 \in Nat /\ BlockNo(i - 1) \in DOMAIN ext[f]
           /\ Units(f)[i] = image[Place(ext[f], i - 1)]
BY UnitsSeq

LEMMA AllUnitsThen ==
  AllocInv' /\ UnitsInv' =>
    \A f \in DataFiles :
      /\ DOMAIN Units(f)' = 1 .. SizeOf(f)' /\ Len(Units(f)') = SizeOf(f)'
      /\ SizeOf(f)' \in Nat
      /\ \A i \in 1 .. SizeOf(f)' :
           /\ i - 1 \in Nat /\ BlockNo(i - 1) \in DOMAIN ext'[f]
           /\ Units(f)'[i] = image'[Place(ext'[f], i - 1)]
<1>1. (AllocInv /\ UnitsInv =>
        \A f \in DataFiles :
          /\ DOMAIN Units(f) = 1 .. SizeOf(f) /\ Len(Units(f)) = SizeOf(f)
          /\ SizeOf(f) \in Nat
          /\ \A i \in 1 .. SizeOf(f) :
               /\ i - 1 \in Nat /\ BlockNo(i - 1) \in DOMAIN ext[f]
               /\ Units(f)[i] = image[Place(ext[f], i - 1)])'
  BY AllUnits, PTL
<1>2. ASSUME NEW f, NEW i
      PROVE  BlockNo(i)' = BlockNo(i) /\ Place(ext[f], i)' = Place(ext'[f], i)
  BY DEF BlockNo, Place
<1> QED BY <1>1, <1>2

(* Every step but WriteData and the ones of allocate leaves every file its *)
(* size; those change that of one file.                                    *)
LEMMA SizeKept ==
  ASSUME AllocInv, AllocInv', FewExtents, FewExtents', Next, ~Stopped'
  PROVE  \A f \in DataFiles : SizeOf(f)' # SizeOf(f) => f = op.f /\ op.f \in Files
<1> USE DEF AllocInv
<1>1. \A f \in DataFiles : SizeOf(f) = IF at = "extents" /\ op # NoOp /\ op.f = f
                                       THEN op.size ELSE fork[f].size
  BY DEF SizeOf, ControlInv
<1>2. \A f \in DataFiles : SizeOf(f)' = IF at' = "extents" /\ op' # NoOp /\ op'.f = f
                                        THEN op'.size ELSE fork'[f].size
  BY DEF SizeOf, ControlInv
<1>3. Quiet => \A f \in DataFiles : SizeOf(f)' = SizeOf(f)
  BY <1>1, <1>2 DEF Quiet
<1>4. ASSUME op \in OpType, op'.f = op.f, fork' = fork
      PROVE  \A f \in DataFiles : SizeOf(f)' # SizeOf(f) => f = op.f /\ op.f \in Files
  BY <1>1, <1>2, <1>4, OpFacts
<1>5. BeginGrow \/ Skip \/ Take => op \in OpType /\ op'.f = op.f /\ fork' = fork
  BY WriteKept DEF BeginGrow, Skip, Take, ControlInv
<1>6. Keep \/ Shrink => op \in OpType /\ op'.f = op.f /\ fork' = fork
  BY DEF Keep, Shrink, ControlInv, Working
<1>7. Mark => op \in OpType /\ op'.f = op.f /\ fork' = fork
  BY Marked
<1>8. Enlarge => op \in OpType /\ op'.f = op.f /\ fork' = fork
  BY DEF Enlarge, ControlInv, Working
<1>9. ASSUME SaveExtents
      PROVE  \A f \in DataFiles : SizeOf(f)' # SizeOf(f) => f = op.f /\ op.f \in Files
  <2>1. /\ fork' = [fork EXCEPT ![op.f] =
                      [size |-> op.size, total |-> Need, ext |-> ext[op.f]]]
        /\ op' = op /\ at' = "alternate" /\ op \in OpType /\ at = "extents"
    BY <1>9, Saved
  <2>2. op.f \in Files
    BY <2>1, OpFacts
  <2>3. \A f \in DataFiles : f # op.f => fork'[f] = fork[f]
    BY <2>1, NotFiles DEF TypeOK
  <2> QED BY <1>1, <1>2, <2>1, <2>2, <2>3
<1> QED BY <1>3, <1>4, <1>5, <1>6, <1>7, <1>8, <1>9, QuietSteps

(* Such a step gives a file another size, or does nothing to the files.    *)
LEMMA ResizeStep ==
  ASSUME AllocInv, AllocInv', UnitsInv, UnitsInv', FewExtents, FewExtents',
         Next, ~WriteData, ~Stopped, ~Stopped'
  PROVE  \/ Data' = Data
         \/ \E f \in DataFiles : Store!Resize(f)
<1>1. \A f \in DataFiles :
        /\ DOMAIN Units(f) = 1 .. SizeOf(f) /\ Len(Units(f)) = SizeOf(f)
        /\ SizeOf(f) \in Nat
        /\ DOMAIN Units(f)' = 1 .. SizeOf(f)' /\ Len(Units(f)') = SizeOf(f)'
        /\ SizeOf(f)' \in Nat
  BY AllUnits, AllUnitsThen
<1>2. ASSUME NEW f \in DataFiles, NEW i \in 1 .. SizeOf(f)'
      PROVE  /\ i \in 1 .. SizeOf(f) => Units(f)'[i] = Units(f)[i]
             /\ Units(f)'[i] \in {Zero, <<f, i - 1>>}
  <2>1. \A j \in 1 .. SizeOf(f) :
          BlockNo(j - 1) \in DOMAIN ext[f] /\ Units(f)[j] = image[Place(ext[f], j - 1)]
    BY AllUnits
  <2>3. /\ i - 1 \in Nat /\ BlockNo(i - 1) \in DOMAIN ext'[f]
        /\ Units(f)'[i] = image'[Place(ext'[f], i - 1)]
    BY <1>2, AllUnitsThen
  <2>5. Units(f)'[i] \in {Zero, <<f, i - 1>>}
    BY <2>3 DEF UnitsInv, BlockNo, Place
  <2>6. ASSUME i \in 1 .. SizeOf(f) PROVE Units(f)'[i] = Units(f)[i]
    <3>1. BlockNo(i - 1) \in DOMAIN ext[f] /\ Units(f)[i] = image[Place(ext[f], i - 1)]
      BY <2>1, <2>6
    <3>2. image'[Place(ext'[f], i - 1)] = image[Place(ext[f], i - 1)]
      BY <2>3, <3>1, UnitsKept
    <3> QED BY <2>3, <3>1, <3>2
  <2> QED BY <2>5, <2>6
<1>3. \A f \in DataFiles : SizeOf(f)' = SizeOf(f) => Units(f)' = Units(f)
  <2>1. SUFFICES ASSUME NEW f \in DataFiles, SizeOf(f)' = SizeOf(f)
                 PROVE  Units(f)' = Units(f)
    OBVIOUS
  <2>2. \A i \in 1 .. SizeOf(f) : Units(f)'[i] = Units(f)[i]
    BY <1>2, <2>1
  <2>3. Units(f) = [i \in 1 .. SizeOf(f) |-> Units(f)[i]]
    BY DEF Units
  <2>4. Units(f)' = [i \in 1 .. SizeOf(f)' |-> Units(f)'[i]]
    BY DEF Units
  <2> QED BY <2>1, <2>2, <2>3, <2>4
<1>4. \A f \in DataFiles : Data[f] = Units(f) /\ Data'[f] = Units(f)'
  BY DEF Data
<1>5. CASE \A f \in DataFiles : SizeOf(f)' = SizeOf(f)
  <2>1. \A f \in DataFiles : Units(f)' = Units(f)
    BY <1>3, <1>5
  <2>2. Data' = Data
    BY <2>1 DEF Data
  <2> QED BY <2>2
<1>6. CASE ~\A f \in DataFiles : SizeOf(f)' = SizeOf(f)
  <2>1. PICK f \in DataFiles : SizeOf(f)' # SizeOf(f)
    BY <1>6
  <2>2. \A g \in DataFiles \ {f} : Data'[g] = Data[g]
    <3>1. \A g \in DataFiles \ {f} : SizeOf(g)' = SizeOf(g)
      BY <2>1, SizeKept
    <3> QED BY <1>3, <1>4, <3>1
  <2>3. Len(Data'[f]) # Len(Data[f])
    BY <1>1, <1>4, <2>1
  <2>4. \A i \in DOMAIN Data'[f] :
          Data'[f][i] \in IF i \in DOMAIN Data[f] THEN {Data[f][i]}
                          ELSE {Zero, <<f, i - 1>>}
    BY <1>1, <1>2, <1>4
  <2>5. Store!Resize(f)
    <3>1. Stopped' = Stopped
      BY DEF Stopped
    <3> QED BY <2>2, <2>3, <2>4, <3>1
            DEF Store!Resize, Store!Written, Data, Units
  <2> QED BY <2>5
<1> QED BY <1>5, <1>6

(* rawFileWrite changes the units that it writes.                          *)
LEMMA WriteDataStep ==
  ASSUME AllocInv, AllocInv', UnitsInv, UnitsInv', WriteInv, WriteData
  PROVE  Store!Write(op.f)
<1> USE DEF AllocInv
<1>1. at = "data" /\ at' = "idle" /\ op' = NoOp /\ fork' = fork
  BY DEF WriteData
<1>2. /\ op \in OpType /\ op.f \in DataFiles /\ op.f \in Files
      /\ op.loc \in Nat /\ op.len \in Nat /\ op.len >= 1 /\ op.size = op.loc + op.len
      /\ op.size <= fork[op.f].size /\ fork[op.f].size \in Nat
  <2>1. op # NoOp /\ op \in OpType /\ op.f \in DataFiles
    BY <1>1 DEF ControlInv, Working
  <2> QED BY <1>1, <2>1, OpFacts, NotFiles, Facts DEF WriteInv
<1>3. \A f \in DataFiles : SizeOf(f) = fork[f].size /\ SizeOf(f)' = fork[f].size
  BY <1>1 DEF SizeOf
<1>4. \A f \in DataFiles : Data[f] = Units(f) /\ Data'[f] = Units(f)'
  BY DEF Data
<1>5. ASSUME NEW f \in DataFiles, NEW i \in 1 .. SizeOf(f)
      PROVE  Units(f)'[i] = IF f = op.f /\ i \in op.loc + 1 .. op.loc + op.len
                            THEN <<f, i - 1>> ELSE Units(f)[i]
  <2>1. /\ i - 1 \in Nat /\ BlockNo(i - 1) \in DOMAIN ext[f]
        /\ Units(f)[i] = image[Place(ext[f], i - 1)]
    BY <1>5, AllUnits
  <2>2. Units(f)'[i] = image'[Place(ext'[f], i - 1)]
    BY <1>3, <1>5, AllUnitsThen
  <2>3. /\ ext' = ext
        /\ image'[Place(ext[f], i - 1)] =
              IF f = op.f /\ i - 1 \in op.loc .. op.loc + op.len - 1
              THEN <<f, i - 1>> ELSE image[Place(ext[f], i - 1)]
    BY <2>1, DataWritten
  <2>4. i - 1 \in op.loc .. op.loc + op.len - 1 <=> i \in op.loc + 1 .. op.loc + op.len
    BY <1>2, <1>3, <1>5, SizeFits
  <2> QED BY <2>1, <2>2, <2>3, <2>4
<1>6. \A f \in DataFiles : Units(f)' = [i \in 1 .. SizeOf(f) |-> Units(f)'[i]]
  <2>1. \A f \in DataFiles : Units(f)' = [i \in 1 .. SizeOf(f)' |-> Units(f)'[i]]
    BY DEF Units
  <2> QED BY <1>3, <2>1
<1>7. \A f \in DataFiles : Units(f) = [i \in 1 .. SizeOf(f) |-> Units(f)[i]]
  BY DEF Units
<1>8. \A f \in DataFiles : f # op.f => Data'[f] = Data[f]
  <2>1. SUFFICES ASSUME NEW f \in DataFiles, f # op.f PROVE Units(f)' = Units(f)
    BY <1>4
  <2>2. \A i \in 1 .. SizeOf(f) : Units(f)'[i] = Units(f)[i]
    BY <1>5, <2>1
  <2>3. [i \in 1 .. SizeOf(f) |-> Units(f)'[i]] = [i \in 1 .. SizeOf(f) |-> Units(f)[i]]
    BY <2>2
  <2> QED BY <1>6, <1>7, <2>3, Zenon
<1>9. PICK first \in Nat, last \in Nat : first = op.loc + 1 /\ last = op.loc + op.len
  BY <1>2
<1>10. /\ DOMAIN Data[op.f] = 1 .. SizeOf(op.f) /\ Len(Data[op.f]) = SizeOf(op.f)
       /\ SizeOf(op.f) \in Nat
  BY <1>2, <1>4, AllUnits
<1>11. first \in DOMAIN Data[op.f] /\ last \in first .. Len(Data[op.f])
  <2>1. PICK n \in Nat : n = SizeOf(op.f) /\ n = fork[op.f].size
    BY <1>2, <1>3
  <2>2. first \in 1 .. n /\ last \in first .. n
    BY <1>2, <1>9, <2>1
  <2> QED BY <1>10, <2>1, <2>2
<1>12. Data'[op.f] = [i \in DOMAIN Data[op.f] |->
                        IF i \in first .. last THEN <<op.f, i - 1>> ELSE Data[op.f][i]]
  <2>0. PICK g \in DataFiles : g = op.f
    BY <1>2
  <2>1. \A i \in 1 .. SizeOf(g) :
          Units(g)'[i] = IF i \in first .. last THEN <<op.f, i - 1>> ELSE Units(g)[i]
    BY <1>5, <1>9, <2>0
  <2>2. [i \in 1 .. SizeOf(g) |-> Units(g)'[i]] =
          [i \in 1 .. SizeOf(g) |->
             IF i \in first .. last THEN <<op.f, i - 1>> ELSE Units(g)[i]]
    BY <2>1
  <2>3. Units(g)' = [i \in 1 .. SizeOf(g) |-> Units(g)'[i]]
    BY <1>6
  <2>4. Data'[g] = Units(g)' /\ Data[g] = Units(g)
    BY <1>4
  <2> QED BY <1>10, <2>0, <2>2, <2>3, <2>4
<1>13. Data' = [Data EXCEPT ![op.f] =
                  [i \in DOMAIN Data[op.f] |->
                     IF i \in first .. last THEN <<op.f, i - 1>> ELSE Data[op.f][i]]]
  <2>1. Data = [f \in DataFiles |-> Data[f]] /\ Data' = [f \in DataFiles |-> Data'[f]]
    BY DEF Data
  <2> QED BY <1>2, <1>8, <1>12, <2>1
<1>14. ~Stopped /\ Stopped' = Stopped
  BY <1>1 DEF Stopped
<1>15. /\ ~Stopped /\ Stopped' = Stopped
       /\ \E a \in DOMAIN Data[op.f] : \E b \in a .. Len(Data[op.f]) :
            Data' = [Data EXCEPT ![op.f] =
                       [i \in DOMAIN Data[op.f] |->
                          IF i \in a .. b THEN <<op.f, i - 1>> ELSE Data[op.f][i]]]
  BY <1>11, <1>13, <1>14, Zenon
<1> QED
  BY <1>15, Zenon DEF Store!Write, Store!Written, Data, Units

(* A program that stops leaves the files as they are.                      *)
LEMMA StopStep ==
  ASSUME AllocInv, AllocInv', FewExtents, Next, ~Stopped, Stopped'
  PROVE  Data' = Data
<1> USE DEF AllocInv
<1>1. at' = "exited"
  BY DEF Stopped, ControlInv
<1>2. at \notin {"loop", "extents", "data"} /\ fork' = fork /\ ext' = ext /\ image' = image
  <2>1. WriteData => FALSE
    BY <1>1 DEF WriteData
  <2>2. Take \/ Skip \/ BeginGrow \/ Shrink \/ Keep \/ SaveExtents \/ Mark => FALSE
    BY <1>1, Taken DEF Skip, BeginGrow, Shrink, Keep, SaveExtents, Mark
  <2>3. Quiet \/ Enlarge => fork' = fork /\ ext' = ext /\ at \notin {"loop", "extents"}
    BY DEF Quiet, Enlarge
  <2>4. at = "data" => FALSE
    <3>1. ASSUME at = "data" PROVE FALSE
      <4>1. Caller => FALSE
        BY <3>1 DEF Caller, Open, Close, SetSize, GrowTree, WriteFile, GrowVolume
      <4>2. Over => FALSE
        BY DEF Over
      <4>3. Step => FALSE
        BY <1>1, <2>1, <2>2, <3>1
           DEF Step, Refuse, SaveAlternate, SavePrimary, SaveCatalog, Enlarge, Reserve
      <4> QED BY <4>1, <4>2, <4>3 DEF Next
    <3> QED BY <3>1
  <2> QED BY <2>1, <2>2, <2>3, <2>4, QuietSteps, ImageSteps
<1>3. \A f \in DataFiles : SizeOf(f) = fork[f].size /\ SizeOf(f)' = fork[f].size
  BY <1>1, <1>2 DEF SizeOf, Stopped, ControlInv
<1>4. \A f \in DataFiles : Units(f)' = Units(f)
  BY <1>2, <1>3 DEF Units, Place
<1> QED BY <1>4 DEF Data

LEMMA StoreStep ==
  ASSUME AllocInv, AllocInv', DataInv, DataInv', FewExtents, FewExtents', [Next]_vars
  PROVE  [Store!StoreNext]_(Store!storeVars)
<1> USE DEF DataInv
<1>1. CASE UNCHANGED vars
  <2>1. UNCHANGED <<image, ext, fork, at, op>>
    BY <1>1 DEF vars, disk
  <2>2. \A f \in DataFiles : Units(f)' = Units(f)
    BY <2>1 DEF Units, SizeOf, Place
  <2>3. Data' = Data /\ Stopped' = Stopped
    BY <2>1, <2>2 DEF Data, Stopped
  <2> QED BY <2>3 DEF Store!storeVars, Data, Units
<1>2. CASE Next
  <2>1. CASE WriteData
    <3>1. op.f \in DataFiles
      BY <2>1 DEF WriteData, AllocInv, ControlInv
    <3> QED BY <2>1, <3>1, WriteDataStep DEF Store!StoreNext
  <2>2. CASE Stopped
    <3>1. UNCHANGED <<image, ext, fork, at, op>>
      <4>1. at \in {"exited", "panic", "adrift"}
        BY <2>2 DEF Stopped
      <4>2. ~Caller
        BY <4>1 DEF Caller, Open, Close, SetSize, GrowTree, WriteFile, GrowVolume
      <4>3. ~Step
        BY <4>1 DEF Step, Refuse, BeginGrow, Skip, Take, Shrink, Keep, SaveExtents,
                    SaveAlternate, SavePrimary, SaveCatalog, WriteData, Enlarge,
                    Reserve, Mark
      <4> QED BY <1>2, <4>2, <4>3 DEF Next, Over, vars, disk
    <3>2. \A f \in DataFiles : Units(f)' = Units(f)
      BY <3>1 DEF Units, SizeOf, Place
    <3>3. Data' = Data /\ Stopped' = Stopped
      BY <3>1, <3>2 DEF Data, Stopped
    <3> QED BY <3>3 DEF Store!storeVars, Data, Units
  <2>3. CASE ~Stopped /\ Stopped'
    <3>1. Data' = Data
      BY <1>2, <2>3, StopStep
    <3> QED BY <2>3, <3>1 DEF Store!StoreNext, Store!Stop, Data, Units
  <2>4. CASE ~WriteData /\ ~Stopped /\ ~Stopped'
    <3>1. CASE Data' = Data
      <4>1. Stopped' = Stopped
        BY <2>4 DEF Stopped
      <4> QED BY <3>1, <4>1 DEF Store!storeVars, Data, Units
    <3>2. CASE \E f \in DataFiles : Store!Resize(f)
      BY <3>2 DEF Store!StoreNext
    <3> QED BY <1>2, <2>4, <3>1, <3>2, ResizeStep
  <2> QED BY <2>1, <2>2, <2>3, <2>4
<1> QED BY <1>1, <1>2

(* The step that makes a volume too large leaves the files as they are.    *)
LEMMA WidenStep ==
  ASSUME GrowsInv, [Next]_vars, Narrow, ~Narrow'
  PROVE  UNCHANGED Store!storeVars
<1>1. Enlarge /\ hdr'.total # hdr.total
  BY GrowsStep DEF Narrow
<1>2. at = "enlarge" /\ at' = "reserve" /\ UNCHANGED <<fork, ext, image>>
  BY <1>1 DEF Enlarge
<1>3. \A f \in DataFiles : Units(f)' = Units(f)
  BY <1>2 DEF Units, SizeOf, Place
<1>4. Data' = Data /\ Stopped' = Stopped
  BY <1>2, <1>3 DEF Data, Stopped
<1> QED BY <1>4 DEF Store!storeVars, Data, Units

LEMMA DataInit == Init => DataInv /\ Store!StoreInit
<1>1. SUFFICES ASSUME Init PROVE DataInv /\ Store!StoreInit
  OBVIOUS
<1>2. \A f \in DataFiles : ext[f] = <<>> /\ fork[f].size = 0
  <2>1. \A f \in DataFiles : f \in Files /\ f # MapFile /\ f # TreeFile
    BY NotFiles
  <2>2. \A f \in DataFiles : ext[f] = <<>> /\ fork[f] = NoFork
    BY <1>1, <2>1 DEF Init
  <2> QED BY <2>2 DEF NoFork
<1>3. at = "idle" /\ op = NoOp
  BY <1>1 DEF Init
<1>4. UnitsInv
  <2>1. DOMAIN image = 0 .. 2 * BlockUnits * MapBits * BlockUnits - 1
    BY <1>1 DEF Init
  <2> QED BY <1>2, <2>1 DEF UnitsInv
<1>5. WriteInv
  BY <1>3 DEF WriteInv
<1>6. \A f \in DataFiles : Units(f) = <<>>
  <2>1. \A f \in DataFiles : SizeOf(f) = 0
    BY <1>2, <1>3 DEF SizeOf
  <2> QED BY <2>1 DEF Units
<1>7. Data = [f \in DataFiles |-> <<>>]
  BY <1>6 DEF Data
<1>8. ~Stopped
  BY <1>3 DEF Stopped
<1> QED BY <1>4, <1>5, <1>7, <1>8 DEF DataInv, Store!StoreInit, Data, Units

(* rawFileRead, rawFileWrite and allocate: whatever blocks they are given, *)
(* and whatever is done to the others, each file is a sequence of units of *)
(* its own, which grows by units that were never another file's.           *)
THEOREM AllocatorImplementsFileStore == Spec /\ []FewExtents => ImplementsFileStore
<1>1. Init => DataInv /\ Store!StoreInit
  BY DataInit
<1>2. AllocInv /\ DataInv /\ FewExtents /\ FewExtents' /\ [Next]_vars => DataInv'
  <2>1. ASSUME UNCHANGED vars, DataInv PROVE DataInv'
    <3>1. UNCHANGED <<image, ext, fork, at, op>>
      BY <2>1 DEF vars, disk
    <3> QED BY <2>1, <3>1 DEF DataInv, UnitsInv, WriteInv, BlockNo, Place
  <2> QED BY <2>1, UnitsStep, WriteStep DEF DataInv
<1>3. AllocInv /\ AllocInv' /\ DataInv /\ DataInv' /\ FewExtents /\ FewExtents'
        /\ [Next]_vars => [Store!StoreNext]_(Store!storeVars)
  BY StoreStep
<1>4. GrowsInv /\ Narrow /\ ~Narrow' /\ [Next]_vars => UNCHANGED Store!storeVars
  BY WidenStep
<1>5. Init => GrowsInv
  BY GrowsInit
<1>6. GrowsInv /\ [Next]_vars => GrowsInv' /\ (Narrow' => Narrow)
  BY GrowsStep
<1>7. Spec /\ []FewExtents => [](Narrow => DataInv)
  BY <1>1, <1>2, <1>5, <1>6, AllocInductive, PTL DEF Spec
<1>8. (Narrow => AllocInv) /\ (Narrow => AllocInv)' /\ (Narrow => DataInv)
        /\ (Narrow => DataInv)' /\ FewExtents /\ FewExtents' /\ GrowsInv /\ [Next]_vars
        => [Narrow => Store!StoreNext]_(Store!storeVars)
  BY <1>3, <1>4
<1> QED
  BY <1>1, <1>5, <1>6, <1>7, <1>8, AllocInductive, PTL
  DEF Spec, ImplementsFileStore
=============================================================================
