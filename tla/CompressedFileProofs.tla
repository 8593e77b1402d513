------------------------ MODULE CompressedFileProofs ------------------------
(***************************************************************************)
(* Proofs about CompressedFile, for every size of a block, of an attribute *)
(* and of a file, and for all bytes.                                       *)
(*                                                                         *)
(* What carries them is FileInv.  Laid says when a fork holds contents: a  *)
(* table that has an entry for every block, and at every entry's place the *)
(* block, packed or plain.  Kept says that it is so, but while blocks are  *)
(* written over a fork that was there; Written and TableWritten say how    *)
(* far the writing has come, so that the fork is Laid when the attribute   *)
(* is set; InMemory and GotPart say that what is in memory, and what a     *)
(* call has got, are pieces of the contents.                               *)
(***************************************************************************)
EXTENDS CompressedFile, FiniteSetTheorems, SequenceTheorems, WellFoundedInduction, TLAPS

-----------------------------------------------------------------------------
(* Numbers.                                                                *)

(* A non-empty set of natural numbers has a least element.                 *)
LEMMA LeastNat ==
  ASSUME NEW T, T \subseteq Nat, T # {}
  PROVE  \E x \in T : \A y \in T : x <= y
<1> DEFINE Less == {p \in Nat \X Nat : p[1] < p[2]}
<1>1. IsWellFoundedOn(Less, Nat)
  BY Zenon, NatLessThanWellFounded DEF OpToRel
<1> HIDE DEF Less
<1>2. PICK x \in T : \A y \in T : ~ (<<y, x>> \in Less)
  BY <1>1, WFMin
<1>3. \A y \in T : ~ (y < x)
  BY <1>2 DEF Less
<1>4. QED
  BY <1>3

(* A number is its quotient times the divisor, plus a smaller remainder.   *)
LEMMA Quotient ==
  ASSUME NEW s \in Nat \ {0}, NEW u \in Nat
  PROVE  /\ u \div s \in Nat
         /\ u % s \in Nat /\ u % s < s
         /\ u = (u \div s) * s + (u % s)
<1>1. u \div s \in Nat /\ u % s \in Nat /\ u % s < s
  OBVIOUS
<1>2. \A q, r \in Nat : q = u \div s /\ r = u % s => u = q * s + r
  OBVIOUS
<1>3. QED
  BY <1>1, <1>2

-----------------------------------------------------------------------------
(* Sequences.                                                              *)

Listed(s) == \E S : s \in Seq(S)

LEMMA ListedLen ==
  ASSUME NEW s, Listed(s)
  PROVE  Len(s) \in Nat
<1>1. PICK S : s \in Seq(S)
  BY DEF Listed
<1>2. QED
  BY <1>1, LenProperties

LEMMA ListedNone == Listed(<<>>) /\ Len(<<>>) = 0
<1>1. <<>> \in Seq({})
  OBVIOUS
<1>2. QED
  BY <1>1 DEF Listed

LEMMA ListedOne ==
  ASSUME NEW v
  PROVE  Listed(<<v>>) /\ Len(<<v>>) = 1 /\ <<v>>[1] = v
<1>1. <<v>> \in Seq({v})
  OBVIOUS
<1>2. QED
  BY <1>1 DEF Listed

LEMMA ListedEmpty ==
  ASSUME NEW s, Listed(s), Len(s) = 0
  PROVE  s = <<>>
<1>1. PICK S : s \in Seq(S)
  BY DEF Listed
<1>2. QED
  BY <1>1, EmptySeq

(* Functions on 1 .. n are sequences.                                      *)
LEMMA ListedFunction ==
  ASSUME NEW n \in Nat, NEW s, DOMAIN s = 1 .. n, s = [k \in 1 .. n |-> s[k]]
  PROVE  Listed(s) /\ Len(s) = n
<1>1. PICK S : S = {s[k] : k \in 1 .. n}
  OBVIOUS
<1>2. s \in [1 .. n -> S]
  BY <1>1
<1>3. s \in Seq(S) /\ Len(s) = n
  BY <1>2
<1>4. QED
  BY <1>3 DEF Listed

(* What there is at the places 1 .. Len(s) is all that there is.           *)
LEMMA ListedSame ==
  ASSUME NEW s, Listed(s), NEW t, Listed(t), Len(s) = Len(t),
         \A k \in 1 .. Len(s) : s[k] = t[k]
  PROVE  s = t
<1>1. PICK S : s \in Seq(S)
  BY DEF Listed
<1>2. PICK T : t \in Seq(T)
  BY DEF Listed
<1>3. s \in Seq(S \cup T) /\ t \in Seq(S \cup T)
  BY <1>1, <1>2
<1>4. QED
  BY <1>3, SeqEqual

LEMMA ListedSub ==
  ASSUME NEW s, Listed(s), NEW a \in Nat \ {0}, NEW b \in Nat, b <= Len(s)
  PROVE  /\ Listed(SubSeq(s, a, b))
         /\ Len(SubSeq(s, a, b)) = IF a <= b THEN b - a + 1 ELSE 0
         /\ \A k \in 1 .. b - a + 1 : SubSeq(s, a, b)[k] = s[a + k - 1]
<1>1. PICK S : s \in Seq(S)
  BY DEF Listed
<1>2. PICK l \in Nat : l = Len(s)
  BY ListedLen
<1>3. \A i \in a .. b : i \in 1 .. Len(s)
  BY <1>2
<1>4. a \in Int /\ b \in Int
  OBVIOUS
<1>5. /\ SubSeq(s, a, b) \in Seq(S)
      /\ Len(SubSeq(s, a, b)) = IF a <= b THEN b - a + 1 ELSE 0
      /\ \A i \in 1 .. b - a + 1 : SubSeq(s, a, b)[i] = s[a + i - 1]
  BY <1>1, <1>3, <1>4, SubSeqProperties, ElementOfSeq
<1>6. QED
  BY <1>5 DEF Listed

(* u is s and then t.                                                      *)
Chain(s, t, u) ==
  /\ Listed(u) /\ Len(u) = Len(s) + Len(t)
  /\ \A i \in 1 .. Len(s) : u[i] = s[i]
  /\ \A i \in 1 .. Len(t) : u[Len(s) + i] = t[i]

LEMMA ListedChain ==
  ASSUME NEW s, NEW t, Listed(s), Listed(t), NEW u, u = s \o t
  PROVE  Chain(s, t, u)
<1>1. PICK S : s \in Seq(S)
  BY DEF Listed
<1>2. PICK T : t \in Seq(T)
  BY DEF Listed
<1>3. s \in Seq(S \cup T) /\ t \in Seq(S \cup T)
  BY <1>1, <1>2
<1>4. PICK m, n \in Nat : m = Len(s) /\ n = Len(t)
  BY <1>1, <1>2, LenProperties
<1>5. /\ u \in Seq(S \cup T) /\ Len(u) = m + n
      /\ \A i \in 1 .. m + n : u[i] = IF i <= m THEN s[i] ELSE t[i - m]
  BY <1>3, <1>4, ConcatProperties
<1>6. \A i \in 1 .. m : i \in 1 .. m + n /\ i <= m
  OBVIOUS
<1>7. \A i \in 1 .. m : u[i] = s[i]
  BY <1>5, <1>6
<1>8. \A i \in 1 .. n : m + i \in 1 .. m + n /\ ~(m + i <= m) /\ m + i - m = i
  OBVIOUS
<1>9. \A i \in 1 .. n : u[m + i] = t[i]
  BY <1>5, <1>8
<1>10. QED
  BY <1>4, <1>5, <1>7, <1>9 DEF Listed, Chain

LEMMA SlicePart ==
  ASSUME NEW s, Listed(s), NEW from \in Nat, NEW to \in Nat, from <= to, to <= Len(s)
  PROVE  /\ Listed(Slice(s, from, to)) /\ Len(Slice(s, from, to)) = to - from
         /\ \A k \in 1 .. to - from : Slice(s, from, to)[k] = s[from + k]
<1>1. PICK l \in Nat : l = Len(s)
  BY ListedLen
<1>2. PICK a \in Nat \ {0} : a = from + 1
  OBVIOUS
<1>3. Slice(s, from, to) = SubSeq(s, a, to)
  BY <1>1, <1>2 DEF Slice, Smaller
<1>4. /\ Listed(SubSeq(s, a, to))
      /\ Len(SubSeq(s, a, to)) = IF a <= to THEN to - a + 1 ELSE 0
      /\ \A k \in 1 .. to - a + 1 : SubSeq(s, a, to)[k] = s[a + k - 1]
  BY <1>1, <1>2, ListedSub
<1>5. to - a + 1 = to - from
  BY <1>2
<1>6. \A k \in 1 .. to - from : a + k - 1 = from + k
  BY <1>2
<1>7. QED
  BY <1>2, <1>3, <1>4, <1>5, <1>6

(* A slice of which the end may be behind the sequence's.                  *)
LEMMA SliceCut ==
  ASSUME NEW s, Listed(s), NEW from \in Nat, NEW to \in Nat, from <= Len(s), from <= to
  PROVE  Slice(s, from, to) = Slice(s, from, Smaller(to, Len(s)))
<1>1. PICK l \in Nat : l = Len(s)
  BY ListedLen
<1>2. QED
  BY <1>1 DEF Slice, Smaller

-----------------------------------------------------------------------------
(* Compression.                                                            *)

LEMMA PackedLenType ==
  ASSUME NEW b, Listed(b)
  PROVE  PackedLen(b) \in Nat \ {0}
<1>1. PICK l \in Nat : l = Len(b)
  BY ListedLen
<1>2. PICK T : T = {k \in 1 .. l : b[k] \in Noise}
  OBVIOUS
<1>3. IsFiniteSet(1 .. l)
  BY FS_Interval
<1>4. IsFiniteSet(T)
  BY <1>2, <1>3, FS_Subset
<1>5. Cardinality(T) \in Nat
  BY <1>4, FS_CardinalityType
<1>6. PackedLen(b) = 1 + Cardinality(T)
  BY <1>1, <1>2 DEF PackedLen
<1>7. QED
  BY <1>5, <1>6

(* What the compressor makes of a block is what it gives back.             *)
LEMMA PackedParts ==
  ASSUME NEW b, Listed(b)
  PROVE  /\ Listed(Packed(b)) /\ Len(Packed(b)) = PackedLen(b)
         /\ \A k \in 1 .. PackedLen(b) : Packed(b)[k] = <<"z", b, k>>
<1>1. PICK n \in Nat \ {0} : n = PackedLen(b)
  BY PackedLenType
<1>2. PICK s : s = [k \in 1 .. n |-> <<"z", b, k>>]
  OBVIOUS
<1>3. Packed(b) = s
  BY <1>1, <1>2 DEF Packed
<1>4. DOMAIN s = 1 .. n /\ s = [k \in 1 .. n |-> s[k]]
  BY <1>2
<1>5. Listed(s) /\ Len(s) = n
  BY <1>4, ListedFunction
<1>6. QED
  BY <1>1, <1>2, <1>3, <1>5

LEMMA PackedFirst ==
  ASSUME NEW b, Listed(b)
  PROVE  Packed(b) # <<>> /\ Packed(b)[1] = <<"z", b, 1>>
<1>1. PICK n \in Nat \ {0} : n = PackedLen(b)
  BY PackedLenType
<1>2. 1 \in 1 .. n
  BY <1>1
<1>3. Packed(b)[1] = <<"z", b, 1>> /\ Len(Packed(b)) # 0
  BY <1>1, <1>2, PackedParts
<1>4. QED
  BY <1>3, ListedNone

LEMMA PackedBack ==
  ASSUME NEW b, Listed(b)
  PROVE  IsPacked(Packed(b)) /\ Unpacked(Packed(b)) = b
<1>1. PICK s : s = Packed(b)
  OBVIOUS
<1>2. s # <<>> /\ s[1] = <<"z", b, 1>>
  BY <1>1, PackedFirst
<1>3. s[1][1] = "z" /\ s[1][2] = b
  BY <1>2
<1>4. IsPacked(s)
  BY <1>1, <1>2, <1>3 DEF IsPacked
<1>5. ~IsPlain(s)
  BY <1>3 DEF IsPlain
<1>6. Unpacked(s) = b
  BY <1>3, <1>5 DEF Unpacked
<1>7. QED
  BY <1>1, <1>4, <1>6

LEMMA PlainParts ==
  ASSUME NEW b, Listed(b)
  PROVE  /\ Listed(Plain(b)) /\ Len(Plain(b)) = 1 + Len(b)
         /\ Plain(b)[1] = <<"ff">>
         /\ \A k \in 1 .. Len(b) : Plain(b)[1 + k] = <<"byte", b[k]>>
<1>1. PICK n \in Nat : n = Len(b)
  BY ListedLen
<1>2. PICK t : t = [k \in 1 .. n |-> <<"byte", b[k]>>]
  OBVIOUS
<1>3. DOMAIN t = 1 .. n /\ t = [k \in 1 .. n |-> t[k]]
  BY <1>2
<1>4. Listed(t) /\ Len(t) = n
  BY <1>3, ListedFunction
<1>5. PICK s : s = <<<<"ff">>>>
  OBVIOUS
<1>6. Listed(s) /\ Len(s) = 1 /\ s[1] = <<"ff">>
  BY <1>5, ListedOne
<1>7. PICK u : u = s \o t
  OBVIOUS
<1>8. Chain(s, t, u)
  BY <1>4, <1>6, <1>7, ListedChain
<1>9. Plain(b) = u
  BY <1>1, <1>2, <1>5, <1>7 DEF Plain
<1>10. /\ Listed(u) /\ Len(u) = 1 + n /\ (\A i \in 1 .. 1 : u[i] = s[i])
       /\ \A i \in 1 .. n : u[1 + i] = t[i]
  BY <1>4, <1>6, <1>8 DEF Chain
<1>11. u[1] = s[1]
  BY <1>10
<1>12. \A i \in 1 .. n : u[1 + i] = <<"byte", b[i]>>
  BY <1>2, <1>10
<1>13. QED
  BY <1>1, <1>6, <1>9, <1>10, <1>11, <1>12

LEMMA PlainBack ==
  ASSUME NEW b, Listed(b)
  PROVE  IsPlain(Plain(b)) /\ Unpacked(Plain(b)) = b
<1>1. PICK n \in Nat : n = Len(b)
  BY ListedLen
<1>2. PICK s : s = Plain(b)
  OBVIOUS
<1>3. /\ Listed(s) /\ Len(s) = 1 + n /\ s[1] = <<"ff">>
      /\ \A k \in 1 .. n : s[1 + k] = <<"byte", b[k]>>
  BY <1>1, <1>2, PlainParts
<1>4. s # <<>> /\ s[1][1] = "ff"
  BY <1>3, ListedNone
<1>5. ASSUME NEW k \in 2 .. 1 + n PROVE s[k][1] = "byte"
  <2>1. k - 1 \in 1 .. n /\ 1 + (k - 1) = k
    OBVIOUS
  <2>2. s[k] = <<"byte", b[k - 1]>>
    BY <1>3, <2>1
  <2>3. QED
    BY <2>2
<1>6. IsPlain(s)
  BY <1>3, <1>4, <1>5 DEF IsPlain
<1>7. Unpacked(s) = [k \in 1 .. n |-> s[k + 1][2]]
  BY <1>3, <1>6 DEF Unpacked
<1>8. ASSUME NEW k \in 1 .. n PROVE s[k + 1][2] = b[k]
  <2>1. s[1 + k] = <<"byte", b[k]>>
    BY <1>3
  <2>2. 1 + k = k + 1
    OBVIOUS
  <2>3. s[k + 1] = <<"byte", b[k]>>
    BY <2>1, <2>2
  <2>4. QED
    BY <2>3
<1>9. PICK u : u = [k \in 1 .. n |-> s[k + 1][2]]
  OBVIOUS
<1>10. Listed(u) /\ Len(u) = n
  <2>1. DOMAIN u = 1 .. n /\ u = [k \in 1 .. n |-> u[k]]
    BY <1>9
  <2>2. QED
    BY <2>1, ListedFunction
<1>11. \A k \in 1 .. Len(u) : u[k] = b[k]
  BY <1>8, <1>9, <1>10
<1>12. u = b
  BY <1>1, <1>10, <1>11, ListedSame
<1>13. QED
  BY <1>2, <1>6, <1>7, <1>9, <1>12

(* The two forms of a block.                                               *)
Forms(b) == {Packed(b), Plain(b)}

LEMMA FormsBack ==
  ASSUME NEW b, Listed(b), NEW cells \in Forms(b)
  PROVE  Unpacked(cells) = b /\ (IsPacked(cells) \/ IsPlain(cells))
  BY PackedBack, PlainBack DEF Forms

-----------------------------------------------------------------------------
(* Blocks.                                                                 *)

LEMMA Products ==
  ASSUME NEW q \in Nat
  PROVE  q * Block \in Nat /\ (q + 1) * Block = q * Block + Block
  BY BlockAssumption

LEMMA ProductsOrder ==
  ASSUME NEW p \in Nat, NEW q \in Nat, p < q
  PROVE  p * Block + Block <= q * Block
<1>1. PICK d \in Nat : q = (p + 1) + d
  <2>1. q - (p + 1) \in Nat /\ q = (p + 1) + (q - (p + 1))
    OBVIOUS
  <2>2. QED
    BY <2>1
<1>2. q * Block = (p + 1) * Block + d * Block
  BY <1>1, BlockAssumption
<1>3. QED
  BY <1>2, Products

LEMMA ProductZero == 0 * Block = 0 /\ 1 * Block = Block
  BY BlockAssumption

(* There are as many blocks as there are multiples of Block below `size`.  *)
LEMMA BlocksBelow ==
  ASSUME NEW size \in Nat
  PROVE  /\ BlocksOf(size) \in Nat
         /\ \A i \in Nat : i < BlocksOf(size) <=> i * Block < size
<1>1. PICK m \in Nat : m = size + Block - 1
  BY BlockAssumption
<1>2. PICK q, r \in Nat : q = m \div Block /\ r = m % Block /\ r < Block /\ m = q * Block + r
  BY BlockAssumption, Quotient
<1>3. BlocksOf(size) = q
  BY <1>1, <1>2 DEF BlocksOf
<1>4. PICK z \in Nat : z = q * Block
  BY Products
<1>5. size = z + r + 1 - Block
  BY <1>1, <1>2, <1>4, BlockAssumption
<1>6. ASSUME NEW i \in Nat PROVE i < q <=> i * Block < size
  <2>1. PICK y \in Nat : y = i * Block
    BY Products
  <2>2. CASE i < q
    <3>1. y + Block <= z
      BY <1>4, <2>1, <2>2, ProductsOrder
    <3>2. QED
      BY <1>5, <2>1, <2>2, <3>1, BlockAssumption
  <2>3. CASE ~(i < q)
    <3>1. i = q \/ q < i
      BY <2>3
    <3>2. z <= y
      BY <1>4, <2>1, <3>1, ProductsOrder, BlockAssumption
    <3>3. ~(y < size)
      BY <1>2, <1>5, <3>2, BlockAssumption
    <3>4. QED
      BY <2>1, <2>3, <3>3
  <2>4. QED
    BY <2>2, <2>3
<1>7. QED
  BY <1>3, <1>6

LEMMA BlocksFew ==
  ASSUME NEW size \in Nat
  PROVE  /\ BlocksOf(size) = 0 <=> size = 0
         /\ BlocksOf(size) <= 1 <=> size <= Block
<1>1. PICK n \in Nat : n = BlocksOf(size)
  BY BlocksBelow
<1>2. 0 < n <=> 0 * Block < size
  BY <1>1, BlocksBelow
<1>3. 1 < n <=> 1 * Block < size
  BY <1>1, BlocksBelow
<1>4. QED
  BY <1>1, <1>2, <1>3, ProductZero, BlockAssumption

(* Byte p of a file is byte p % Block of block p \div Block.               *)
LEMMA BlockPlace ==
  ASSUME NEW size \in Nat, NEW p \in Nat, p < size
  PROVE  /\ BlockAt(p) \in Nat /\ BlockAt(p) < BlocksOf(size)
         /\ BlockAt(p) * Block <= p /\ p < BlockAt(p) * Block + Block
         /\ p = BlockAt(p) * Block + (p % Block) /\ p % Block \in Nat
         /\ BlockAt(p) = p \div Block
<1>1. PICK q, r \in Nat : q = p \div Block /\ r = p % Block /\ r < Block /\ p = q * Block + r
  BY BlockAssumption, Quotient
<1>2. PICK z \in Nat : z = q * Block
  BY Products
<1>3. z < size
  <2>1. p = z + r
    BY <1>1, <1>2
  <2>2. QED
    BY <2>1
<1>4. q < BlocksOf(size)
  BY <1>2, <1>3, BlocksBelow
<1>5. BlockAt(p) = q
  BY <1>1 DEF BlockAt
<1>6. z <= p /\ p < z + Block
  BY <1>1, <1>2, BlockAssumption
<1>7. QED
  BY <1>1, <1>2, <1>4, <1>5, <1>6

(* Block i of a file.                                                      *)
LEMMA BlockPart ==
  ASSUME NEW c, Listed(c), NEW i \in Nat, i < BlocksOf(Len(c))
  PROVE  /\ Listed(NthBlock(c, i))
         /\ Len(NthBlock(c, i)) = Smaller(Block, Len(c) - i * Block)
         /\ Len(NthBlock(c, i)) \in Nat \ {0}
         /\ i * Block + Len(NthBlock(c, i)) <= Len(c)
         /\ \A k \in 1 .. Len(NthBlock(c, i)) : NthBlock(c, i)[k] = c[i * Block + k]
<1>1. PICK l \in Nat : l = Len(c)
  BY ListedLen
<1>2. PICK z \in Nat : z = i * Block /\ (i + 1) * Block = z + Block
  BY Products
<1>3. z < l
  BY <1>1, <1>2, BlocksBelow
<1>4. PICK e \in Nat : e = Smaller(z + Block, l) /\ z <= e /\ e <= l
  BY <1>3, BlockAssumption DEF Smaller
<1>5. NthBlock(c, i) = Slice(c, z, e)
  <2>1. NthBlock(c, i) = Slice(c, z, z + Block)
    BY <1>2 DEF NthBlock
  <2>2. Slice(c, z, z + Block) = Slice(c, z, Smaller(z + Block, l))
    BY <1>1, <1>3, BlockAssumption, SliceCut
  <2>3. QED
    BY <1>4, <2>1, <2>2
<1>6. /\ Listed(Slice(c, z, e)) /\ Len(Slice(c, z, e)) = e - z
      /\ \A k \in 1 .. e - z : Slice(c, z, e)[k] = c[z + k]
  <2>1. z \in Nat /\ e \in Nat /\ z <= e /\ e <= Len(c)
    BY <1>1, <1>2, <1>4
  <2>2. QED
    BY <2>1, SlicePart
<1>7. e - z = Smaller(Block, l - z) /\ e - z \in Nat \ {0} /\ z + (e - z) <= l
  BY <1>3, <1>4, BlockAssumption DEF Smaller
<1>8. QED
  BY <1>1, <1>2, <1>5, <1>6, <1>7

-----------------------------------------------------------------------------
(***************************************************************************)
(* The inductive invariant.                                                *)
(***************************************************************************)

(* The contents c are in the fork f: a table, and the blocks it names.     *)
LaidBlock(f, c, k) ==
  \E at, len \in Nat :
    /\ f[k + 2] = <<"entry", at, len>> /\ at + len <= Len(f)
    /\ Slice(f, at, at + len) \in Forms(NthBlock(c, k - 1))

Laid(f, c) ==
  LET n == BlocksOf(Len(c))
  IN  /\ Listed(f) /\ Len(f) >= 2 + n /\ f[2] = <<"n", n>>
      /\ \A k \in 1 .. n : LaidBlock(f, c, k)

(* The attribute a and the fork f hold the contents c.                     *)
Regular(a, f, c) ==
  /\ Listed(c) /\ a.size = Len(c)
  /\ a.kind = "inline" => a.data \in Forms(c)
  /\ a.kind = "fork"   => Laid(f, c)

(* A fork that was there is written over, or its attribute is taken away.  *)
Overwriting == \/ saving.table # <<>> /\ attr.kind = "fork"
               \/ saving.phase \in {"inline", "fork"} /\ attr.kind = "none"

(* The contents that a closed file has on disk, if it is not torn.         *)
Was == IF stop = "lost" THEN <<>> ELSE saved

Kept == stop # "torn" /\ ~Overwriting => Regular(attr, fork, Was)

NoKind == {"none", "absent"}

AttrInv ==
  /\ attr.kind \in {"absent", "none", "inline", "fork"}
  /\ attr.kind \in NoKind => attr.size = 0
  /\ attr.kind \notin NoKind => attr.size \in 1 .. MaxSize
  /\ attr.kind = "inline" => /\ Listed(Unpacked(attr.data))
                             /\ Len(Unpacked(attr.data)) = attr.size

(* A fork is of this program's cells, whatever their order.                *)
Cell(x) == /\ x[1] = "z" => Listed(x[2])
           /\ x[1] = "n" => x[2] \in Nat
           /\ x[1] = "entry" => x[2] \in Nat /\ x[3] \in Nat

Cells(f) == Listed(f) /\ \A k \in 1 .. Len(f) : Cell(f[k])

Place(e) == e.at \in Nat /\ e.len \in Nat

Places(t) == Listed(t) /\ \A k \in 1 .. Len(t) : Place(t[k])

HandleShape(h) ==
  /\ h = [size |-> h.size, room |-> h.room, blocks |-> h.blocks, cached |-> h.cached,
          start |-> h.start, end |-> h.end, dirty |-> h.dirty]
  /\ h.size \in 0 .. MaxSize /\ h.start \in Nat
  /\ Listed(h.cached) /\ h.end = h.start + Len(h.cached)
  /\ Places(h.blocks)
  /\ h.dirty => h.start = 0 /\ h.end = h.size /\ h.size # 0

HandleInv ==
  /\ HandleShape(handle)
  /\ status = "closed" => handle = NoHandle
  /\ status = "open" /\ ~handle.dirty =>
       handle.size = attr.size /\ (attr.kind # "fork" => Whole)
  /\ status = "open" \/ (status = "saving" /\ saving.phase = "blocks") =>
       handle.room = IF attr.kind \in NoKind THEN InlineRoom ELSE Len(attr.data)

(* What the file is taken to be while it is in use.                        *)
LiveNow == IF handle.dirty THEN handle.cached ELSE Was

(* The bytes s are those of c from `at` on.                                *)
PieceOf(s, c, at) == \A k \in 1 .. Len(s) : s[k] = c[at + k]

InMemory ==
  stop # "torn" /\ status # "closed" =>
    /\ Listed(LiveNow) /\ handle.size = Len(LiveNow) /\ handle.end <= handle.size
    /\ PieceOf(handle.cached, LiveNow, handle.start)
    /\ ~handle.dirty /\ attr.kind = "fork" => handle.blocks = Table(fork)

CallShape(c) ==
  /\ c = [op |-> c.op, at |-> c.at, want |-> c.want, got |-> c.got, data |-> c.data]
  /\ c.op \in {"done", "read", "gather", "change"}
  /\ c.at \in Nat /\ c.want \in Nat /\ Listed(c.got) /\ Len(c.got) <= c.want

CallInv ==
  /\ CallShape(call)
  /\ call.op # "done" => status \in {"open", "wild", "exited"}
  /\ call.op = "read" => call.at + call.want <= handle.size /\ call.data = <<>>
  /\ call.op = "gather" => call.want = handle.size /\ ~handle.dirty /\ call.want # 0
  /\ call.op \in {"gather", "change"} =>
       call.data \in Data /\ call.at + Len(call.data) <= MaxSize
  /\ call.op = "change" => /\ Len(call.got) = call.want
                           /\ IF call.want = 0 THEN Whole ELSE call.want = handle.size

GotPart ==
  stop # "torn" =>
    /\ call.op = "read" => PieceOf(call.got, LiveNow, call.at)
    /\ call.op \in {"gather", "change"} => PieceOf(call.got, LiveNow, 0)

(* Block k was written where the table says, behind the table.             *)
InPlace(f, table, n, place, c, k) ==
  /\ Place(table[k]) /\ BlockArea(n) <= table[k].at
  /\ table[k].at + table[k].len <= place
  /\ Slice(f, table[k].at, table[k].at + table[k].len) = Packed(NthBlock(c, k - 1))

Written(f, s, n, c) ==
  /\ Listed(s.table) /\ Len(s.table) <= n
  /\ s.place \in Nat /\ BlockArea(n) <= s.place
  /\ s.table # <<>> => s.place <= Len(f)
  /\ \A k \in 1 .. Len(s.table) : InPlace(f, s.table, n, s.place, c, k)

TableWritten(f, table, n) ==
  /\ Len(f) >= 2 + n /\ f[2] = <<"n", n>>
  /\ \A k \in 1 .. n : f[k + 2] = <<"entry", table[k].at, table[k].len>>

SaveInv ==
  LET n == BlocksOf(handle.size)
  IN  /\ saving = [phase |-> saving.phase, table |-> saving.table, place |-> saving.place]
      /\ saving.phase \in {"none", "blocks", "inline", "table", "end", "fork"}
      /\ status = "saving" => saving.phase # "none" 
      /\ status \notin {"saving", "wild"} => saving = NotSaving
      /\ saving.phase = "none" => saving = NotSaving
      /\ saving.phase # "none" => handle.dirty /\ Written(fork, saving, n, handle.cached)
      /\ saving.phase \in {"table", "end", "fork"} => Len(saving.table) = n
      /\ saving.phase \in {"end", "fork"} => TableWritten(fork, saving.table, n)
      /\ saving.phase = "inline" => saving.table = <<>> /\ Fits

(* Nothing is out of bounds but the buffer of an attribute.                *)
Bounded ==
  stop # "torn" =>
    /\ status # "exited"
    /\ status = "wild" => /\ saving.phase = "inline" /\ attr.kind \in {"inline", "fork"}
                          /\ PackedLen(handle.cached) > Len(attr.data)

Statuses == /\ status \in {"closed", "open", "saving", "wild", "exited"}
            /\ stop \in {"never", "harmless", "torn", "lost"}
            /\ stop = "lost" => attr.kind = "absent"

FileInv == /\ Statuses /\ AttrInv /\ Cells(fork) /\ HandleInv /\ CallInv /\ SaveInv
           /\ Kept /\ InMemory /\ GotPart /\ Bounded

-----------------------------------------------------------------------------
(* Slices and what is written over them.                                   *)

LEMMA SliceSame ==
  ASSUME NEW s, Listed(s), NEW t, Listed(t), NEW from \in Nat, NEW to \in Nat,
         from <= to, to <= Len(s), to <= Len(t),
         \A k \in 1 .. to : k > from => s[k] = t[k]
  PROVE  Slice(s, from, to) = Slice(t, from, to)
<1>1. /\ Listed(Slice(s, from, to)) /\ Len(Slice(s, from, to)) = to - from
      /\ \A k \in 1 .. to - from : Slice(s, from, to)[k] = s[from + k]
  BY SlicePart
<1>2. /\ Listed(Slice(t, from, to)) /\ Len(Slice(t, from, to)) = to - from
      /\ \A k \in 1 .. to - from : Slice(t, from, to)[k] = t[from + k]
  BY SlicePart
<1>3. \A k \in 1 .. to - from : s[from + k] = t[from + k]
  OBVIOUS
<1>4. \A k \in 1 .. to - from : Slice(s, from, to)[k] = Slice(t, from, to)[k]
  BY <1>1, <1>2, <1>3
<1>5. QED
  BY <1>1, <1>2, <1>4, ListedSame

Cut(s, from, to, u) ==
  /\ Listed(u) /\ Len(u) = to - from
  /\ \A k \in 1 .. to - from : u[k] = s[from + k]

LEMMA SliceIsCut ==
  ASSUME NEW s, Listed(s), NEW from \in Nat, NEW to \in Nat, from <= to, to <= Len(s)
  PROVE  Cut(s, from, to, Slice(s, from, to))
  BY SlicePart DEF Cut

LEMMA SliceIs ==
  ASSUME NEW s, Listed(s), NEW from \in Nat, NEW t, Listed(t), from + Len(t) <= Len(s),
         \A k \in 1 .. Len(t) : s[from + k] = t[k]
  PROVE  Slice(s, from, from + Len(t)) = t
<1>1. PICK n \in Nat : n = Len(t)
  BY ListedLen
<1>2. PICK e \in Nat : e = from + n
  BY <1>1
<1>3. from <= e /\ e <= Len(s) /\ e - from = n
  BY <1>1, <1>2
<1>4. Cut(s, from, e, Slice(s, from, e))
  BY <1>2, <1>3, SliceIsCut
<1>5. PICK u : u = Slice(s, from, e)
  OBVIOUS
<1>6. Listed(u) /\ Len(u) = n /\ \A k \in 1 .. n : u[k] = s[from + k]
  BY <1>3, <1>4, <1>5 DEF Cut
<1>7. \A k \in 1 .. n : u[k] = t[k]
  BY <1>1, <1>6
<1>8. QED
  BY <1>1, <1>2, <1>5, <1>6, <1>7, ListedSame

(* g is f with the cells at `at` + 1 and after it.                         *)
Over(f, at, cells, g) ==
  /\ Listed(g) /\ Len(f) <= Len(g) /\ at + Len(cells) <= Len(g)
  /\ \A k \in 1 .. Len(cells) : g[at + k] = cells[k]
  /\ \A k \in 1 .. Len(f) : k <= at \/ at + Len(cells) < k => g[k] = f[k]

LEMMA PutParts ==
  ASSUME Cells(fork), NEW at \in Nat, NEW cells, Cells(cells), NEW g, g = Put(at, cells)
  PROVE  Over(fork, at, cells, g) /\ Cells(g)
<1>1. PICK m, n \in Nat : m = Len(fork) /\ n = Len(cells)
  BY ListedLen DEF Cells
<1>2. PICK l \in Nat : l = IF at + n > m THEN at + n ELSE m
  OBVIOUS
<1>3. g = [k \in 1 .. l |->
             IF k > at /\ k <= at + n THEN cells[k - at]
             ELSE IF k <= m THEN fork[k] ELSE <<"0">>]
  BY <1>1, <1>2 DEF Put
<1>4. DOMAIN g = 1 .. l /\ g = [k \in 1 .. l |-> g[k]]
  BY <1>3
<1>5. Listed(g) /\ Len(g) = l
  BY <1>4, ListedFunction
<1>6. m <= l /\ at + n <= l
  BY <1>2
<1>7. ASSUME NEW k \in 1 .. n PROVE g[at + k] = cells[k]
  <2>1. at + k \in 1 .. l /\ at + k > at /\ at + k <= at + n /\ at + k - at = k
    BY <1>6
  <2>2. QED
    BY <1>3, <2>1
<1>8. ASSUME NEW k \in 1 .. m, k <= at \/ at + n < k PROVE g[k] = fork[k]
  <2>1. k \in 1 .. l /\ ~(k > at /\ k <= at + n) /\ k <= m
    BY <1>6, <1>8
  <2>2. QED
    BY <1>3, <2>1
<1>9. ASSUME NEW k \in 1 .. l PROVE Cell(g[k])
  <2>1. CASE k > at /\ k <= at + n
    <3>1. k - at \in 1 .. n
      BY <2>1
    <3>2. g[k] = cells[k - at]
      BY <1>3, <2>1
    <3>3. QED
      BY <1>1, <3>1, <3>2 DEF Cells
  <2>2. CASE ~(k > at /\ k <= at + n) /\ k <= m
    <3>1. g[k] = fork[k] /\ k \in 1 .. m
      BY <1>3, <2>2
    <3>2. QED
      BY <1>1, <3>1 DEF Cells
  <2>3. CASE ~(k > at /\ k <= at + n) /\ ~(k <= m)
    <3>1. g[k] = <<"0">>
      BY <1>3, <2>3
    <3>2. g[k][1] = "0"
      BY <3>1
    <3>3. QED
      BY <3>2 DEF Cell
  <2>4. QED
    BY <2>1, <2>2, <2>3
<1>10. Over(fork, at, cells, g)
  BY <1>1, <1>5, <1>6, <1>7, <1>8 DEF Over
<1>11. QED
  BY <1>5, <1>9, <1>10 DEF Cells

(* What is in front of the cells, or behind them, stays.                   *)
LEMMA OverSlice ==
  ASSUME NEW f, Listed(f), NEW at \in Nat, NEW cells, Listed(cells), NEW g,
         Over(f, at, cells, g), NEW from \in Nat, NEW to \in Nat, from <= to, to <= Len(f),
         to <= at \/ at + Len(cells) <= from
  PROVE  Slice(g, from, to) = Slice(f, from, to)
<1>1. PICK m, n \in Nat : m = Len(f) /\ n = Len(cells)
  BY ListedLen
<1>2. Listed(g) /\ m <= Len(g) /\ \A k \in 1 .. m : k <= at \/ at + n < k => g[k] = f[k]
  BY <1>1 DEF Over
<1>3. PICK l \in Nat : l = Len(g)
  BY <1>2, ListedLen
<1>4. ASSUME NEW k \in 1 .. to, k > from PROVE g[k] = f[k]
  <2>1. k \in 1 .. m /\ (k <= at \/ at + n < k)
    BY <1>1, <1>4
  <2>2. QED
    BY <1>2, <2>1
<1>5. to <= Len(g)
  BY <1>1, <1>2, <1>3
<1>6. QED
  BY <1>2, <1>4, <1>5, SliceSame

LEMMA PackedCells ==
  ASSUME NEW b, Listed(b)
  PROVE  Cells(Packed(b))
<1>1. PICK n \in Nat \ {0} : n = PackedLen(b)
  BY PackedLenType
<1>2. PICK s : s = Packed(b)
  OBVIOUS
<1>3. Listed(s) /\ Len(s) = n /\ \A k \in 1 .. n : s[k] = <<"z", b, k>>
  BY <1>1, <1>2, PackedParts
<1>4. ASSUME NEW k \in 1 .. n PROVE Cell(s[k])
  <2>1. s[k] = <<"z", b, k>>
    BY <1>3
  <2>2. s[k][1] = "z" /\ s[k][2] = b
    BY <2>1
  <2>3. QED
    BY <2>2 DEF Cell
<1>5. QED
  BY <1>2, <1>3, <1>4 DEF Cells

LEMMA PlainCells ==
  ASSUME NEW b, Listed(b)
  PROVE  Cells(Plain(b))
<1>1. PICK n \in Nat : n = Len(b)
  BY ListedLen
<1>2. PICK s : s = Plain(b)
  OBVIOUS
<1>3. /\ Listed(s) /\ Len(s) = 1 + n /\ s[1] = <<"ff">>
      /\ \A k \in 1 .. n : s[1 + k] = <<"byte", b[k]>>
  BY <1>1, <1>2, PlainParts
<1>4. ASSUME NEW k \in 1 .. 1 + n PROVE Cell(s[k])
  <2>1. CASE k = 1
    <3>1. s[k][1] = "ff"
      BY <1>3, <2>1
    <3>2. QED
      BY <3>1 DEF Cell
  <2>2. CASE k # 1
    <3>1. k - 1 \in 1 .. n /\ 1 + (k - 1) = k
      BY <2>2
    <3>2. s[k] = <<"byte", b[k - 1]>>
      BY <1>3, <3>1
    <3>3. s[k][1] = "byte"
      BY <3>2
    <3>4. QED
      BY <3>3 DEF Cell
  <2>3. QED
    BY <2>1, <2>2
<1>5. QED
  BY <1>2, <1>3, <1>4 DEF Cells

(* What comes out of a slice of a fork.                                    *)
LEMMA UnpackedListed ==
  ASSUME NEW s, Cells(s), IsPacked(s) \/ IsPlain(s)
  PROVE  Listed(Unpacked(s))
<1>1. PICK n \in Nat : n = Len(s)
  BY ListedLen DEF Cells
<1>2. s # <<>> /\ n # 0
  BY <1>1, ListedEmpty DEF IsPacked, IsPlain, Cells
<1>3. CASE IsPlain(s)
  <2>1. PICK m \in Nat : m = n - 1
    BY <1>2
  <2>2. PICK u : u = [k \in 1 .. m |-> s[k + 1][2]]
    OBVIOUS
  <2>3. Unpacked(s) = u
    BY <1>1, <1>3, <2>1, <2>2 DEF Unpacked
  <2>4. DOMAIN u = 1 .. m /\ u = [k \in 1 .. m |-> u[k]]
    BY <2>2
  <2>5. QED
    BY <2>3, <2>4, ListedFunction
<1>4. CASE ~IsPlain(s)
  <2>1. s[1][1] = "z"
    BY <1>4 DEF IsPacked
  <2>2. 1 \in 1 .. n
    BY <1>2
  <2>3. Listed(s[1][2])
    BY <1>1, <2>1, <2>2 DEF Cells, Cell
  <2>4. QED
    BY <1>4, <2>3 DEF Unpacked
<1>5. QED
  BY <1>3, <1>4

LEMMA SliceCells ==
  ASSUME NEW f, Cells(f), NEW from \in Nat, NEW to \in Nat, from <= to, to <= Len(f)
  PROVE  Cells(Slice(f, from, to))
<1>1. /\ Listed(Slice(f, from, to)) /\ Len(Slice(f, from, to)) = to - from
      /\ \A k \in 1 .. to - from : Slice(f, from, to)[k] = f[from + k]
  BY SlicePart DEF Cells
<1>2. PICK l \in Nat : l = Len(f)
  BY ListedLen DEF Cells
<1>3. \A k \in 1 .. to - from : from + k \in 1 .. l
  BY <1>2
<1>4. \A k \in 1 .. to - from : Cell(f[from + k])
  BY <1>2, <1>3 DEF Cells
<1>5. QED
  BY <1>1, <1>4 DEF Cells

LEMMA OutcomesListed ==
  ASSUME NEW s, Cells(s), NEW out \in Outcomes(s)
  PROVE  Listed(out)
<1>1. CASE IsPacked(s) \/ IsPlain(s)
  BY <1>1, UnpackedListed DEF Outcomes
<1>2. CASE ~(IsPacked(s) \/ IsPlain(s)) /\ out = <<>>
  BY <1>2, ListedNone
<1>3. CASE ~(IsPacked(s) \/ IsPlain(s)) /\ out # <<>>
  <2>1. out = [k \in 1 .. Block |-> Junk]
    BY <1>3 DEF Outcomes
  <2>2. Block \in Nat /\ DOMAIN out = 1 .. Block /\ out = [k \in 1 .. Block |-> out[k]]
    BY <2>1, BlockAssumption
  <2>3. QED
    BY <2>2, ListedFunction
<1>4. QED
  BY <1>1, <1>2, <1>3

-----------------------------------------------------------------------------
(* Tables, and what is read with them.                                     *)

Listing(t, n) == Listed(t) /\ Len(t) = n /\ DOMAIN t = 1 .. n

LEMMA TableParts ==
  ASSUME NEW f, NEW n \in Nat, f[2][2] = n
  PROVE  /\ Listing(Table(f), n)
         /\ \A k \in 1 .. n : Table(f)[k] = [at |-> f[k + 2][2], len |-> f[k + 2][3]]
<1>1. PICK t : t = [k \in 1 .. n |-> [at |-> f[k + 2][2], len |-> f[k + 2][3]]]
  OBVIOUS
<1>2. Table(f) = t
  BY <1>1 DEF Table
<1>3. DOMAIN t = 1 .. n /\ t = [k \in 1 .. n |-> t[k]]
  BY <1>1
<1>4. Listed(t) /\ Len(t) = n
  BY <1>3, ListedFunction
<1>5. QED
  BY <1>1, <1>2, <1>3, <1>4 DEF Listing

(* Any table has places.                                                   *)
LEMMA TablePlaces ==
  ASSUME NEW f, Cells(f), IsTable(f)
  PROVE  Places(Table(f))
<1>1. PICK l \in Nat : l = Len(f)
  BY ListedLen DEF Cells
<1>2. l >= 2 /\ f[2][1] = "n" /\ l >= 2 + f[2][2]
  BY <1>1 DEF IsTable
<1>3. 2 \in 1 .. l
  BY <1>2
<1>4. PICK n \in Nat : n = f[2][2]
  BY <1>1, <1>2, <1>3 DEF Cells, Cell
<1>5. /\ Listing(Table(f), n)
      /\ \A k \in 1 .. n : Table(f)[k] = [at |-> f[k + 2][2], len |-> f[k + 2][3]]
  BY <1>4, TableParts
<1>6. ASSUME NEW k \in 1 .. n PROVE Place(Table(f)[k])
  <2>1. PICK j \in 1 .. l : j = k + 2
    BY <1>2, <1>4
  <2>2. k + 2 \in 3 .. 2 + n
    OBVIOUS
  <2>3. f[j][1] = "entry"
    BY <1>4, <2>1, <2>2 DEF IsTable
  <2>4. f[j][2] \in Nat /\ f[j][3] \in Nat
    BY <1>1, <2>3 DEF Cells, Cell
  <2>5. Table(f)[k] = [at |-> f[j][2], len |-> f[j][3]]
    BY <1>5, <2>1
  <2>6. QED
    BY <2>4, <2>5 DEF Place
<1>7. QED
  BY <1>5, <1>6 DEF Listing, Places

(* What the table says of block k.                                         *)
LEMMA LaidEntry ==
  ASSUME NEW f, NEW c, Listed(c), Laid(f, c), NEW k \in 1 .. BlocksOf(Len(c))
  PROVE  /\ Place(Table(f)[k])
         /\ Table(f)[k].at + Table(f)[k].len <= Len(f)
         /\ Stored(f, k) \in Forms(NthBlock(c, k - 1))
<1>1. PICK n \in Nat : n = BlocksOf(Len(c))
  BY ListedLen, BlocksBelow
<1>2. f[2] = <<"n", n>> /\ LaidBlock(f, c, k)
  BY <1>1 DEF Laid
<1>3. f[2][2] = n
  BY <1>2
<1>4. Table(f)[k] = [at |-> f[k + 2][2], len |-> f[k + 2][3]]
  BY <1>1, <1>3, TableParts
<1>5. PICK at, len \in Nat :
        /\ f[k + 2] = <<"entry", at, len>> /\ at + len <= Len(f)
        /\ Slice(f, at, at + len) \in Forms(NthBlock(c, k - 1))
  BY <1>2 DEF LaidBlock
<1>6. Table(f)[k].at = at /\ Table(f)[k].len = len
  BY <1>4, <1>5
<1>7. Stored(f, k) = Slice(f, at, at + len)
  BY <1>6 DEF Stored
<1>8. QED
  BY <1>5, <1>6, <1>7 DEF Place

LEMMA LaidTable ==
  ASSUME NEW f, NEW c, Listed(c), Laid(f, c)
  PROVE  IsTable(f) /\ Listing(Table(f), BlocksOf(Len(c)))
<1>1. PICK n \in Nat : n = BlocksOf(Len(c))
  BY ListedLen, BlocksBelow
<1>2. /\ Listed(f) /\ Len(f) >= 2 + n /\ f[2] = <<"n", n>>
      /\ \A k \in 1 .. n : LaidBlock(f, c, k)
  BY <1>1 DEF Laid
<1>3. PICK l \in Nat : l = Len(f)
  BY <1>2, ListedLen
<1>4. f[2][1] = "n" /\ f[2][2] = n
  BY <1>2
<1>5. ASSUME NEW k \in 3 .. 2 + n PROVE f[k][1] = "entry"
  <2>1. PICK j \in 1 .. n : j + 2 = k
    <3>1. k - 2 \in 1 .. n /\ k - 2 + 2 = k
      OBVIOUS
    <3>2. QED
      BY <3>1
  <2>2. PICK at, len \in Nat : f[j + 2] = <<"entry", at, len>>
    BY <1>2, <2>1 DEF LaidBlock
  <2>3. f[k] = <<"entry", at, len>>
    BY <2>1, <2>2
  <2>4. QED
    BY <2>3
<1>6. IsTable(f)
  BY <1>2, <1>3, <1>4, <1>5 DEF IsTable
<1>7. QED
  BY <1>1, <1>4, <1>6, TableParts

(* Byte i of a file is where it should be.                                 *)
LEMMA LaidByte ==
  ASSUME NEW f, NEW c, Listed(c), Laid(f, c), NEW i \in 1 .. Len(c)
  PROVE  StoredByte(f, i) = c[i]
<1>1. PICK l \in Nat : l = Len(c)
  BY ListedLen
<1>2. PICK p \in Nat : p = i - 1 /\ p < l
  BY <1>1
<1>3. PICK q \in Nat : q = BlockAt(p)
  BY <1>1, <1>2, BlockPlace
<1>4. PICK r \in Nat : r = p % Block
  BY <1>1, <1>2, BlockPlace
<1>5. PICK z \in Nat : z = q * Block
  BY Products
<1>6. /\ q < BlocksOf(l) /\ p = z + r /\ p < z + Block /\ q = p \div Block
  BY <1>1, <1>2, <1>3, <1>4, <1>5, BlockPlace
<1>7. PICK n \in Nat : n = BlocksOf(l)
  BY BlocksBelow
<1>8. PICK k \in 1 .. n : k = q + 1 /\ k - 1 = q
  BY <1>6, <1>7
<1>9. PICK b : b = NthBlock(c, q)
  OBVIOUS
<1>10. /\ Listed(b) /\ Len(b) = Smaller(Block, l - z)
       /\ \A j \in 1 .. Len(b) : b[j] = c[z + j]
  <2>1. q \in Nat /\ q < BlocksOf(Len(c))
    BY <1>1, <1>3, <1>6
  <2>2. /\ Listed(NthBlock(c, q)) /\ Len(NthBlock(c, q)) = Smaller(Block, Len(c) - q * Block)
        /\ \A j \in 1 .. Len(NthBlock(c, q)) : NthBlock(c, q)[j] = c[q * Block + j]
    BY <2>1, BlockPart
  <2>3. QED
    BY <1>1, <1>5, <1>9, <2>2
<1>11. Stored(f, k) \in Forms(b)
  BY <1>1, <1>7, <1>8, <1>9, LaidEntry
<1>12. Unpacked(Stored(f, k)) = b
  BY <1>10, <1>11, FormsBack
<1>13. r + 1 \in 1 .. Len(b)
  BY <1>2, <1>6, <1>10, BlockAssumption DEF Smaller
<1>14. b[r + 1] = c[z + (r + 1)]
  BY <1>10, <1>13
<1>15. z + (r + 1) = i
  BY <1>2, <1>6
<1>16. StoredByte(f, i) = Unpacked(Stored(f, k))[r + 1]
  BY <1>2, <1>4, <1>6, <1>8 DEF StoredByte
<1>17. QED
  BY <1>12, <1>14, <1>15, <1>16

LEMMA LaidSound ==
  ASSUME NEW f, NEW c, Listed(c), Laid(f, c)
  PROVE  Sound(f, Len(c))
<1>1. PICK l \in Nat : l = Len(c)
  BY ListedLen
<1>2. PICK n \in Nat : n = BlocksOf(l)
  BY BlocksBelow
<1>3. IsTable(f) /\ Listing(Table(f), n)
  BY <1>1, <1>2, LaidTable
<1>4. ASSUME NEW k \in 1 .. n
      PROVE  /\ IsPacked(Stored(f, k)) \/ IsPlain(Stored(f, k))
             /\ Len(Unpacked(Stored(f, k))) = Smaller(Block, l - (k - 1) * Block)
  <2>1. PICK i \in Nat : i = k - 1 /\ i < n
    OBVIOUS
  <2>2. PICK b : b = NthBlock(c, i)
    OBVIOUS
  <2>3. Listed(b) /\ Len(b) = Smaller(Block, l - i * Block)
    BY <1>1, <1>2, <2>1, <2>2, BlockPart
  <2>4. Stored(f, k) \in Forms(b)
    BY <1>1, <1>2, <2>1, <2>2, LaidEntry
  <2>5. QED
    BY <2>1, <2>3, <2>4, FormsBack
<1>5. QED
  BY <1>1, <1>2, <1>3, <1>4 DEF Sound, Listing

(* The contents that the attribute a and the fork f hold.                  *)
Held(a, f) ==
  CASE a.kind \in NoKind -> <<>>
    [] a.kind = "inline" -> Unpacked(a.data)
    [] a.kind = "fork"   -> IF Sound(f, a.size)
                            THEN [i \in 1 .. a.size |-> StoredByte(f, i)]
                            ELSE <<Junk>>

LEMMA RegularHeld ==
  ASSUME NEW a, NEW f, NEW c, Regular(a, f, c), a.kind \in {"absent", "none", "inline", "fork"},
         a.kind \in NoKind => a.size = 0
  PROVE  Held(a, f) = c
<1>1. PICK l \in Nat : l = Len(c) /\ l = a.size /\ Listed(c)
  BY ListedLen DEF Regular
<1>2. CASE a.kind \in NoKind
  <2>1. c = <<>>
    BY <1>1, <1>2, ListedEmpty
  <2>2. QED
    BY <1>2, <2>1 DEF Held, NoKind
<1>3. CASE a.kind = "inline"
  <2>1. Unpacked(a.data) = c
    BY <1>1, <1>3, FormsBack DEF Regular
  <2>2. QED
    BY <1>3, <2>1 DEF Held
<1>4. CASE a.kind = "fork"
  <2>1. Laid(f, c)
    BY <1>4 DEF Regular
  <2>2. Sound(f, a.size)
    BY <1>1, <2>1, LaidSound
  <2>3. PICK u : u = [i \in 1 .. l |-> StoredByte(f, i)]
    OBVIOUS
  <2>4. Held(a, f) = u
    BY <1>1, <1>4, <2>2, <2>3 DEF Held
  <2>5. DOMAIN u = 1 .. l /\ u = [i \in 1 .. l |-> u[i]]
    BY <2>3
  <2>6. Listed(u) /\ Len(u) = l
    BY <2>5, ListedFunction
  <2>7. ASSUME NEW i \in 1 .. l PROVE u[i] = c[i]
    <3>1. i \in 1 .. Len(c) /\ u[i] = StoredByte(f, i)
      BY <1>1, <2>3
    <3>2. StoredByte(f, i) = c[i]
      BY <1>1, <2>1, <3>1, LaidByte
    <3>3. QED
      BY <3>1, <3>2
  <2>8. QED
    BY <1>1, <2>4, <2>6, <2>7, ListedSame
<1>5. QED
  BY <1>2, <1>3, <1>4 DEF NoKind

LEMMA ContentsHeld == Contents = Held(attr, fork)
  BY DEF Contents, Held, NoKind

-----------------------------------------------------------------------------
(* The forks there are at the beginning.                                   *)

UptoStep(cells, u, k) == IF k = 0 THEN <<>> ELSE u[k - 1] \o cells[k]

Uptos(cells, m, u) == u = [k \in 0 .. m |-> UptoStep(cells, u, k)]

LEMMA UptoExists ==
  ASSUME NEW cells, NEW n \in Nat
  PROVE  \E u : Uptos(cells, n, u)
<1> DEFINE T == {m \in Nat : ~ \E u : Uptos(cells, m, u)}
<1>1. SUFFICES ASSUME T # {} PROVE FALSE
  OBVIOUS
<1>2. PICK m \in T : \A l \in T : m <= l
  BY <1>1, LeastNat
<1>3. m \in Nat /\ ~ \E u : Uptos(cells, m, u)
  OBVIOUS
<1>4. CASE m = 0
  <2> DEFINE u == [k \in 0 .. 0 |-> <<>>]
  <2>1. u = [k \in 0 .. 0 |-> UptoStep(cells, u, k)]
    BY DEF UptoStep
  <2>2. Uptos(cells, 0, u)
    BY <2>1 DEF Uptos
  <2>3. QED
    BY <1>3, <1>4, <2>2
<1>5. CASE m # 0
  <2>1. PICK l \in Nat : l = m - 1
    BY <1>3, <1>5
  <2>2. l \notin T
    BY <1>2, <2>1
  <2>3. PICK u : Uptos(cells, l, u)
    BY <2>2
  <2>4. \A k \in 0 .. l : u[k] = UptoStep(cells, u, k)
    <3>1. u = [k \in 0 .. l |-> UptoStep(cells, u, k)]
      BY <2>3 DEF Uptos
    <3>2. \A k \in 0 .. l : [j \in 0 .. l |-> UptoStep(cells, u, j)][k] = UptoStep(cells, u, k)
      OBVIOUS
    <3>3. QED
      BY <3>1, <3>2
  <2> DEFINE last == UptoStep(cells, u, m)
             h    == [k \in 0 .. m |-> IF k = m THEN last ELSE u[k]]
  <2> HIDE DEF last
  <2>5. \A k \in 0 .. l : h[k] = u[k]
    BY <1>3, <2>1
  <2>6. h[m] = last /\ DOMAIN h = 0 .. m /\ h = [k \in 0 .. m |-> h[k]]
    BY <1>3
  <2> HIDE DEF h
  <2>7. ASSUME NEW k \in 0 .. m PROVE h[k] = UptoStep(cells, h, k)
    <3>1. CASE k = 0
      BY <2>1, <2>4, <2>5, <3>1 DEF UptoStep
    <3>2. CASE k # 0
      <4>1. k - 1 \in 0 .. l
        BY <1>3, <2>1, <3>2
      <4>2. h[k - 1] = u[k - 1]
        BY <2>5, <4>1
      <4>3. UptoStep(cells, h, k) = UptoStep(cells, u, k)
        BY <3>2, <4>2 DEF UptoStep
      <4>4. CASE k = m
        BY <2>6, <4>3, <4>4 DEF last
      <4>5. CASE k # m
        <5>1. k \in 0 .. l
          BY <1>3, <2>1, <4>5
        <5>2. QED
          BY <2>4, <2>5, <4>3, <5>1
      <4>6. QED
        BY <4>4, <4>5
    <3>3. QED
      BY <3>1, <3>2
  <2>8. Uptos(cells, m, h)
    BY <2>6, <2>7 DEF Uptos
  <2>9. QED
    BY <1>3, <2>8
<1>6. QED
  BY <1>4, <1>5

LEMMA JoinCells ==
  ASSUME NEW s, Cells(s), NEW t, Cells(t), NEW w, w = s \o t
  PROVE  Chain(s, t, w) /\ Cells(w)
<1>1. Chain(s, t, w)
  BY ListedChain DEF Cells
<1>2. PICK a, b \in Nat : a = Len(s) /\ b = Len(t)
  BY ListedLen DEF Cells
<1>3. /\ Listed(w) /\ Len(w) = a + b /\ \A i \in 1 .. a : w[i] = s[i]
      /\ \A i \in 1 .. b : w[a + i] = t[i]
  BY <1>1, <1>2 DEF Chain
<1>4. ASSUME NEW i \in 1 .. a + b PROVE Cell(w[i])
  <2>1. CASE i <= a
    <3>1. i \in 1 .. a
      BY <2>1
    <3>2. w[i] = s[i]
      BY <1>3, <3>1
    <3>3. QED
      BY <1>2, <3>1, <3>2 DEF Cells
  <2>2. CASE ~(i <= a)
    <3>1. i - a \in 1 .. b /\ a + (i - a) = i
      BY <2>2
    <3>2. w[i] = t[i - a]
      BY <1>3, <3>1
    <3>3. QED
      BY <1>2, <3>1, <3>2 DEF Cells
  <2>3. QED
    BY <2>1, <2>2
<1>5. QED
  BY <1>1, <1>3, <1>4 DEF Cells

(* Blocks 1 to k in a row.                                                 *)
UptoFine(cells, u, k) ==
  /\ Cells(u[k])
  /\ k # 0 => /\ Len(u[k]) = Len(u[k - 1]) + Len(cells[k])
              /\ \A i \in 1 .. Len(cells[k]) : u[k][Len(u[k - 1]) + i] = cells[k][i]
              /\ \A i \in 1 .. Len(u[k - 1]) : u[k][i] = u[k - 1][i]

AllCells(cells, n) == \A k \in 1 .. n : Cells(cells[k])

LEMMA UptoParts ==
  ASSUME NEW n \in Nat, NEW cells, AllCells(cells, n), NEW u, Uptos(cells, n, u)
  PROVE  \A k \in 0 .. n : UptoFine(cells, u, k)
<1> DEFINE T == {m \in 0 .. n : ~UptoFine(cells, u, m)}
<1>1. SUFFICES ASSUME T # {} PROVE FALSE
  OBVIOUS
<1>2. PICK m \in T : \A l \in T : m <= l
  <2>1. T \subseteq Nat
    OBVIOUS
  <2>2. QED
    BY <1>1, <2>1, LeastNat
<1>3. m \in 0 .. n /\ ~UptoFine(cells, u, m)
  OBVIOUS
<1>4. u[m] = UptoStep(cells, u, m)
  <2>1. u = [k \in 0 .. n |-> UptoStep(cells, u, k)]
    BY DEF Uptos
  <2>2. [k \in 0 .. n |-> UptoStep(cells, u, k)][m] = UptoStep(cells, u, m)
    BY <1>3
  <2>3. QED
    BY <2>1, <2>2
<1>5. CASE m = 0
  <2>1. u[0] = <<>>
    BY <1>4, <1>5 DEF UptoStep
  <2>2. Cells(u[0])
    BY <2>1, ListedNone DEF Cells
  <2>3. QED
    BY <1>3, <1>5, <2>2 DEF UptoFine
<1>6. CASE m # 0
  <2>1. PICK l \in 0 .. n : l = m - 1 /\ l \notin T
    <3>1. m - 1 \in 0 .. n /\ ~(m <= m - 1)
      BY <1>3, <1>6
    <3>2. QED
      BY <1>2, <3>1
  <2>2. Cells(u[l])
    BY <2>1 DEF UptoFine
  <2>3. PICK s, t : s = u[l] /\ t = cells[m] /\ Cells(s) /\ Cells(t)
    BY <1>3, <1>6, <2>2 DEF AllCells
  <2>4. PICK w : w = s \o t
    OBVIOUS
  <2>5. u[m] = w
    BY <1>4, <1>6, <2>1, <2>3, <2>4 DEF UptoStep
  <2>6. Chain(s, t, w) /\ Cells(w)
    BY <2>3, <2>4, JoinCells
  <2>7. PICK a, b \in Nat : a = Len(s) /\ b = Len(t)
    BY <2>3, ListedLen DEF Cells
  <2>8. /\ Len(w) = a + b /\ \A i \in 1 .. a : w[i] = s[i]
        /\ \A i \in 1 .. b : w[a + i] = t[i]
    BY <2>6, <2>7 DEF Chain
  <2>9. UptoFine(cells, u, m)
    BY <2>1, <2>3, <2>5, <2>6, <2>7, <2>8 DEF UptoFine
  <2>10. QED
    BY <1>3, <2>9
<1>7. QED
  BY <1>5, <1>6

(* Places of blocks never come down again.                                 *)
LEMMA UptoGrows ==
  ASSUME NEW n \in Nat, NEW cells, AllCells(cells, n), NEW u, Uptos(cells, n, u)
  PROVE  \A j \in 0 .. n : /\ Len(u[j]) <= Len(u[n])
                           /\ \A i \in 1 .. Len(u[j]) : u[n][i] = u[j][i]
<1> DEFINE Below1(k, j) == /\ Len(u[j]) <= Len(u[k])
                           /\ \A i \in 1 .. Len(u[j]) : u[k][i] = u[j][i]
           T == {m \in 0 .. n : \E j \in 0 .. m : ~Below1(m, j)}
<1> HIDE DEF Below1
<1>1. SUFFICES ASSUME T # {} PROVE FALSE
  <2>1. n \in 0 .. n /\ n \notin T
    BY <1>1
  <2>2. \A j \in 0 .. n : Below1(n, j)
    BY <2>1
  <2>3. QED
    BY <2>2 DEF Below1
<1>2. PICK m \in T : \A l \in T : m <= l
  <2>1. T \subseteq Nat
    OBVIOUS
  <2>2. QED
    BY <1>1, <2>1, LeastNat
<1>3. PICK j \in 0 .. m : m \in 0 .. n /\ ~Below1(m, j)
  OBVIOUS
<1>4. j # m
  <2>1. UptoFine(cells, u, m)
    BY <1>3, UptoParts
  <2>2. Len(u[m]) \in Nat
    BY <2>1, ListedLen DEF UptoFine, Cells
  <2>3. QED
    BY <1>3, <2>2 DEF Below1
<1>5. PICK l \in 0 .. n : l = m - 1 /\ l \notin T /\ j \in 0 .. l
  <2>1. m - 1 \in 0 .. n /\ ~(m <= m - 1) /\ j \in 0 .. m - 1
    BY <1>3, <1>4
  <2>2. QED
    BY <1>2, <2>1
<1>6. Below1(l, j)
  BY <1>5
<1>7. UptoFine(cells, u, m) /\ UptoFine(cells, u, l) /\ UptoFine(cells, u, j)
  <2>1. m \in 0 .. n /\ l \in 0 .. n /\ j \in 0 .. n
    BY <1>3, <1>5
  <2>2. QED
    BY <2>1, UptoParts
<1>8. PICK a, b, c \in Nat : a = Len(u[j]) /\ b = Len(u[l]) /\ c = Len(u[m])
  BY <1>7, ListedLen DEF Cells, UptoFine
<1>9. m \in 1 .. n /\ m # 0
  BY <1>3, <1>5
<1>10. PICK d \in Nat : d = Len(cells[m])
  BY <1>9, ListedLen DEF Cells, AllCells
<1>11. c = b + d /\ \A i \in 1 .. b : u[m][i] = u[l][i]
  BY <1>5, <1>7, <1>8, <1>9, <1>10 DEF UptoFine
<1>12. a <= b /\ \A i \in 1 .. a : u[l][i] = u[j][i]
  BY <1>6, <1>8 DEF Below1
<1>13. \A i \in 1 .. a : u[m][i] = u[j][i]
  BY <1>11, <1>12
<1>14. QED
  BY <1>3, <1>8, <1>11, <1>12, <1>13 DEF Below1

LEMMA ForkOfLaid ==
  ASSUME NEW s, Listed(s), NEW plain
  PROVE  Cells(ForkOf(s, plain)) /\ Laid(ForkOf(s, plain), s)
<1> DEFINE n     == BlocksOf(Len(s))
           cells == [k \in 1 .. n |-> IF k \in plain THEN Plain(NthBlock(s, k - 1))
                                      ELSE Packed(NthBlock(s, k - 1))]
           u     == CHOOSE v : v = [k \in 0 .. n |-> IF k = 0 THEN <<>> ELSE v[k - 1] \o cells[k]]
           es    == [k \in 1 .. n |-> <<"entry", BlockArea(n) + Len(u[k - 1]), Len(cells[k])>>]
           h     == <<<<"head">>, <<"n", n>>>>
           e     == <<<<"end">>>>
           f     == h \o es \o u[n] \o e
<1>1. ForkOf(s, plain) = f
  BY Zenon DEF ForkOf
<1>2. n \in Nat
  BY ListedLen, BlocksBelow
<1>3. ASSUME NEW k \in 1 .. n
      PROVE  cells[k] \in Forms(NthBlock(s, k - 1)) /\ Cells(cells[k])
  <2> HIDE DEF n
  <2>1. PICK i \in Nat : i = k - 1 /\ i < n
    BY <1>2
  <2>2. PICK b : b = NthBlock(s, i) /\ Listed(b)
    BY <2>1, BlockPart DEF n
  <2>3. cells[k] = Packed(b) \/ cells[k] = Plain(b)
    BY <2>1, <2>2
  <2> HIDE DEF cells
  <2>4. QED
    BY <2>1, <2>2, <2>3, PackedCells, PlainCells DEF Forms
<1>4. AllCells(cells, n)
  <2> HIDE DEF cells, n
  <2>1. QED
    BY <1>3 DEF AllCells
<1>5. Uptos(cells, n, u)
  <2> HIDE DEF cells, n
  <2>1. \E v : Uptos(cells, n, v)
    BY <1>2, UptoExists
  <2>2. \E v : v = [k \in 0 .. n |-> IF k = 0 THEN <<>> ELSE v[k - 1] \o cells[k]]
    BY <2>1 DEF Uptos, UptoStep
  <2>3. u = [k \in 0 .. n |-> IF k = 0 THEN <<>> ELSE u[k - 1] \o cells[k]]
    BY <2>2
  <2>4. QED
    BY <2>3 DEF Uptos, UptoStep
<1> HIDE DEF cells, u, n
<1>6. \A k \in 0 .. n : UptoFine(cells, u, k)
  BY <1>2, <1>4, <1>5, UptoParts
<1>7. PICK last \in Nat : last = Len(u[n]) /\ Cells(u[n])
  <2>1. n \in 0 .. n
    BY <1>2
  <2>2. QED
    BY <1>6, <2>1, ListedLen DEF UptoFine, Cells
<1>8. ASSUME NEW k \in 1 .. n
      PROVE  \E a, c \in Nat :
               /\ a = Len(u[k - 1]) /\ c = Len(cells[k]) /\ a + c <= last
               /\ \A i \in 1 .. c : u[n][a + i] = cells[k][i]
  <2>1. k - 1 \in 0 .. n /\ k \in 0 .. n /\ k # 0
    BY <1>2
  <2>2. UptoFine(cells, u, k - 1) /\ UptoFine(cells, u, k)
    BY <1>6, <2>1
  <2>3. PICK a, c \in Nat : a = Len(u[k - 1]) /\ c = Len(cells[k])
    BY <1>3, <2>2, ListedLen DEF UptoFine, Cells
  <2>4. Len(u[k]) = a + c /\ \A i \in 1 .. c : u[k][a + i] = cells[k][i]
    BY <2>1, <2>2, <2>3 DEF UptoFine
  <2>5. Len(u[k]) <= last /\ \A i \in 1 .. Len(u[k]) : u[n][i] = u[k][i]
    BY <1>2, <1>4, <1>5, <1>7, <2>1, UptoGrows
  <2>6. \A i \in 1 .. c : a + i \in 1 .. a + c
    OBVIOUS
  <2>7. \A i \in 1 .. c : u[n][a + i] = cells[k][i]
    BY <2>4, <2>5, <2>6
  <2>8. QED
    BY <2>3, <2>4, <2>5, <2>7
<1>9. Listed(es) /\ Len(es) = n
  <2>1. DOMAIN es = 1 .. n /\ es = [k \in 1 .. n |-> es[k]]
    OBVIOUS
  <2> HIDE DEF es
  <2>2. QED
    BY <1>2, <2>1, ListedFunction
<1>10. \A k \in 1 .. n : es[k] = <<"entry", 2 + n + Len(u[k - 1]), Len(cells[k])>>
  BY DEF BlockArea
<1>11. Cells(es)
  <2>1. ASSUME NEW k \in 1 .. n PROVE Cell(es[k])
    <3>1. PICK a, c \in Nat : a = Len(u[k - 1]) /\ c = Len(cells[k])
      BY <1>8
    <3>2. PICK at \in Nat : at = 2 + n + a
      BY <1>2
    <3>3. es[k] = <<"entry", at, c>>
      BY <1>10, <3>1, <3>2
    <3>4. es[k][1] = "entry" /\ es[k][2] = at /\ es[k][3] = c
      BY <3>3
    <3>5. QED
      BY <3>2, <3>4 DEF Cell
  <2> HIDE DEF es
  <2>2. QED
    BY <1>9, <2>1 DEF Cells
<1>12. Cells(h) /\ Len(h) = 2 /\ h[2] = <<"n", n>>
  <2>1. h \in Seq({<<"head">>, <<"n", n>>}) /\ Len(h) = 2
    OBVIOUS
  <2>2. h[1] = <<"head">> /\ h[2] = <<"n", n>>
    OBVIOUS
  <2>3. h[1][1] = "head" /\ h[2][1] = "n" /\ h[2][2] = n
    BY <2>2
  <2> HIDE DEF h
  <2>4. Cell(h[1]) /\ Cell(h[2])
    BY <1>2, <2>3 DEF Cell
  <2>5. \A k \in 1 .. 2 : k = 1 \/ k = 2
    OBVIOUS
  <2>6. QED
    BY <2>1, <2>2, <2>4, <2>5 DEF Cells, Listed
<1>13. Cells(e) /\ Len(e) = 1
  <2>1. Listed(e) /\ Len(e) = 1 /\ e[1] = <<"end">>
    BY ListedOne
  <2>2. e[1][1] = "end"
    BY <2>1
  <2> HIDE DEF e
  <2>3. Cell(e[1])
    BY <2>2 DEF Cell
  <2>4. QED
    BY <2>1, <2>3 DEF Cells
<1> HIDE DEF es, h, e
<1>14. PICK p, q : p = h \o es /\ q = p \o u[n]
  OBVIOUS
<1>15. Chain(h, es, p) /\ Cells(p)
  BY <1>11, <1>12, <1>14, JoinCells
<1>16. Chain(p, u[n], q) /\ Cells(q)
  BY <1>7, <1>14, <1>15, JoinCells
<1>17. f = q \o e
  BY <1>14
<1> HIDE DEF f
<1>18. Chain(q, e, f) /\ Cells(f)
  BY <1>13, <1>16, <1>17, JoinCells
<1>19. PICK m \in Nat : m = 2 + n
  BY <1>2
<1>20. /\ Len(p) = m /\ p[2] = <<"n", n>>
       /\ \A k \in 1 .. n : p[2 + k] = es[k]
  <2>1. Len(p) = 2 + n /\ (\A i \in 1 .. 2 : p[i] = h[i]) /\ \A k \in 1 .. n : p[2 + k] = es[k]
    BY <1>9, <1>12, <1>15 DEF Chain
  <2>2. 2 \in 1 .. 2
    OBVIOUS
  <2>3. QED
    BY <1>12, <1>19, <2>1, <2>2
<1>21. /\ Len(q) = m + last /\ \A i \in 1 .. m : q[i] = p[i]
       /\ \A i \in 1 .. last : q[m + i] = u[n][i]
  BY <1>7, <1>16, <1>20 DEF Chain
<1>22. Len(f) = m + last + 1 /\ \A i \in 1 .. m + last : f[i] = q[i]
  BY <1>13, <1>18, <1>21 DEF Chain
<1>23. f[2] = <<"n", n>>
  <2>1. 2 \in 1 .. m /\ 2 \in 1 .. m + last
    BY <1>2, <1>19
  <2>2. QED
    BY <1>20, <1>21, <1>22, <2>1
<1>24. ASSUME NEW k \in 1 .. n PROVE LaidBlock(f, s, k)
  <2>1. PICK a, c \in Nat :
          /\ a = Len(u[k - 1]) /\ c = Len(cells[k]) /\ a + c <= last
          /\ \A i \in 1 .. c : u[n][a + i] = cells[k][i]
    BY <1>8
  <2>2. PICK at \in Nat : at = m + a
    OBVIOUS
  <2>3. 2 + k \in 1 .. m /\ 2 + k \in 1 .. m + last /\ 2 + k = k + 2
    BY <1>2, <1>19
  <2>4. f[k + 2] = es[k]
    BY <1>20, <1>21, <1>22, <2>3
  <2>5. f[k + 2] = <<"entry", at, c>>
    BY <1>10, <1>19, <2>1, <2>2, <2>4
  <2>6. at + c <= Len(f)
    <3>1. a + c <= last /\ a \in Nat /\ c \in Nat
      BY <2>1
    <3>2. m \in Nat /\ last \in Nat
      BY <1>7, <1>19
    <3>3. m + a + c <= m + last + 1
      BY <3>1, <3>2
    <3>4. at + c <= m + last + 1
      BY <2>2, <3>3
    <3>5. QED
      BY <1>22, <3>4
  <2>7. ASSUME NEW i \in 1 .. c PROVE f[at + i] = cells[k][i]
    <3>1. PICK j \in 1 .. last : j = a + i
      <4>1. a + c <= last /\ a \in Nat /\ c \in Nat
        BY <2>1
      <4>2. a + i \in 1 .. last
        BY <1>7, <4>1
      <4>3. QED
        BY <4>2
    <3>2. at + i = m + j /\ m + j \in 1 .. m + last
      BY <2>2, <3>1
    <3>3. f[m + j] = q[m + j] /\ q[m + j] = u[n][j]
      BY <1>21, <1>22, <3>2
    <3>4. u[n][j] = cells[k][i]
      BY <2>1, <3>1
    <3>5. QED
      BY <3>2, <3>3, <3>4
  <2>8. PICK t : t = cells[k] /\ Listed(t) /\ Len(t) = c
    BY <1>3, <2>1 DEF Cells
  <2>9. Listed(f)
    BY <1>18 DEF Cells
  <2>10. Slice(f, at, at + c) = t
    BY <2>6, <2>7, <2>8, <2>9, SliceIs
  <2>11. QED
    BY <1>3, <2>5, <2>6, <2>8, <2>10 DEF LaidBlock
<1>25. Laid(f, s)
  <2>1. Len(f) >= 2 + n /\ Listed(f)
    BY <1>2, <1>18, <1>19, <1>22 DEF Cells
  <2>2. QED
    BY <1>23, <1>24, <2>1 DEF Laid, n
<1>26. QED
  BY <1>1, <1>18, <1>25

-----------------------------------------------------------------------------
(* The initial states.                                                     *)

LEMMA FileListed ==
  ASSUME NEW s \in Files \cup Data
  PROVE  Listed(s) /\ Len(s) \in Nat \ {0} /\ (s \in Files => Len(s) <= MaxSize)
<1>1. s \in Seq(Byte) /\ s # <<>>
  BY BlockAssumption, ContentAssumption
<1>2. Listed(s)
  BY <1>1 DEF Listed
<1>3. Len(s) \in Nat /\ Len(s) # 0
  BY <1>1, <1>2, ListedLen, ListedEmpty
<1>4. QED
  BY <1>2, <1>3, ContentAssumption

LEMMA CellsNone == Cells(<<>>)
<1>1. Listed(<<>>) /\ Len(<<>>) = 0
  BY ListedNone
<1>2. \A k \in 1 .. 0 : FALSE
  OBVIOUS
<1>3. QED
  BY <1>1, <1>2 DEF Cells

LEMMA NoHandleShape == HandleShape(NoHandle)
<1>1. PICK h : h = NoHandle
  OBVIOUS
<1>2. /\ h.size = 0 /\ h.room = 0 /\ h.blocks = <<>> /\ h.cached = <<>>
      /\ h.start = 0 /\ h.end = 0 /\ h.dirty = FALSE
  BY <1>1 DEF NoHandle
<1>3. h = [size |-> h.size, room |-> h.room, blocks |-> h.blocks, cached |-> h.cached,
           start |-> h.start, end |-> h.end, dirty |-> h.dirty]
  BY <1>1, <1>2 DEF NoHandle
<1>4. Listed(<<>>) /\ Len(<<>>) = 0
  BY ListedNone
<1>5. h.size \in 0 .. MaxSize /\ h.start \in Nat
  BY <1>2, BlockAssumption
<1>6. Listed(h.cached) /\ h.end = h.start + Len(h.cached)
  BY <1>2, <1>4
<1>7. Places(h.blocks)
  BY <1>2, <1>4 DEF Places
<1>8. HandleShape(h)
  BY <1>2, <1>3, <1>5, <1>6, <1>7 DEF HandleShape
<1>9. QED
  BY <1>1, <1>8

LEMMA NoCallFacts ==
  /\ CallShape(NoCall)
  /\ NoCall.op = "done" /\ NoCall.at = 0 /\ NoCall.want = 0
  /\ NoCall.got = <<>> /\ NoCall.data = <<>>
<1>1. PICK c : c = NoCall
  OBVIOUS
<1>2. c.op = "done" /\ c.at = 0 /\ c.want = 0 /\ c.got = <<>> /\ c.data = <<>>
  BY <1>1 DEF NoCall
<1>3. c = [op |-> c.op, at |-> c.at, want |-> c.want, got |-> c.got, data |-> c.data]
  BY <1>1, <1>2 DEF NoCall
<1>4. Listed(<<>>) /\ Len(<<>>) = 0
  BY ListedNone
<1>5. CallShape(c)
  BY <1>2, <1>3, <1>4 DEF CallShape
<1>6. QED
  BY <1>1, <1>2, <1>5

LEMMA NoSaving ==
  NotSaving.phase = "none" /\ NotSaving.table = <<>> /\ NotSaving.place = 0
  BY DEF NotSaving

LEMMA FileInitially ==
  ASSUME Init
  PROVE  FileInv
<1>1. /\ handle = NoHandle /\ call = NoCall /\ saving = NotSaving
      /\ status = "closed" /\ saved = Contents /\ stop = "never"
  BY DEF Init
<1>2. \E c : AttrInv /\ Cells(fork) /\ Regular(attr, fork, c)
  <2>1. CASE attr \in {NoAttribute, NoTree} /\ fork = <<>>
    <3>1. attr.kind \in NoKind /\ attr.size = 0
      BY <2>1 DEF NoAttribute, NoTree, NoKind
    <3>2. AttrInv
      BY <3>1 DEF AttrInv, NoKind
    <3>3. Regular(attr, fork, <<>>)
      BY <3>1, ListedNone DEF Regular, NoKind
    <3>4. QED
      BY <2>1, <3>2, <3>3, CellsNone
  <2>2. ASSUME NEW s \in Files, NEW cells \in {Packed(s), Plain(s)},
               attr = [kind |-> "inline", size |-> Len(s), data |-> cells], fork = <<>>
        PROVE  AttrInv /\ Cells(fork) /\ Regular(attr, fork, s)
    <3>1. attr.kind = "inline" /\ attr.size = Len(s) /\ attr.data = cells
      BY <2>2
    <3>2. Listed(s) /\ Len(s) \in Nat \ {0} /\ Len(s) <= MaxSize
      BY FileListed
    <3>3. cells \in Forms(s)
      BY DEF Forms
    <3>4. Unpacked(cells) = s
      BY <3>2, <3>3, FormsBack
    <3>5. AttrInv
      BY <3>1, <3>2, <3>4 DEF AttrInv, NoKind
    <3>6. Regular(attr, fork, s)
      BY <3>1, <3>2, <3>3 DEF Regular
    <3>7. QED
      BY <2>2, <3>5, <3>6, CellsNone
  <2>3. ASSUME NEW s \in Files, NEW plain \in SUBSET {1},
               attr = [kind |-> "fork", size |-> Len(s), data |-> <<>>],
               fork = ForkOf(s, plain)
        PROVE  AttrInv /\ Cells(fork) /\ Regular(attr, fork, s)
    <3>1. attr.kind = "fork" /\ attr.size = Len(s)
      BY <2>3
    <3>2. Listed(s) /\ Len(s) \in Nat \ {0} /\ Len(s) <= MaxSize
      BY FileListed
    <3>3. AttrInv
      BY <3>1, <3>2, BlockAssumption DEF AttrInv, NoKind
    <3>4. Cells(fork) /\ Laid(fork, s)
      BY <2>3, <3>2, ForkOfLaid
    <3>5. Regular(attr, fork, s)
      BY <3>1, <3>2, <3>4 DEF Regular
    <3>6. QED
      BY <3>3, <3>4, <3>5
  <2>4. QED
    BY <2>1, <2>2, <2>3 DEF Init
<1>3. PICK c : AttrInv /\ Cells(fork) /\ Regular(attr, fork, c)
  BY <1>2
<1>4. saved = c
  BY <1>1, <1>3, ContentsHeld, RegularHeld DEF AttrInv
<1>5. Kept /\ Bounded /\ Statuses
  BY <1>1, <1>3, <1>4 DEF Kept, Bounded, Statuses, Was
<1>6. HandleInv /\ InMemory
  BY <1>1, NoHandleShape DEF HandleInv, InMemory, Was
<1>7. CallInv /\ GotPart
  BY <1>1, NoCallFacts DEF CallInv, GotPart, Was
<1>8. SaveInv
  BY <1>1, NoSaving DEF SaveInv, NotSaving
<1>9. QED
  BY <1>3, <1>5, <1>6, <1>7, <1>8 DEF FileInv

-----------------------------------------------------------------------------
(* Steps: what they share.                                                 *)

(* A handle of a file that was not changed.                                *)
CleanIs(h, a, r, b, c, s) ==
  h = [size |-> a, room |-> r, blocks |-> b, cached |-> c, start |-> s,
       end |-> s + Len(c), dirty |-> FALSE]

LEMMA CleanFields ==
  ASSUME NEW h, NEW a, NEW r, NEW b, NEW c, NEW s, CleanIs(h, a, r, b, c, s)
  PROVE  /\ h.size = a /\ h.room = r /\ h.blocks = b /\ h.cached = c
         /\ h.start = s /\ h.end = s + Len(c) /\ ~h.dirty
  BY DEF CleanIs

LEMMA CleanMake ==
  ASSUME NEW h, NEW a \in 0 .. MaxSize, NEW r, NEW b, Places(b), NEW c, Listed(c),
         NEW s \in Nat, CleanIs(h, a, r, b, c, s)
  PROVE  HandleShape(h)
<1>1. /\ h.size = a /\ h.room = r /\ h.blocks = b /\ h.cached = c
      /\ h.start = s /\ h.end = s + Len(c) /\ ~h.dirty
  BY CleanFields
<1>2. h = [size |-> h.size, room |-> h.room, blocks |-> h.blocks, cached |-> h.cached,
           start |-> h.start, end |-> h.end, dirty |-> h.dirty]
  BY <1>1 DEF CleanIs
<1>3. h.size \in 0 .. MaxSize /\ h.start \in Nat
  BY <1>1
<1>4. Listed(h.cached) /\ h.end = h.start + Len(h.cached) /\ Places(h.blocks)
  BY <1>1
<1>5. h.dirty => h.start = 0 /\ h.end = h.size /\ h.size # 0
  BY <1>1, Zenon
<1>6. QED
  BY <1>2, <1>3, <1>4, <1>5, Zenon DEF HandleShape

LEMMA AttrBounds ==
  ASSUME AttrInv
  PROVE  attr.size \in 0 .. MaxSize
  BY BlockAssumption DEF AttrInv

LEMMA PieceNone ==
  ASSUME NEW c, NEW at
  PROVE  PieceOf(<<>>, c, at)
<1>1. Len(<<>>) = 0
  BY ListedNone
<1>2. QED
  BY <1>1 DEF PieceOf

LEMMA PieceAll ==
  ASSUME NEW c, Listed(c)
  PROVE  PieceOf(c, c, 0)
<1>1. PICK l \in Nat : l = Len(c)
  BY ListedLen
<1>2. \A k \in 1 .. l : 0 + k = k
  OBVIOUS
<1>3. QED
  BY <1>1, <1>2 DEF PieceOf

LEMMA CallOver ==
  ASSUME call' = NoCall
  PROVE  CallInv' /\ GotPart'
<1>1. CallShape(call') /\ call'.op = "done"
  BY NoCallFacts
<1>2. QED
  BY <1>1 DEF CallInv, GotPart, Was

LEMMA NoneSaving ==
  ASSUME saving' = NotSaving, status' # "saving"
  PROVE  SaveInv'
<1>1. saving'.phase = "none" /\ saving' = NotSaving
  BY NoSaving
<1>2. saving' = [phase |-> saving'.phase, table |-> saving'.table, place |-> saving'.place]
  BY <1>1 DEF NotSaving
<1>3. QED
  BY <1>1, <1>2 DEF SaveInv

LEMMA NotOverwriting ==
  ASSUME FileInv, status \notin {"saving", "wild"}
  PROVE  saving = NotSaving /\ (stop # "torn" => Regular(attr, fork, Was))
<1>1. saving = NotSaving
  BY DEF FileInv, SaveInv
<1>2. ~Overwriting
  BY <1>1, NoSaving DEF Overwriting
<1>3. QED
  BY <1>1, <1>2 DEF FileInv, Kept, Was

(* The file on disk is not touched.                                        *)
LEMMA DiskStays ==
  ASSUME FileInv, attr' = attr, fork' = fork
  PROVE  AttrInv' /\ Cells(fork')
  BY DEF FileInv, AttrInv

-----------------------------------------------------------------------------
(* Open.                                                                   *)

(* What is said of a file that was opened.                                 *)
LEMMA OpenedInv ==
  ASSUME FileInv, status = "closed", status' = "open", call' = NoCall,
         UNCHANGED <<attr, fork, saving, writes, saved, stop>>,
         NEW r, r = (IF attr.kind \in NoKind THEN InlineRoom ELSE Len(attr.data)),
         NEW b, Places(b),
         NEW c, Listed(c), Len(c) <= attr.size,
         attr.kind # "fork" => Len(c) = attr.size,
         stop # "torn" => PieceOf(c, Was, 0) /\ (attr.kind = "fork" => b = Table(fork)),
         CleanIs(handle', attr.size, r, b, c, 0)
  PROVE  FileInv'
<1>1. AttrInv' /\ Cells(fork')
  BY DiskStays
<1>2. saving = NotSaving /\ (stop # "torn" => Regular(attr, fork, Was))
  BY NotOverwriting
<1>3. /\ HandleShape(handle')
      /\ handle'.size = attr.size /\ handle'.room = r /\ handle'.blocks = b
      /\ handle'.cached = c /\ handle'.start = 0 /\ handle'.end = Len(c)
      /\ ~handle'.dirty
  <2>1. PICK l \in Nat : l = Len(c)
    BY ListedLen
  <2>2. attr.size \in 0 .. MaxSize
    BY AttrBounds DEF FileInv
  <2>3. PICK h : h = handle'
    OBVIOUS
  <2>4. HandleShape(h)
    BY <2>2, <2>3, CleanMake
  <2>5. 0 + Len(c) = Len(c)
    BY <2>1
  <2>6. CleanIs(h, attr.size, r, b, c, 0)
    BY <2>3
  <2>7. /\ h.size = attr.size /\ h.room = r /\ h.blocks = b /\ h.cached = c
        /\ h.start = 0 /\ h.end = 0 + Len(c) /\ ~h.dirty
    BY <2>6, CleanFields
  <2>8. QED
    BY <2>3, <2>4, <2>5, <2>7
<1>4. HandleInv'
  <2>1. attr.kind # "fork" => Whole'
    BY <1>3 DEF Whole
  <2>2. QED
    BY <1>3, <2>1 DEF HandleInv
<1>5. CallInv' /\ GotPart'
  BY CallOver
<1>6. SaveInv'
  BY <1>2, NoneSaving
<1>7. Kept'
  BY <1>2 DEF Kept, Was
<1>8. InMemory'
  <2> SUFFICES ASSUME stop # "torn"
               PROVE  /\ Listed(Was) /\ attr.size = Len(Was) /\ Len(c) <= attr.size
                      /\ PieceOf(c, Was, 0)
                      /\ attr.kind = "fork" => b = Table(fork)
    BY <1>3 DEF InMemory, LiveNow, Was
  <2> QED BY <1>2 DEF Regular
<1>9. Bounded' /\ Statuses'
  BY DEF FileInv, Bounded, Statuses
<1>10. QED
  BY <1>1, <1>4, <1>5, <1>6, <1>7, <1>8, <1>9 DEF FileInv

LEMMA OpenWorks ==
  ASSUME FileInv, Open
  PROVE  FileInv'
<1>1. /\ status = "closed" /\ call' = NoCall
      /\ UNCHANGED <<attr, fork, saving, writes, saved, stop>>
  BY DEF Open
<1>2. AttrInv /\ Cells(fork)
  BY DEF FileInv
<1>3. saving = NotSaving /\ (stop # "torn" => Regular(attr, fork, Was))
  BY <1>1, NotOverwriting
<1>4. PICK v : v = FALSE
  OBVIOUS
<1>5. Listed(<<>>) /\ Len(<<>>) = 0 /\ Places(<<>>)
  BY ListedNone DEF Places
<1>6. CASE attr.kind \in NoKind
  <2>1. handle' = [Opened EXCEPT !.room = InlineRoom] /\ status' = "open"
    BY <1>6 DEF Open, NoKind
  <2>2. attr.size = 0
    BY <1>2, <1>6 DEF AttrInv
  <2>3. PieceOf(<<>>, Was, 0)
    BY PieceNone
  <2>4. PICK c : c = <<>>
    OBVIOUS
  <2>5. Listed(c) /\ Len(c) = attr.size /\ Places(c) /\ Len(c) <= attr.size
    BY <1>5, <2>2, <2>4
  <2>6. CleanIs(handle', attr.size, InlineRoom, c, c, 0)
    <3>1. handle' = [[NoHandle EXCEPT !.size = attr.size, !.room = Len(attr.data)]
                       EXCEPT !.room = InlineRoom]
      BY <2>1 DEF Opened
    <3>2. NoHandle = [size |-> 0, room |-> 0, blocks |-> c, cached |-> c, start |-> 0,
                      end |-> 0, dirty |-> v]
      BY <1>4, <2>4 DEF NoHandle
    <3>3. PICK n : n = NoHandle
      OBVIOUS
    <3>4. PICK x, y, z : x = attr.size /\ y = Len(attr.data) /\ z = InlineRoom
      OBVIOUS
    <3>5. PICK m : m = [n EXCEPT !.size = x, !.room = y]
      OBVIOUS
    <3>6. m = [size |-> x, room |-> y, blocks |-> c, cached |-> c, start |-> 0,
               end |-> 0, dirty |-> v]
      BY <3>2, <3>3, <3>5
    <3>7. PICK o : o = [m EXCEPT !.room = z]
      OBVIOUS
    <3>8. o = [size |-> x, room |-> z, blocks |-> c, cached |-> c, start |-> 0,
               end |-> 0, dirty |-> v]
      BY <3>6, <3>7
    <3>9. 0 + Len(c) = 0
      BY <1>5, <2>4
    <3>10. handle' = o
      BY <3>1, <3>3, <3>4, <3>5, <3>7
    <3>11. QED
      BY <1>4, <3>4, <3>8, <3>9, <3>10 DEF CleanIs
  <2>7. QED
    BY <1>1, <1>6, <2>1, <2>3, <2>4, <2>5, <2>6, OpenedInv DEF NoKind
<1>7. CASE attr.kind = "inline"
  <2>1. PICK c : c = Unpacked(attr.data)
    OBVIOUS
  <2>2. /\ handle' = [Opened EXCEPT !.cached = c, !.end = Len(c)]
        /\ status' = "open"
    BY <1>7, <2>1 DEF Open
  <2>3. Listed(c) /\ Len(c) = attr.size
    BY <1>2, <1>7, <2>1 DEF AttrInv
  <2>4. PICK r : r = Len(attr.data)
    OBVIOUS
  <2>5. PICK b : b = <<>> /\ Places(b)
    BY <1>5
  <2>6. stop # "torn" => PieceOf(c, Was, 0)
    <3> SUFFICES ASSUME stop # "torn" PROVE PieceOf(c, Was, 0)
      OBVIOUS
    <3>1. Listed(Was) /\ attr.data \in Forms(Was)
      BY <1>3, <1>7 DEF Regular
    <3>2. c = Was
      BY <2>1, <3>1, FormsBack
    <3>3. QED
      BY <3>1, <3>2, PieceAll
  <2>7. Len(c) <= attr.size
    BY <1>2, <2>3, AttrBounds
  <2>8. CleanIs(handle', attr.size, r, b, c, 0)
    <3>1. handle' = [[NoHandle EXCEPT !.size = attr.size, !.room = r]
                       EXCEPT !.cached = c, !.end = Len(c)]
      BY <2>2, <2>4 DEF Opened
    <3>2. NoHandle = [size |-> 0, room |-> 0, blocks |-> b, cached |-> b, start |-> 0,
                      end |-> 0, dirty |-> v]
      BY <1>4, <2>5 DEF NoHandle
    <3>3. PICK n : n = NoHandle
      OBVIOUS
    <3>4. PICK x, y \in Nat : x = attr.size /\ y = Len(c) /\ 0 + y = y
      BY <1>2, <2>3, ListedLen
    <3>5. PICK m : m = [n EXCEPT !.size = x, !.room = r]
      OBVIOUS
    <3>6. m = [size |-> x, room |-> r, blocks |-> b, cached |-> b, start |-> 0,
               end |-> 0, dirty |-> v]
      BY <3>2, <3>3, <3>5
    <3>7. PICK o : o = [m EXCEPT !.cached = c, !.end = y]
      OBVIOUS
    <3>8. o = [size |-> x, room |-> r, blocks |-> b, cached |-> c, start |-> 0,
               end |-> y, dirty |-> v]
      BY <3>6, <3>7
    <3>9. handle' = o
      BY <3>1, <3>3, <3>4, <3>5, <3>7
    <3>10. QED
      BY <1>4, <3>4, <3>8, <3>9 DEF CleanIs
  <2>9. QED
    BY <1>1, <1>7, <2>2, <2>3, <2>4, <2>5, <2>6, <2>7, <2>8, OpenedInv DEF NoKind
<1>8. CASE attr.kind = "fork" /\ IsTable(fork)
  <2>1. PICK b : b = Table(fork)
    OBVIOUS
  <2>2. handle' = [Opened EXCEPT !.blocks = b] /\ status' = "open"
    BY <1>8, <2>1 DEF Open
  <2>3. PICK r : r = Len(attr.data)
    OBVIOUS
  <2>4. PICK c : c = <<>>
    OBVIOUS
  <2>5. Places(b)
    BY <1>2, <1>8, <2>1, TablePlaces
  <2>6. PieceOf(c, Was, 0) /\ Listed(c) /\ Len(c) <= attr.size
    BY <1>2, <1>5, <2>4, AttrBounds, PieceNone
  <2>7. CleanIs(handle', attr.size, r, b, c, 0)
    <3>1. handle' = [[NoHandle EXCEPT !.size = attr.size, !.room = r] EXCEPT !.blocks = b]
      BY <2>2, <2>3 DEF Opened
    <3>2. NoHandle = [size |-> 0, room |-> 0, blocks |-> c, cached |-> c, start |-> 0,
                      end |-> 0, dirty |-> v]
      BY <1>4, <2>4 DEF NoHandle
    <3>3. PICK n : n = NoHandle
      OBVIOUS
    <3>4. PICK x : x = attr.size
      OBVIOUS
    <3>5. PICK m : m = [n EXCEPT !.size = x, !.room = r]
      OBVIOUS
    <3>6. m = [size |-> x, room |-> r, blocks |-> c, cached |-> c, start |-> 0,
               end |-> 0, dirty |-> v]
      BY <3>2, <3>3, <3>5
    <3>7. PICK o : o = [m EXCEPT !.blocks = b]
      OBVIOUS
    <3>8. o = [size |-> x, room |-> r, blocks |-> b, cached |-> c, start |-> 0,
               end |-> 0, dirty |-> v]
      BY <3>6, <3>7
    <3>9. 0 + Len(c) = 0
      BY <1>5, <2>4
    <3>10. handle' = o
      BY <3>1, <3>3, <3>4, <3>5, <3>7
    <3>11. QED
      BY <1>4, <3>4, <3>8, <3>9, <3>10 DEF CleanIs
  <2>8. QED
    BY <1>1, <1>8, <2>1, <2>2, <2>3, <2>5, <2>6, <2>7, OpenedInv DEF NoKind
<1>9. CASE attr.kind = "fork" /\ ~IsTable(fork)
  <2>1. status' = "wild" /\ handle' = handle
    BY <1>9 DEF Open
  <2>2. stop = "torn"
    <3>1. Regular(attr, fork, Was) => IsTable(fork)
      BY <1>9, LaidTable DEF Regular
    <3>2. QED
      BY <1>3, <1>9, <3>1
  <2>3. handle' = NoHandle /\ HandleInv'
    BY <1>1, <2>1, NoHandleShape DEF FileInv, HandleInv
  <2>4. AttrInv' /\ Cells(fork') /\ CallInv' /\ GotPart' /\ SaveInv'
    BY <1>1, <1>3, <2>1, DiskStays, CallOver, NoneSaving
  <2>5. (Kept /\ InMemory /\ Bounded /\ Statuses)'
    BY <1>1, <2>1, <2>2 DEF Kept, InMemory, Bounded, Statuses, Was
  <2>6. QED
    BY <2>3, <2>4, <2>5 DEF FileInv
<1>10. QED
  BY <1>2, <1>6, <1>7, <1>8, <1>9 DEF AttrInv, NoKind

-----------------------------------------------------------------------------
(* Calls that begin, the end of the program, and closing.                  *)

(* Everything but the call stays.                                          *)
LEMMA AllButCall ==
  ASSUME FileInv, UNCHANGED <<attr, fork, handle, saving, status, saved, stop>>
  PROVE  (/\ Statuses /\ AttrInv /\ Cells(fork) /\ HandleInv /\ SaveInv /\ Kept
          /\ InMemory /\ Bounded)'
<1>1. /\ attr' = attr /\ fork' = fork /\ handle' = handle /\ saving' = saving
      /\ status' = status /\ saved' = saved /\ stop' = stop
  OBVIOUS
<1>2. Statuses /\ AttrInv /\ Cells(fork) /\ HandleInv /\ SaveInv /\ Kept /\ InMemory /\ Bounded
  BY DEF FileInv
<1>3. Statuses' /\ AttrInv' /\ Cells(fork')
  BY <1>1, <1>2 DEF Statuses, AttrInv
<1>4. HandleInv'
  BY <1>1, <1>2 DEF HandleInv, Whole
<1>5. SaveInv'
  BY <1>1, <1>2 DEF SaveInv, Fits, BlockNow
<1>6. Kept' /\ Bounded'
  BY <1>1, <1>2 DEF Kept, Overwriting, Bounded, Was
<1>7. InMemory'
  BY <1>1, <1>2 DEF InMemory, LiveNow, Was
<1>8. QED
  BY <1>3, <1>4, <1>5, <1>6, <1>7

LEMMA StutterWorks ==
  ASSUME FileInv, UNCHANGED vars
  PROVE  FileInv'
<1>1. /\ attr' = attr /\ fork' = fork /\ handle' = handle /\ saving' = saving /\ call' = call
      /\ status' = status /\ saved' = saved /\ stop' = stop
  BY DEF vars
<1>2. CallInv' /\ GotPart'
  BY <1>1 DEF FileInv, CallInv, GotPart, LiveNow, Whole, Was
<1>3. QED
  BY <1>1, <1>2, AllButCall DEF FileInv

LEMMA ReadWorks ==
  ASSUME FileInv, NEW at \in 0 .. MaxSize, NEW n \in 1 .. MaxSize, Read(at, n)
  PROVE  FileInv'
<1>1. /\ status = "open" /\ at + n <= handle.size
      /\ call' = [NoCall EXCEPT !.op = "read", !.at = at, !.want = n]
      /\ UNCHANGED <<attr, fork, handle, saving, status, saved, stop>>
  BY DEF Read, Quiet, Calls
<1>2. PICK c : c = call'
  OBVIOUS
<1>3. /\ c = [op |-> "read", at |-> at, want |-> n, got |-> <<>>, data |-> <<>>]
      /\ c.op = "read" /\ c.at = at /\ c.want = n /\ c.got = <<>> /\ c.data = <<>>
  <2>1. PICK m : m = NoCall /\ m = [op |-> "done", at |-> 0, want |-> 0, got |-> <<>>,
                                    data |-> <<>>]
    BY DEF NoCall
  <2>2. c = [m EXCEPT !.op = "read", !.at = at, !.want = n]
    BY <1>1, <1>2, <2>1
  <2>3. PICK x : x = [m EXCEPT !.op = "read"]
    OBVIOUS
  <2>4. x = [op |-> "read", at |-> 0, want |-> 0, got |-> <<>>, data |-> <<>>]
    BY <2>1, <2>3
  <2>5. PICK y : y = [x EXCEPT !.at = at]
    OBVIOUS
  <2>6. y = [op |-> "read", at |-> at, want |-> 0, got |-> <<>>, data |-> <<>>]
    BY <2>4, <2>5
  <2>7. c = [y EXCEPT !.want = n]
    BY <2>2, <2>3, <2>5
  <2>8. c = [op |-> "read", at |-> at, want |-> n, got |-> <<>>, data |-> <<>>]
    BY <2>6, <2>7
  <2>9. QED
    BY <2>8
<1>4. Listed(<<>>) /\ Len(<<>>) = 0
  BY ListedNone
<1>5. CallShape(c)
  <2>1. c = [op |-> c.op, at |-> c.at, want |-> c.want, got |-> c.got, data |-> c.data]
    BY <1>3
  <2>2. c.at \in Nat /\ c.want \in Nat /\ Len(c.got) <= c.want
    BY <1>3, <1>4, BlockAssumption
  <2>3. QED
    BY <1>3, <1>4, <2>1, <2>2 DEF CallShape
<1>6. CallInv'
  BY <1>1, <1>2, <1>3, <1>5 DEF CallInv
<1>7. GotPart'
  BY <1>2, <1>3, PieceNone DEF GotPart, Was
<1>8. QED
  BY <1>1, <1>6, <1>7, AllButCall DEF FileInv

LEMMA WriteWorks ==
  ASSUME FileInv, NEW at \in 0 .. MaxSize, NEW s \in Data, Write(at, s)
  PROVE  FileInv'
<1>1. PICK o, w : /\ o = IF Whole THEN "change" ELSE "gather"
                  /\ w = IF Whole THEN 0 ELSE handle.size
  OBVIOUS
<1>2. /\ status = "open" /\ at + Len(s) <= MaxSize
      /\ call' = [NoCall EXCEPT !.op = o, !.at = at, !.data = s, !.want = w]
      /\ UNCHANGED <<attr, fork, handle, saving, status, saved, stop>>
  BY <1>1 DEF Write, Quiet, Calls
<1>3. PICK c : c = call'
  OBVIOUS
<1>4. /\ c = [op |-> o, at |-> at, want |-> w, got |-> <<>>, data |-> s]
      /\ c.op = o /\ c.at = at /\ c.want = w /\ c.got = <<>> /\ c.data = s
  <2>1. PICK m : m = NoCall /\ m = [op |-> "done", at |-> 0, want |-> 0, got |-> <<>>,
                                    data |-> <<>>]
    BY DEF NoCall
  <2>2. c = [m EXCEPT !.op = o, !.at = at, !.data = s, !.want = w]
    BY <1>2, <1>3, <2>1
  <2>3. PICK x : x = [m EXCEPT !.op = o]
    OBVIOUS
  <2>4. x = [op |-> o, at |-> 0, want |-> 0, got |-> <<>>, data |-> <<>>]
    BY <2>1, <2>3
  <2>5. PICK y : y = [x EXCEPT !.at = at]
    OBVIOUS
  <2>6. y = [op |-> o, at |-> at, want |-> 0, got |-> <<>>, data |-> <<>>]
    BY <2>4, <2>5
  <2>7. PICK z : z = [y EXCEPT !.data = s]
    OBVIOUS
  <2>8. z = [op |-> o, at |-> at, want |-> 0, got |-> <<>>, data |-> s]
    BY <2>6, <2>7
  <2>9. c = [z EXCEPT !.want = w]
    BY <2>2, <2>3, <2>5, <2>7
  <2>10. c = [op |-> o, at |-> at, want |-> w, got |-> <<>>, data |-> s]
    BY <2>8, <2>9
  <2>11. QED
    BY <2>10
<1>5. Listed(<<>>) /\ Len(<<>>) = 0
  BY ListedNone
<1>6. HandleShape(handle) /\ HandleInv /\ AttrInv
  BY DEF FileInv, HandleInv
<1>7. handle.size \in Nat
  BY <1>6, BlockAssumption DEF HandleShape
<1>8. CallShape(c)
  <2>1. c = [op |-> c.op, at |-> c.at, want |-> c.want, got |-> c.got, data |-> c.data]
    BY <1>4
  <2>2. c.at \in Nat /\ c.want \in Nat /\ Len(c.got) <= c.want
    BY <1>1, <1>4, <1>5, <1>7, BlockAssumption
  <2>3. QED
    BY <1>1, <1>4, <1>5, <2>1, <2>2 DEF CallShape
<1>9. ~Whole => ~handle.dirty /\ handle.size # 0
  <2>1. handle.dirty => Whole
    BY <1>6 DEF HandleShape, Whole
  <2>2. ~handle.dirty /\ attr.kind \in NoKind => Whole
    BY <1>2, <1>6 DEF HandleInv, NoKind
  <2>3. ~handle.dirty => handle.size = attr.size
    BY <1>2, <1>6 DEF HandleInv
  <2>4. attr.kind \notin NoKind => attr.size # 0
    BY <1>6 DEF AttrInv
  <2>5. QED
    BY <2>1, <2>2, <2>3, <2>4
<1>10. CallInv'
  <2>1. Whole' = Whole
    BY <1>2 DEF Whole
  <2>2. CASE Whole
    <3>1. c.op = "change" /\ c.want = 0 /\ Len(c.got) = c.want
      BY <1>1, <1>4, <1>5, <2>2
    <3>2. QED
      BY <1>2, <1>3, <1>4, <1>8, <2>1, <2>2, <3>1 DEF CallInv
  <2>3. CASE ~Whole
    <3>1. c.op = "gather" /\ c.want = handle.size
      BY <1>1, <1>4, <2>3
    <3>2. QED
      BY <1>2, <1>3, <1>4, <1>8, <1>9, <2>3, <3>1 DEF CallInv
  <2>4. QED
    BY <2>2, <2>3
<1>11. GotPart'
  BY <1>3, <1>4, PieceNone DEF GotPart, Was
<1>12. QED
  BY <1>2, <1>10, <1>11, AllButCall DEF FileInv

LEMMA CloseWorks ==
  ASSUME FileInv, Close
  PROVE  FileInv'
<1>1. /\ status = "open" /\ call' = NoCall
      /\ UNCHANGED <<attr, fork, writes, saved, stop>>
  BY DEF Close, Quiet
<1>2. CallInv' /\ GotPart'
  BY <1>1, CallOver
<1>3. AttrInv' /\ Cells(fork')
  BY <1>1, DiskStays
<1>4. saving = NotSaving /\ (stop # "torn" => Regular(attr, fork, Was))
  BY <1>1, NotOverwriting
<1>5. HandleShape(handle) /\ HandleInv /\ InMemory /\ Statuses
  BY DEF FileInv, HandleInv
<1>6. CASE handle.dirty
  <2>1. PICK n : n = BlocksOf(handle.size)
    OBVIOUS
  <2>2. /\ status' = "saving" /\ handle' = handle
        /\ saving' = [phase |-> "blocks", table |-> <<>>, place |-> BlockArea(n)]
    BY <1>6, <2>1 DEF Close
  <2>3. PICK s : s = saving'
    OBVIOUS
  <2>4. /\ s.phase = "blocks" /\ s.table = <<>> /\ s.place = BlockArea(n)
        /\ s = [phase |-> s.phase, table |-> s.table, place |-> s.place]
    BY <2>2, <2>3
  <2>5. n \in Nat
    BY <1>5, <2>1, BlocksBelow, BlockAssumption DEF HandleShape
  <2>6. Listed(<<>>) /\ Len(<<>>) = 0
    BY ListedNone
  <2>7. BlockArea(n) \in Nat /\ BlockArea(n) <= BlockArea(n)
    BY <2>5 DEF BlockArea
  <2>8. Written(fork, s, n, handle.cached)
    BY <2>4, <2>5, <2>6, <2>7 DEF Written
  <2>9. SaveInv'
    BY <1>1, <1>6, <2>1, <2>2, <2>3, <2>4, <2>8 DEF SaveInv
  <2>10. HandleInv'
    BY <1>1, <1>5, <1>6, <2>2 DEF HandleInv
  <2>11. Kept'
    BY <1>1, <1>4 DEF Kept, Was
  <2>12. InMemory'
    BY <1>1, <1>5, <2>2 DEF InMemory, LiveNow, Was
  <2>13. Bounded' /\ Statuses'
    BY <1>1, <1>5, <2>2 DEF Bounded, Statuses
  <2>14. QED
    BY <1>2, <1>3, <2>9, <2>10, <2>11, <2>12, <2>13 DEF FileInv
<1>7. CASE ~handle.dirty
  <2>1. status' = "closed" /\ handle' = NoHandle /\ saving' = NotSaving
    BY <1>4, <1>7 DEF Close
  <2>2. HandleInv' /\ SaveInv'
    BY <2>1, NoHandleShape, NoneSaving DEF HandleInv
  <2>3. Kept'
    BY <1>1, <1>4 DEF Kept, Was
  <2>4. (InMemory /\ Bounded /\ Statuses)'
    BY <1>1, <1>5, <2>1 DEF InMemory, Bounded, Statuses, Was
  <2>5. QED
    BY <1>2, <1>3, <2>2, <2>3, <2>4 DEF FileInv
<1>8. QED
  BY <1>6, <1>7

LEMMA StopWorks ==
  ASSUME FileInv, Stop
  PROVE  FileInv'
<1>1. /\ stop = "never" /\ handle' = NoHandle /\ call' = NoCall /\ saving' = NotSaving
      /\ status' = "closed" /\ attr' = attr /\ fork' = fork /\ saved' = saved
      /\ stop' = IF (saving.table # <<>> /\ attr.kind = "fork") \/ Between
                 THEN "torn" ELSE "harmless"
  BY DEF Stop
<1>2. CallInv' /\ GotPart' /\ AttrInv' /\ Cells(fork')
  BY <1>1, CallOver, DiskStays
<1>3. HandleInv' /\ SaveInv'
  BY <1>1, NoHandleShape, NoneSaving DEF HandleInv
<1>4. Was = saved /\ Was' = saved
  BY <1>1 DEF Was
<1>5. stop' # "torn" => Regular(attr, fork, saved)
  <2>1. CASE Overwriting
    <3>1. ASSUME stop' # "torn" PROVE attr.kind = "none" /\ saved = <<>>
      BY <1>1, <2>1, <3>1 DEF Overwriting, Between
    <3>2. attr.kind = "none" => attr.size = 0
      BY DEF FileInv, AttrInv, NoKind
    <3>3. attr.kind = "none" /\ saved = <<>> => Regular(attr, fork, saved)
      BY <3>2, ListedNone DEF Regular
    <3>4. QED
      BY <3>1, <3>3
  <2>2. CASE ~Overwriting
    BY <1>1, <1>4, <2>2 DEF FileInv, Kept
  <2>3. QED
    BY <2>1, <2>2
<1>6. Kept'
  BY <1>1, <1>4, <1>5 DEF Kept
<1>7. (InMemory /\ Bounded /\ Statuses)'
  BY <1>1 DEF InMemory, Bounded, Statuses
<1>8. QED
  BY <1>2, <1>3, <1>6, <1>7 DEF FileInv

-----------------------------------------------------------------------------
(* A turn of the loop of compressedRead.                                   *)

Base == IF call.op = "read" THEN call.at ELSE 0

CallIs(c, o, at, w, g, d) == c = [op |-> o, at |-> at, want |-> w, got |-> g, data |-> d]

LEMMA CallMake ==
  ASSUME NEW c, NEW o \in {"done", "read", "gather", "change"}, NEW at \in Nat, NEW w \in Nat,
         NEW g, Listed(g), Len(g) <= w, NEW d, CallIs(c, o, at, w, g, d)
  PROVE  /\ CallShape(c)
         /\ c.op = o /\ c.at = at /\ c.want = w /\ c.got = g /\ c.data = d
<1>1. c.op = o /\ c.at = at /\ c.want = w /\ c.got = g /\ c.data = d
  BY DEF CallIs
<1>2. c = [op |-> c.op, at |-> c.at, want |-> c.want, got |-> c.got, data |-> c.data]
  BY <1>1 DEF CallIs
<1>3. QED
  BY <1>1, <1>2 DEF CallShape

(* The numbers of a call that reads.                                       *)
LEMMA ReadingFacts ==
  ASSUME FileInv, status = "open", call.op \in {"read", "gather"}
  PROVE  /\ Base \in Nat /\ call.want \in Nat /\ Len(call.got) \in Nat
         /\ Len(call.got) <= call.want /\ Base + call.want <= handle.size
         /\ handle.start \in Nat /\ Len(handle.cached) \in Nat /\ handle.size \in Nat
         /\ handle.end = handle.start + Len(handle.cached)
         /\ Here = Base + Len(call.got)
<1>1. CallShape(call) /\ HandleShape(handle)
  BY DEF FileInv, CallInv, HandleInv
<1>2. Base \in Nat /\ call.want \in Nat /\ Len(call.got) \in Nat /\ Len(call.got) <= call.want
  BY <1>1, ListedLen DEF CallShape, Base
<1>3. Len(handle.cached) \in Nat /\ handle.start \in Nat /\ handle.size \in Nat
  BY <1>1, ListedLen, BlockAssumption DEF HandleShape
<1>4. handle.end = handle.start + Len(handle.cached)
  BY <1>1 DEF HandleShape
<1>5. Base + call.want <= handle.size
  <2>1. CASE call.op = "read"
    BY <2>1 DEF FileInv, CallInv, Base
  <2>2. CASE call.op = "gather"
    <3>1. Base = 0 /\ call.want = handle.size
      BY <2>2 DEF FileInv, CallInv, Base
    <3>2. QED
      BY <1>3, <3>1
  <2>3. QED
    BY <2>1, <2>2
<1>6. QED
  BY <1>2, <1>3, <1>4, <1>5 DEF Here, Base

(* A call after it took what is in memory: g is what it has got.           *)
Got(g) ==
  /\ Listed(g) /\ Len(call.got) <= Len(g) /\ Len(g) <= call.want
  /\ CallIs(After, call.op, call.at, call.want, g, call.data)
  /\ stop # "torn" => PieceOf(g, LiveNow, Base)
  /\ Whole => Len(g) = call.want

LEMMA AfterParts ==
  ASSUME FileInv, status = "open", call.op \in {"read", "gather"}
  PROVE  \E g : Got(g)
<1>1. PICK b, w, n \in Nat : b = Base /\ w = call.want /\ n = Len(call.got)
  BY ReadingFacts
<1>2. PICK s, l, y \in Nat : s = handle.start /\ l = Len(handle.cached) /\ y = handle.size
  BY ReadingFacts
<1>3. n <= w /\ b + w <= y /\ handle.end = s + l /\ Here = b + n
  BY <1>1, <1>2, ReadingFacts
<1>4. CallShape(call) /\ HandleShape(handle) /\ GotPart /\ InMemory
  BY DEF FileInv, CallInv, HandleInv
<1>5. stop # "torn" => PieceOf(call.got, LiveNow, b)
  BY <1>1, <1>4 DEF GotPart, Base, Was
<1>6. call = [op |-> call.op, at |-> call.at, want |-> call.want, got |-> call.got,
              data |-> call.data]
  BY <1>4 DEF CallShape
<1>7. Whole => s = 0 /\ l = y
  BY <1>2, <1>3 DEF Whole
<1>8. CASE ~Hit
  <2>1. After = call
    BY <1>8 DEF After
  <2>2. CallIs(After, call.op, call.at, call.want, call.got, call.data)
    BY <1>6, <2>1 DEF CallIs
  <2>3. ~(s <= b + n /\ b + n < s + l)
    BY <1>2, <1>3, <1>8 DEF Hit
  <2>4. Whole => n = w
    BY <1>3, <1>7, <2>3
  <2>5. Listed(call.got)
    BY <1>4 DEF CallShape
  <2>6. Got(call.got)
    BY <1>1, <1>3, <1>5, <2>2, <2>4, <2>5 DEF Got
  <2>7. QED
    BY <2>6
<1>9. CASE Hit
  <2>1. s <= b + n /\ b + n < s + l
    BY <1>2, <1>3, <1>9 DEF Hit
  <2>2. PICK d \in Nat : d = b + n - s /\ d < l
    BY <2>1
  <2>3. PICK m \in Nat : m = w - n
    BY <1>3
  <2>4. PICK e \in Nat : e = Smaller(d + m, l) /\ d <= e /\ e <= l
    <3>1. PICK x \in Nat : x = d + m
      OBVIOUS
    <3>2. Smaller(x, l) \in Nat /\ d <= Smaller(x, l) /\ Smaller(x, l) <= l
      BY <2>2, <2>3, <3>1 DEF Smaller
    <3>3. QED
      BY <3>1, <3>2
  <2>5. PICK t : t = Slice(handle.cached, d, e)
    OBVIOUS
  <2>6. Listed(handle.cached) /\ Listed(call.got)
    BY <1>4 DEF HandleShape, CallShape
  <2>7. Cut(handle.cached, d, e, t)
    BY <1>2, <2>4, <2>5, <2>6, SliceIsCut
  <2>8. PICK j \in Nat : j = e - d
    BY <2>4
  <2>9. Listed(t) /\ Len(t) = j /\ \A k \in 1 .. j : t[k] = handle.cached[d + k]
    BY <2>7, <2>8 DEF Cut
  <2>10. PICK g : g = call.got \o t
    OBVIOUS
  <2>11. Chain(call.got, t, g)
    BY <2>6, <2>9, <2>10, ListedChain
  <2>12. /\ Listed(g) /\ Len(g) = n + j /\ \A k \in 1 .. n : g[k] = call.got[k]
         /\ \A k \in 1 .. j : g[n + k] = t[k]
    BY <1>1, <2>9, <2>11 DEF Chain
  <2>13. n + j <= w /\ n <= n + j
    BY <2>3, <2>4, <2>8 DEF Smaller
  <2>14. Whole => n + j = w
    <3> SUFFICES ASSUME Whole PROVE n + j = w
      OBVIOUS
    <3>1. d + m <= l
      BY <1>3, <1>7, <2>2, <2>3
    <3>2. e = d + m
      BY <2>4, <3>1 DEF Smaller
    <3>3. QED
      BY <1>3, <2>3, <2>8, <3>2
  <2>15. CallIs(After, call.op, call.at, call.want, g, call.data)
    <3>1. Slice(handle.cached, d, e) = SubSeq(handle.cached, d + 1, e)
      BY <1>2, <2>4 DEF Slice, Smaller
    <3>2. Here - handle.start + 1 = d + 1
      BY <1>2, <1>3, <2>2
    <3>3. Smaller(Here - handle.start + Missing(call), Len(handle.cached)) = e
      <4>1. Here - handle.start = d
        <5>1. Here = b + n /\ handle.start = s
          BY <1>2, <1>3
        <5>2. QED
          BY <2>2, <5>1
      <4>2. Missing(call) = m
        BY <1>1, <2>3 DEF Missing
      <4>3. QED
        BY <1>2, <2>4, <4>1, <4>2
    <3>4. call.got \o SubSeq(handle.cached, Here - handle.start + 1,
                      Smaller(Here - handle.start + Missing(call), Len(handle.cached))) = g
      BY <2>5, <2>10, <3>1, <3>2, <3>3
    <3>5. After = [call EXCEPT !.got = g]
      BY <1>9, <3>4 DEF After, Taken
    <3>6. QED
      BY <1>6, <3>5 DEF CallIs
  <2>16. stop # "torn" => PieceOf(g, LiveNow, b)
    <3> SUFFICES ASSUME stop # "torn", NEW k \in 1 .. n + j
                 PROVE  g[k] = LiveNow[b + k]
      BY <2>12 DEF PieceOf
    <3>1. CASE k <= n
      <4>1. k \in 1 .. n
        BY <3>1
      <4>2. call.got[k] = LiveNow[b + k]
        BY <1>1, <1>5, <4>1 DEF PieceOf
      <4>3. QED
        BY <2>12, <4>1, <4>2
    <3>2. CASE ~(k <= n)
      <4>1. PICK i \in 1 .. j : k = n + i
        <5>1. k - n \in 1 .. j /\ k = n + (k - n)
          BY <3>2
        <5>2. QED
          BY <5>1
      <4>2. g[k] = handle.cached[d + i]
        BY <2>9, <2>12, <4>1
      <4>3. PICK q \in 1 .. l : q = d + i
        <5>1. d + i \in 1 .. l
          BY <2>4, <2>8
        <5>2. QED
          BY <5>1
      <4>4. PieceOf(handle.cached, LiveNow, s)
        BY <1>2, <1>4 DEF InMemory, Was
      <4>5. handle.cached[q] = LiveNow[s + q]
        BY <1>2, <4>3, <4>4 DEF PieceOf
      <4>6. s + q = b + k
        BY <2>2, <4>1, <4>3
      <4>7. QED
        BY <4>2, <4>3, <4>5, <4>6
    <3>3. QED
      BY <3>1, <3>2
  <2>17. Got(g)
    BY <1>1, <2>12, <2>13, <2>14, <2>15, <2>16 DEF Got
  <2>18. QED
    BY <2>17
<1>10. QED
  BY <1>8, <1>9

(* What a block that was loaded makes of the handle.                       *)
Loads(g, h, z, out) == g = [h EXCEPT !.cached = out, !.start = z, !.end = z + Len(out)]

LEMMA LoadedIs ==
  ASSUME NEW h, HandleShape(h), ~h.dirty, NEW out, Listed(out), NEW z \in Nat, NEW g,
         Loads(g, h, z, out)
  PROVE  /\ HandleShape(g) /\ g.size = h.size /\ g.room = h.room
         /\ g.blocks = h.blocks /\ g.cached = out
         /\ g.start = z /\ g.end = z + Len(out) /\ ~g.dirty
<1>1. h = [size |-> h.size, room |-> h.room, blocks |-> h.blocks, cached |-> h.cached,
           start |-> h.start, end |-> h.end, dirty |-> h.dirty]
  BY DEF HandleShape
<1>2. PICK a, r, b, d : a = h.size /\ r = h.room /\ b = h.blocks /\ d = h.dirty /\ ~d
  OBVIOUS
<1>3. PICK e \in Nat : e = z + Len(out)
  BY ListedLen
<1>4. h = [size |-> a, room |-> r, blocks |-> b, cached |-> h.cached,
           start |-> h.start, end |-> h.end, dirty |-> d]
  BY <1>1, <1>2
<1>5. PICK x : x = [h EXCEPT !.cached = out]
  OBVIOUS
<1>6. x = [size |-> a, room |-> r, blocks |-> b, cached |-> out,
           start |-> h.start, end |-> h.end, dirty |-> d]
  BY <1>4, <1>5
<1>7. PICK w : w = [x EXCEPT !.start = z]
  OBVIOUS
<1>8. w = [size |-> a, room |-> r, blocks |-> b, cached |-> out,
           start |-> z, end |-> h.end, dirty |-> d]
  BY <1>6, <1>7
<1>9. PICK v : v = [w EXCEPT !.end = e]
  OBVIOUS
<1>10. v = [size |-> a, room |-> r, blocks |-> b, cached |-> out,
            start |-> z, end |-> e, dirty |-> d]
  BY <1>8, <1>9
<1>11. g = v
  BY <1>3, <1>5, <1>7, <1>9 DEF Loads
<1>12. /\ v.size = a /\ v.room = r /\ v.blocks = b /\ v.cached = out
       /\ v.start = z /\ v.end = e /\ v.dirty = d
  BY <1>10
<1>13. v = [size |-> v.size, room |-> v.room, blocks |-> v.blocks, cached |-> v.cached,
            start |-> v.start, end |-> v.end, dirty |-> v.dirty]
  BY <1>10, <1>12
<1>14. ~v.dirty
  BY <1>2, <1>12, Zenon
<1>15. v.size \in 0 .. MaxSize /\ Places(v.blocks)
  BY <1>2, <1>12 DEF HandleShape
<1>16. v.start \in Nat /\ Listed(v.cached) /\ v.end = v.start + Len(v.cached)
  BY <1>3, <1>12
<1>17. HandleShape(v)
  BY <1>13, <1>14, <1>15, <1>16, Zenon DEF HandleShape
<1>18. QED
  BY <1>2, <1>3, <1>11, <1>12, <1>14, <1>17, Zenon

LEMMA TurnWorks ==
  ASSUME FileInv, Turn
  PROVE  FileInv'
<1>1. /\ status = "open" /\ call.op \in {"read", "gather"}
      /\ UNCHANGED <<attr, fork, saving, writes, saved, stop>>
  BY DEF Turn
<1>2. PICK g : Got(g)
  BY <1>1, AfterParts
<1>3. PICK b, w, n \in Nat : b = Base /\ w = call.want /\ n = Len(g) /\ n <= w
  BY <1>1, <1>2, ListedLen, ReadingFacts DEF Got
<1>4. PICK y \in Nat : y = handle.size /\ b + w <= y
  BY <1>1, <1>3, ReadingFacts
<1>5. CallShape(call) /\ CallInv /\ HandleInv /\ AttrInv /\ Cells(fork) /\ InMemory /\ Statuses
  BY DEF FileInv, CallInv
<1>6. /\ CallShape(After)
      /\ After.op = call.op /\ After.at = call.at /\ After.want = w /\ After.got = g
      /\ After.data = call.data
  <2>1. PICK a : a = After
    OBVIOUS
  <2>2. CallIs(a, call.op, call.at, call.want, g, call.data)
    BY <1>2, <2>1 DEF Got
  <2>3. /\ call.op \in {"done", "read", "gather", "change"}
        /\ call.at \in Nat /\ call.want \in Nat /\ Listed(g) /\ Len(g) <= call.want
    BY <1>2, <1>5 DEF Got, CallShape
  <2>4. /\ CallShape(a) /\ a.op = call.op /\ a.at = call.at /\ a.want = call.want
        /\ a.got = g /\ a.data = call.data
    BY <2>2, <2>3, CallMake
  <2>5. QED
    BY <1>3, <2>1, <2>4
<1>7. Missing(After) = w - n
  BY <1>3, <1>6 DEF Missing
<1>8. Missing(After) = 0 <=> n = w
  BY <1>3, <1>7
<1>9. saving = NotSaving /\ (stop # "torn" => Regular(attr, fork, Was))
  BY <1>1, NotOverwriting
<1>10. AttrInv' /\ Cells(fork')
  BY <1>1, DiskStays
<1>11. CASE n = w
  <2>1. call' = [After EXCEPT !.op = IF @ = "read" THEN "done" ELSE "change"]
        /\ handle' = handle /\ status' = status
    <3>1. Missing(After) = 0
      BY <1>8, <1>11
    <3>2. QED
      BY <3>1 DEF Turn
  <2>2. PICK o : o = IF call.op = "read" THEN "done" ELSE "change"
    OBVIOUS
  <2>3. CallIs(call', o, call.at, w, g, call.data)
    <3>1. PICK a : a = After
      OBVIOUS
    <3>2. a = [op |-> a.op, at |-> a.at, want |-> a.want, got |-> a.got, data |-> a.data]
      BY <1>6, <3>1 DEF CallShape
    <3>3. a.op = call.op /\ a.at = call.at /\ a.want = w /\ a.got = g /\ a.data = call.data
      BY <1>6, <3>1
    <3>4. PICK c : c = [a EXCEPT !.op = o]
      OBVIOUS
    <3>5. call' = c
      BY <2>1, <2>2, <3>1, <3>3, <3>4
    <3>6. c = [op |-> o, at |-> a.at, want |-> a.want, got |-> a.got, data |-> a.data]
      BY <3>2, <3>4
    <3>7. QED
      BY <3>3, <3>5, <3>6 DEF CallIs
  <2>4. PICK c : c = call'
    OBVIOUS
  <2>5. /\ CallShape(c) /\ c.op = o /\ c.at = call.at /\ c.want = w /\ c.got = g
        /\ c.data = call.data
    <3>1. CallIs(c, o, call.at, w, g, call.data)
      BY <2>3, <2>4
    <3>2. o \in {"done", "read", "gather", "change"} /\ call.at \in Nat /\ Len(g) <= w
      BY <1>3, <1>5, <2>2 DEF CallShape
    <3>3. Listed(g)
      BY <1>2 DEF Got
    <3>4. QED
      BY <3>1, <3>2, <3>3, CallMake
  <2>6. CallInv'
    <3>1. c.op = "change" => call.op = "gather"
      BY <1>1, <2>2, <2>5
    <3>2. c.op \in {"done", "change"}
      BY <2>2, <2>5
    <3>3. call.op = "gather" => /\ w = y /\ w # 0 /\ call.data \in Data
                                /\ call.at + Len(call.data) <= MaxSize
      BY <1>3, <1>4, <1>5 DEF CallInv
    <3>4. QED
      BY <1>1, <1>3, <1>4, <1>11, <2>1, <2>4, <2>5, <3>1, <3>2, <3>3 DEF CallInv
  <2>7. GotPart'
    <3>1. LiveNow' = LiveNow
      BY <1>1, <2>1 DEF LiveNow, Was
    <3>2. c.op = "change" => Base = 0
      BY <1>1, <2>2, <2>5 DEF Base
    <3>3. c.op # "read" /\ c.op # "gather"
      BY <2>2, <2>5
    <3>4. stop # "torn" => PieceOf(g, LiveNow, Base)
      BY <1>2 DEF Got
    <3>5. QED
      BY <1>1, <2>4, <2>5, <3>1, <3>2, <3>3, <3>4 DEF GotPart, Was
  <2>8. QED
    BY <1>1, <2>1, <2>6, <2>7, AllButCall DEF FileInv
<1>12. CASE n # w
  <2>1. PICK p \in Nat : p = b + n /\ p < y
    BY <1>3, <1>4, <1>12
  <2>2. PICK q : q = Here + Len(After.got) - Len(call.got)
    OBVIOUS
  <2>3. q = p
    <3>1. PICK m \in Nat : m = Len(call.got) /\ Here = b + m
      BY <1>1, <1>3, ReadingFacts
    <3>2. Len(After.got) = n
      BY <1>3, <1>6
    <3>3. q = b + m + n - m
      BY <2>2, <3>1, <3>2
    <3>4. b \in Nat /\ m \in Nat /\ n \in Nat
      BY <1>3, <3>1
    <3>5. b + m + n - m = b + n
      BY <3>4
    <3>6. QED
      BY <2>1, <3>3, <3>5
  <2>4. call' = After /\ LoadBlock(q)
    <3>1. Missing(After) # 0
      BY <1>8, <1>12
    <3>2. QED
      BY <2>2, <3>1 DEF Turn
  <2>5. PICK i \in Nat : /\ i = BlockAt(p) /\ i = BlockAt(q)
                         /\ i < BlocksOf(y) /\ i * Block <= p
    BY <1>4, <2>1, <2>3, BlockPlace
  <2>6. ~Whole
    BY <1>2, <1>3, <1>12 DEF Got
  <2>7. ~handle.dirty /\ attr.kind = "fork" /\ HandleShape(handle)
    BY <1>1, <1>5, <2>6 DEF HandleInv, HandleShape, Whole
  <2>8. GotPart' \/ handle' # handle
    <3> SUFFICES ASSUME handle' = handle PROVE GotPart'
      OBVIOUS
    <3>1. LiveNow' = LiveNow
      BY <1>1 DEF LiveNow, Was
    <3>2. stop # "torn" => PieceOf(g, LiveNow, Base)
      BY <1>2 DEF Got
    <3>3. call'.op = call.op /\ call'.got = g /\ call'.at = call.at
      BY <1>6, <2>4
    <3>4. QED
      BY <1>1, <3>1, <3>2, <3>3 DEF GotPart, Base, Was
  <2>9. PICK c : c = call'
    OBVIOUS
  <2>10. /\ CallShape(c) /\ c.op = call.op /\ c.at = call.at /\ c.want = w /\ c.got = g
         /\ c.data = call.data
    BY <1>6, <2>4, <2>9
  <2>11. stop # "torn" => Laid(fork, Was) /\ Listed(Was) /\ y = Len(Was)
                         /\ handle.blocks = Table(fork) /\ LiveNow = Was
    <3> SUFFICES ASSUME stop # "torn"
                 PROVE  Laid(fork, Was) /\ Listed(Was) /\ y = Len(Was)
                         /\ handle.blocks = Table(fork) /\ LiveNow = Was
      OBVIOUS
    <3>1. LiveNow = Was
      BY <2>7 DEF LiveNow, Was
    <3>2. handle.size = Len(Was) /\ handle.blocks = Table(fork)
      BY <1>1, <1>5, <2>7, <3>1 DEF InMemory, Was
    <3>3. Laid(fork, Was) /\ Listed(Was)
      BY <1>9, <2>7 DEF Regular
    <3>4. QED
      BY <1>4, <3>1, <3>2, <3>3
  <2>12. stop # "torn" => i < Len(handle.blocks)
    BY <2>5, <2>11, LaidTable DEF Listing
  <2>13. Kept'
    BY <1>1, <1>9 DEF Kept, Was
  <2>14. CASE handle' = handle /\ status' \in {"wild", "exited"} /\ stop = "torn"
    <3>1. CallInv'
      BY <1>1, <1>3, <1>5, <2>9, <2>10, <2>14 DEF CallInv
    <3>2. GotPart'
      BY <2>8, <2>14
    <3>3. HandleInv'
      BY <1>1, <1>5, <2>14 DEF HandleInv
    <3>4. SaveInv'
      BY <1>1, <1>9, <2>14, NoneSaving
    <3>5. (InMemory /\ Bounded /\ Statuses)'
      BY <1>1, <1>5, <2>14 DEF InMemory, Bounded, Statuses, Was
    <3>6. QED
      BY <1>10, <2>13, <3>1, <3>2, <3>3, <3>4, <3>5 DEF FileInv
  <2>15. CASE i >= Len(handle.blocks)
    <3>1. status' = "wild" /\ handle' = handle
      BY <2>4, <2>5, <2>15 DEF LoadBlock
    <3>2. stop = "torn"
      <4>1. Len(handle.blocks) \in Nat
        BY <2>7, ListedLen DEF HandleShape, Places
      <4>2. QED
        BY <1>5, <2>12, <2>15, <4>1 DEF Statuses
    <3>3. QED
      BY <2>14, <3>1, <3>2
  <2>16. CASE ~(i >= Len(handle.blocks))
    <3>1. PICK k \in Nat : k = i + 1 /\ k \in 1 .. Len(handle.blocks) /\ k - 1 = i
      <4>1. Len(handle.blocks) \in Nat
        BY <2>7, ListedLen DEF HandleShape, Places
      <4>2. QED
        BY <2>16, <4>1
    <3>2. PICK e : e = handle.blocks[k] /\ Place(e)
      BY <2>7, <3>1 DEF HandleShape, Places
    <3>3. PICK from, len \in Nat : from = e.at /\ len = e.len
      BY <3>2 DEF Place
    <3>4. PICK to \in Nat : from = e.at /\ to = e.at + e.len /\ from <= to
      BY <3>3
    <3>5. stop # "torn" => /\ to <= Len(fork)
                           /\ Slice(fork, from, to) \in Forms(NthBlock(Was, i))
      <4> SUFFICES ASSUME stop # "torn"
                   PROVE  /\ to <= Len(fork)
                          /\ Slice(fork, from, to) \in Forms(NthBlock(Was, i))
        OBVIOUS
      <4>1. k \in 1 .. BlocksOf(Len(Was))
        BY <2>5, <2>11, <3>1, LaidTable DEF Listing
      <4>2. Table(fork)[k] = e
        BY <2>11, <3>2
      <4>3. e.at + e.len <= Len(fork) /\ Stored(fork, k) \in Forms(NthBlock(Was, i))
        BY <2>11, <3>1, <4>1, <4>2, LaidEntry
      <4>4. Stored(fork, k) = Slice(fork, from, to)
        BY <3>4, <4>2 DEF Stored
      <4>5. QED
        BY <3>4, <4>3, <4>4
    <3>6. CASE to > Len(fork)
      <4>1. status' = "exited" /\ handle' = handle
        BY <2>4, <2>5, <2>16, <3>1, <3>2, <3>4, <3>6 DEF LoadBlock
      <4>2. stop = "torn"
        <5>1. Len(fork) \in Nat
          BY <1>5, ListedLen DEF Cells
        <5>2. QED
          BY <3>5, <3>6, <5>1
      <4>3. QED
        BY <2>14, <4>1, <4>2
    <3>7. CASE ~(to > Len(fork))
      <4>1. /\ status' = status
            /\ \E out \in Outcomes(Slice(fork, from, to)) :
                 handle' = [handle EXCEPT !.cached = out, !.start = i * Block,
                                          !.end = i * Block + Len(out)]
        BY <2>4, <2>5, <2>16, <3>1, <3>2, <3>4, <3>7 DEF LoadBlock
      <4>2. PICK out \in Outcomes(Slice(fork, from, to)) :
              handle' = [handle EXCEPT !.cached = out, !.start = i * Block,
                                       !.end = i * Block + Len(out)]
        BY <4>1
      <4>3. to <= Len(fork)
        <5>1. Len(fork) \in Nat
          BY <1>5, ListedLen DEF Cells
        <5>2. QED
          BY <3>4, <3>7, <5>1
      <4>4. Listed(out)
        BY <1>5, <3>4, <4>2, <4>3, SliceCells, OutcomesListed
      <4>5. PICK z \in Nat : z = i * Block
        BY Products
      <4>6. PICK h : h = handle'
        OBVIOUS
      <4>7. /\ HandleShape(h) /\ h.size = y /\ h.room = handle.room
            /\ h.blocks = handle.blocks /\ h.cached = out
            /\ h.start = z /\ h.end = z + Len(out) /\ ~h.dirty
        <5>1. PICK o : o = handle
          OBVIOUS
        <5>2. Loads(h, o, z, out)
          BY <4>2, <4>5, <4>6, <5>1 DEF Loads
        <5>3. HandleShape(o) /\ ~o.dirty
          BY <2>7, <5>1
        <5>4. z \in Nat
          BY <4>5
        <5>5. /\ HandleShape(h) /\ h.size = o.size /\ h.room = o.room
              /\ h.blocks = o.blocks /\ h.cached = out
              /\ h.start = z /\ h.end = z + Len(out) /\ ~h.dirty
          BY <4>4, <5>2, <5>3, <5>4, LoadedIs
        <5>6. QED
          BY <1>4, <5>1, <5>5
      <4>8. stop # "torn" => PieceOf(out, Was, z) /\ z + Len(out) <= y
        <5> SUFFICES ASSUME stop # "torn"
                     PROVE  PieceOf(out, Was, z) /\ z + Len(out) <= y
          OBVIOUS
        <5>1. PICK x : x = NthBlock(Was, i)
          OBVIOUS
        <5>2. i < BlocksOf(Len(Was)) /\ Listed(Was)
          BY <2>5, <2>11
        <5>3. /\ Listed(x) /\ z + Len(x) <= y
              /\ \A j \in 1 .. Len(x) : x[j] = Was[z + j]
          BY <2>11, <4>5, <5>1, <5>2, BlockPart
        <5>4. Slice(fork, from, to) \in Forms(x)
          BY <3>5, <5>1
        <5>5. out = x
          <6>1. PICK v : v = Slice(fork, from, to)
            OBVIOUS
          <6>2. Unpacked(v) = x /\ (IsPacked(v) \/ IsPlain(v))
            BY <5>3, <5>4, <6>1, FormsBack
          <6>3. out \in Outcomes(v)
            BY <4>2, <6>1
          <6>4. QED
            BY <6>2, <6>3 DEF Outcomes
        <5>6. QED
          BY <5>3, <5>5 DEF PieceOf
      <4>9. HandleInv'
        BY <1>1, <1>4, <1>5, <2>7, <4>1, <4>6, <4>7 DEF HandleInv
      <4>10. CallInv'
        BY <1>1, <1>3, <1>4, <1>5, <2>9, <2>10, <4>1, <4>6, <4>7 DEF CallInv
      <4>11. LiveNow' = Was
        BY <1>1, <4>6, <4>7 DEF LiveNow, Was
      <4>12. GotPart'
        <5>1. stop # "torn" => PieceOf(g, Was, Base)
          BY <1>2, <2>11 DEF Got
        <5>2. QED
          BY <1>1, <2>9, <2>10, <4>11, <5>1 DEF GotPart, Base, Was
      <4>13. InMemory'
        <5>1. stop # "torn" => /\ Listed(Was) /\ y = Len(Was)
                               /\ handle.blocks = Table(fork)
          BY <2>11
        <5>2. QED
          BY <1>1, <4>6, <4>7, <4>8, <4>11, <5>1 DEF InMemory, Was
      <4>14. SaveInv'
        BY <1>1, <1>9, <4>1, NoneSaving
      <4>15. Bounded' /\ Statuses'
        BY <1>1, <1>5, <4>1 DEF Bounded, Statuses
      <4>16. QED
        BY <1>10, <2>13, <4>9, <4>10, <4>12, <4>13, <4>14, <4>15 DEF FileInv
    <3>8. QED
      BY <3>6, <3>7
  <2>17. QED
    BY <2>15, <2>16
<1>13. QED
  BY <1>11, <1>12

-----------------------------------------------------------------------------
(* The change of a write.                                                  *)

LEMMA ChangedParts ==
  ASSUME NEW bytes, Listed(bytes), NEW at \in Nat, NEW s, Listed(s), NEW u,
         u = Changed(bytes, at, s)
  PROVE  /\ Listed(u)
         /\ Len(u) = IF at + Len(s) > Len(bytes) THEN at + Len(s) ELSE Len(bytes)
<1>1. PICK m, n \in Nat : m = Len(bytes) /\ n = Len(s)
  BY ListedLen
<1>2. PICK l \in Nat : l = IF at + n > m THEN at + n ELSE m
  OBVIOUS
<1>3. u = [k \in 1 .. l |-> IF k > at /\ k <= at + n THEN s[k - at]
                            ELSE IF k <= m THEN bytes[k] ELSE Junk]
  BY <1>1, <1>2 DEF Changed
<1>4. DOMAIN u = 1 .. l /\ u = [k \in 1 .. l |-> u[k]]
  BY <1>3
<1>5. Listed(u) /\ Len(u) = l
  BY <1>4, ListedFunction
<1>6. QED
  BY <1>1, <1>2, <1>5

(* What a change makes of the handle.                                      *)
Soils(g, h, u) ==
  g = [h EXCEPT !.cached = u, !.start = 0, !.end = Len(u), !.size = Len(u), !.dirty = TRUE]

LEMMA SoiledIs ==
  ASSUME NEW h, HandleShape(h), NEW u, Listed(u), Len(u) \in 1 .. MaxSize, NEW g,
         Soils(g, h, u)
  PROVE  /\ HandleShape(g) /\ g.size = Len(u) /\ g.room = h.room
         /\ g.blocks = h.blocks /\ g.cached = u
         /\ g.start = 0 /\ g.end = Len(u) /\ g.dirty
<1>1. h = [size |-> h.size, room |-> h.room, blocks |-> h.blocks, cached |-> h.cached,
           start |-> h.start, end |-> h.end, dirty |-> h.dirty]
  BY DEF HandleShape
<1>2. PICK r, b, d : r = h.room /\ b = h.blocks /\ d = TRUE /\ d
  OBVIOUS
<1>3. PICK e \in Nat : e = Len(u)
  BY ListedLen
<1>4. h = [size |-> h.size, room |-> r, blocks |-> b, cached |-> h.cached,
           start |-> h.start, end |-> h.end, dirty |-> h.dirty]
  BY <1>1, <1>2
<1>5. PICK x : x = [h EXCEPT !.cached = u]
  OBVIOUS
<1>6. x = [size |-> h.size, room |-> r, blocks |-> b, cached |-> u,
           start |-> h.start, end |-> h.end, dirty |-> h.dirty]
  BY <1>4, <1>5
<1>7. PICK w : w = [x EXCEPT !.start = 0]
  OBVIOUS
<1>8. w = [size |-> h.size, room |-> r, blocks |-> b, cached |-> u,
           start |-> 0, end |-> h.end, dirty |-> h.dirty]
  BY <1>6, <1>7
<1>9. PICK v : v = [w EXCEPT !.end = e]
  OBVIOUS
<1>10. v = [size |-> h.size, room |-> r, blocks |-> b, cached |-> u,
            start |-> 0, end |-> e, dirty |-> h.dirty]
  BY <1>8, <1>9
<1>11. PICK y : y = [v EXCEPT !.size = e]
  OBVIOUS
<1>12. y = [size |-> e, room |-> r, blocks |-> b, cached |-> u,
            start |-> 0, end |-> e, dirty |-> h.dirty]
  BY <1>10, <1>11
<1>13. PICK z : z = [y EXCEPT !.dirty = d]
  OBVIOUS
<1>14. z = [size |-> e, room |-> r, blocks |-> b, cached |-> u,
            start |-> 0, end |-> e, dirty |-> d]
  BY <1>12, <1>13
<1>15. g = z
  BY <1>2, <1>3, <1>5, <1>7, <1>9, <1>11, <1>13 DEF Soils
<1>16. /\ z.size = e /\ z.room = r /\ z.blocks = b /\ z.cached = u
       /\ z.start = 0 /\ z.end = e /\ z.dirty = d
  BY <1>14
<1>17. z = [size |-> z.size, room |-> z.room, blocks |-> z.blocks, cached |-> z.cached,
            start |-> z.start, end |-> z.end, dirty |-> z.dirty]
  BY <1>14, <1>16
<1>18. z.dirty
  BY <1>2, <1>16, Zenon
<1>19. e \in 0 .. MaxSize /\ e # 0 /\ 0 + e = e
  BY <1>3
<1>20. z.size \in 0 .. MaxSize /\ z.start \in Nat /\ Places(z.blocks)
  BY <1>2, <1>16, <1>19 DEF HandleShape
<1>21. Listed(z.cached) /\ z.end = z.start + Len(z.cached)
  BY <1>3, <1>16, <1>19
<1>22. z.start = 0 /\ z.end = z.size /\ z.size # 0
  BY <1>16, <1>19
<1>23. HandleShape(z)
  BY <1>17, <1>20, <1>21, <1>22, Zenon DEF HandleShape
<1>24. QED
  BY <1>2, <1>3, <1>15, <1>16, <1>18, <1>23, Zenon

(* The bytes that a write changes, and what it makes of them.              *)
Before == IF call.want > 0 THEN call.got ELSE handle.cached

LEMMA ChangeParts ==
  ASSUME FileInv, status = "open", call.op = "change"
  PROVE  /\ Listed(Before) /\ Len(Before) = handle.size
         /\ call.at \in Nat /\ Listed(call.data)
         /\ stop # "torn" => Before = LiveNow
         /\ Listed(Changed(Before, call.at, call.data))
         /\ Len(Changed(Before, call.at, call.data)) \in 1 .. MaxSize
<1>1. HandleShape(handle) /\ CallShape(call) /\ CallInv /\ InMemory /\ GotPart
  BY DEF FileInv, CallInv, HandleInv
<1>2. PICK y \in 0 .. MaxSize : y = handle.size
  BY <1>1 DEF HandleShape
<1>3. /\ call.data \in Data /\ call.at + Len(call.data) <= MaxSize
      /\ Len(call.got) = call.want
      /\ IF call.want = 0 THEN Whole ELSE call.want = handle.size
  BY <1>1 DEF CallInv
<1>4. PICK a, w \in Nat : a = call.at /\ w = call.want
  BY <1>1 DEF CallShape
<1>5. PICK b : b = Before
  OBVIOUS
<1>6. PICK d : d = call.data
  OBVIOUS
<1>7. Listed(d) /\ Len(d) \in Nat \ {0} /\ a + Len(d) <= MaxSize
  BY <1>3, <1>4, <1>6, FileListed
<1>8. Listed(b) /\ Len(b) = y /\ (stop # "torn" => b = LiveNow)
  <2>1. CASE w > 0
    <3>1. b = call.got /\ w = y
      BY <1>2, <1>3, <1>4, <1>5, <2>1 DEF Before
    <3>2. Listed(b) /\ Len(b) = y
      BY <1>1, <1>3, <1>4, <3>1 DEF CallShape
    <3>3. stop # "torn" => b = LiveNow
      <4> SUFFICES ASSUME stop # "torn" PROVE b = LiveNow
        OBVIOUS
      <4>1. Listed(LiveNow) /\ Len(LiveNow) = y
        BY <1>1, <1>2 DEF InMemory, Was
      <4>2. PieceOf(b, LiveNow, 0)
        BY <1>1, <3>1 DEF GotPart, Was
      <4>3. \A k \in 1 .. y : 0 + k = k
        BY <1>2
      <4>4. \A k \in 1 .. y : b[k] = LiveNow[k]
        BY <3>2, <4>2, <4>3 DEF PieceOf
      <4>5. QED
        BY <3>2, <4>1, <4>4, ListedSame
    <3>4. QED
      BY <3>2, <3>3
  <2>2. CASE ~(w > 0)
    <3>1. w = 0
      BY <2>2
    <3>2. Whole
      BY <1>3, <1>4, <3>1
    <3>3. b = handle.cached
      BY <1>4, <1>5, <2>2 DEF Before
    <3>4. PICK l \in Nat : l = Len(handle.cached) /\ Listed(handle.cached)
      BY <1>1, ListedLen DEF HandleShape
    <3>5. handle.start = 0 /\ handle.end = y /\ handle.end = handle.start + l
      BY <1>1, <1>2, <3>2, <3>4 DEF Whole, HandleShape
    <3>6. l = y
      BY <3>5
    <3>7. stop # "torn" => b = LiveNow
      <4> SUFFICES ASSUME stop # "torn" PROVE b = LiveNow
        OBVIOUS
      <4>1. Listed(LiveNow) /\ Len(LiveNow) = y /\ PieceOf(b, LiveNow, 0)
        BY <1>1, <1>2, <3>3, <3>5 DEF InMemory, Was
      <4>2. \A k \in 1 .. y : 0 + k = k
        BY <1>2
      <4>3. \A k \in 1 .. y : b[k] = LiveNow[k]
        BY <3>3, <3>4, <3>6, <4>1, <4>2 DEF PieceOf
      <4>4. QED
        BY <3>3, <3>4, <3>6, <4>1, <4>3, ListedSame
    <3>8. QED
      BY <3>3, <3>4, <3>6, <3>7
  <2>3. QED
    BY <2>1, <2>2
<1>9. PICK u : u = Changed(b, a, d)
  OBVIOUS
<1>10. Listed(u) /\ Len(u) = IF a + Len(d) > Len(b) THEN a + Len(d) ELSE Len(b)
  BY <1>7, <1>8, <1>9, ChangedParts
<1>11. Len(u) \in 1 .. MaxSize
  BY <1>2, <1>7, <1>8, <1>10, BlockAssumption
<1>12. QED
  BY <1>2, <1>4, <1>5, <1>6, <1>7, <1>8, <1>9, <1>10, <1>11

(* The call is over.                                                       *)
LEMMA CallDone ==
  ASSUME NEW c, CallShape(c), NEW d, d = [c EXCEPT !.op = "done"]
  PROVE  /\ CallShape(d) /\ d.op = "done" /\ d.at = c.at /\ d.want = c.want
         /\ d.got = c.got /\ d.data = c.data
<1>1. c = [op |-> c.op, at |-> c.at, want |-> c.want, got |-> c.got, data |-> c.data]
  BY DEF CallShape
<1>2. d = [op |-> "done", at |-> c.at, want |-> c.want, got |-> c.got, data |-> c.data]
  BY <1>1
<1>3. /\ d.op = "done" /\ d.at = c.at /\ d.want = c.want /\ d.got = c.got
      /\ d.data = c.data
  BY <1>2
<1>4. d = [op |-> d.op, at |-> d.at, want |-> d.want, got |-> d.got, data |-> d.data]
  BY <1>2, <1>3
<1>5. c.at \in Nat /\ c.want \in Nat /\ Listed(c.got) /\ Len(c.got) <= c.want
  BY DEF CallShape
<1>6. QED
  BY <1>3, <1>4, <1>5 DEF CallShape

LEMMA ChangeWorks ==
  ASSUME FileInv, Change
  PROVE  FileInv'
<1>1. PICK u : u = Changed(Before, call.at, call.data)
  OBVIOUS
<1>2. /\ status = "open" /\ call.op = "change"
      /\ handle' = [handle EXCEPT !.cached = u, !.start = 0, !.end = Len(u),
                                  !.size = Len(u), !.dirty = TRUE]
      /\ call' = [call EXCEPT !.op = "done"]
      /\ UNCHANGED <<attr, fork, saving, status, writes, saved, stop>>
  BY <1>1 DEF Change, Before
<1>3. Listed(u) /\ Len(u) \in 1 .. MaxSize
  BY <1>1, <1>2, ChangeParts
<1>4. HandleShape(handle) /\ CallShape(call) /\ HandleInv /\ Statuses /\ Bounded
  BY DEF FileInv, CallInv, HandleInv
<1>5. PICK h : h = handle'
  OBVIOUS
<1>6. /\ HandleShape(h) /\ h.size = Len(u) /\ h.room = handle.room
      /\ h.cached = u /\ h.start = 0 /\ h.end = Len(u) /\ h.dirty
  <2>1. PICK o : o = handle
    OBVIOUS
  <2>2. Soils(h, o, u) /\ HandleShape(o)
    BY <1>2, <1>4, <1>5, <2>1 DEF Soils
  <2>3. /\ HandleShape(h) /\ h.size = Len(u) /\ h.room = o.room
        /\ h.cached = u /\ h.start = 0 /\ h.end = Len(u) /\ h.dirty
    BY <1>3, <2>2, SoiledIs
  <2>4. QED
    BY <2>1, <2>3
<1>7. PICK c : c = call'
  OBVIOUS
<1>8. CallShape(c) /\ c.op = "done"
  BY <1>2, <1>4, <1>7, CallDone
<1>9. CallInv' /\ GotPart'
  BY <1>7, <1>8 DEF CallInv, GotPart, Was
<1>10. AttrInv' /\ Cells(fork')
  BY <1>2, DiskStays
<1>11. saving = NotSaving /\ (stop # "torn" => Regular(attr, fork, Was))
  BY <1>2, NotOverwriting
<1>12. SaveInv' /\ Kept'
  BY <1>2, <1>11, NoneSaving DEF Kept, Was
<1>13. HandleInv'
  BY <1>2, <1>4, <1>5, <1>6 DEF HandleInv
<1>14. InMemory'
  <2>1. LiveNow' = u
    BY <1>5, <1>6 DEF LiveNow, Was
  <2>2. PieceOf(u, u, 0) /\ Len(u) <= Len(u)
    BY <1>3, PieceAll
  <2>3. QED
    BY <1>3, <1>5, <1>6, <2>1, <2>2 DEF InMemory, Was
<1>15. Bounded' /\ Statuses'
  BY <1>2, <1>4 DEF Bounded, Statuses
<1>16. QED
  BY <1>9, <1>10, <1>12, <1>13, <1>14, <1>15 DEF FileInv

-----------------------------------------------------------------------------
(* Saving.                                                                 *)

LEMMA SavingFacts ==
  ASSUME FileInv, status = "saving"
  PROVE  /\ HandleShape(handle) /\ handle.dirty /\ Listed(handle.cached)
         /\ Len(handle.cached) = handle.size /\ handle.size \in 1 .. MaxSize
         /\ BlocksOf(handle.size) \in Nat \ {0}
         /\ saving.phase # "none" /\ Written(fork, saving, BlocksOf(handle.size), handle.cached)
         /\ call.op = "done" /\ CallShape(call)
<1>1. HandleShape(handle) /\ CallShape(call) /\ call.op = "done"
  BY DEF FileInv, HandleInv, CallInv
<1>2. saving.phase # "none"
  BY DEF FileInv, SaveInv
<1>3. handle.dirty /\ Written(fork, saving, BlocksOf(handle.size), handle.cached)
  BY <1>2 DEF FileInv, SaveInv
<1>4. PICK l, y \in Nat : l = Len(handle.cached) /\ y = handle.size
  BY <1>1, ListedLen, BlockAssumption DEF HandleShape
<1>5. handle.start = 0 /\ handle.end = y /\ y # 0 /\ y <= MaxSize /\ handle.end = handle.start + l
  BY <1>1, <1>3, <1>4, BlockAssumption DEF HandleShape
<1>6. l = y /\ y \in 1 .. MaxSize
  BY <1>5, BlockAssumption
<1>7. BlocksOf(y) \in Nat /\ BlocksOf(y) # 0
  BY <1>4, <1>5, BlocksBelow, BlocksFew
<1>8. Listed(handle.cached)
  BY <1>1 DEF HandleShape
<1>9. QED
  BY <1>1, <1>2, <1>3, <1>4, <1>6, <1>7, <1>8

(* What a step of the saving leaves alone.                                 *)
LEMMA SavingStays ==
  ASSUME FileInv, status = "saving", status' \in {"saving", "wild"},
         UNCHANGED <<attr, handle, call, saved, stop>>, Cells(fork'),
         saving'.phase = "blocks" => saving.phase = "blocks"
  PROVE  AttrInv' /\ HandleInv' /\ CallInv' /\ InMemory' /\ GotPart' /\ Statuses'
<1>1. /\ attr' = attr /\ handle' = handle /\ call' = call /\ saved' = saved /\ stop' = stop
  OBVIOUS
<1>2. handle.dirty /\ call.op = "done" /\ HandleShape(handle) /\ CallShape(call)
  BY SavingFacts
<1>3. AttrInv' /\ Statuses'
  BY <1>1 DEF FileInv, AttrInv, Statuses
<1>4. HandleInv'
  BY <1>1, <1>2 DEF FileInv, HandleInv
<1>5. CallInv' /\ GotPart'
  BY <1>1, <1>2 DEF CallInv, GotPart, Was
<1>6. InMemory'
  BY <1>1, <1>2 DEF FileInv, InMemory, LiveNow, Was
<1>7. QED
  BY <1>3, <1>4, <1>5, <1>6

(* Once there is a block in the fork, the file that was there is given up; *)
(* a file in the attribute is not touched.                                 *)
LEMMA KeptSaving ==
  ASSUME FileInv, status = "saving", saving.phase \notin {"inline", "fork"},
         saving'.table # <<>>, UNCHANGED <<attr, saved, stop>>
  PROVE  Kept'
<1>1. attr' = attr /\ saved' = saved /\ stop' = stop
  OBVIOUS
<1>2. CASE attr.kind = "fork"
  BY <1>1, <1>2 DEF Kept, Overwriting, Was
<1>3. CASE attr.kind # "fork"
  <2>1. stop # "torn" => Regular(attr, fork, Was)
    BY <1>3 DEF FileInv, Kept, Overwriting, Was
  <2>2. stop # "torn" => Regular(attr, fork', Was)
    BY <1>3, <2>1 DEF Regular
  <2>3. QED
    BY <1>1, <2>2 DEF Kept, Was
<1>4. QED
  BY <1>2, <1>3

LEMMA NotWild ==
  ASSUME FileInv, status = "saving", status' = "saving"
  PROVE  Bounded'
  BY DEF Bounded

(* One block is the whole file.                                            *)
LEMMA OneBlock ==
  ASSUME NEW c, Listed(c), BlocksOf(Len(c)) <= 1, Len(c) # 0
  PROVE  NthBlock(c, 0) = c
<1>1. PICK l \in Nat : l = Len(c)
  BY ListedLen
<1>2. l <= Block /\ BlocksOf(l) # 0
  BY <1>1, BlocksFew
<1>3. 0 < BlocksOf(l) /\ l - 0 * Block = l
  BY <1>1, <1>2, BlocksBelow, ProductZero
<1>4. PICK b : b = NthBlock(c, 0)
  OBVIOUS
<1>5. /\ Listed(b) /\ Len(b) = Smaller(Block, l - 0 * Block)
      /\ \A k \in 1 .. Len(b) : b[k] = c[0 * Block + k]
  BY <1>1, <1>3, <1>4, BlockPart
<1>6. Len(b) = l
  BY <1>1, <1>2, <1>3, <1>5, BlockAssumption DEF Smaller
<1>7. \A k \in 1 .. l : 0 * Block + k = k
  BY <1>1, ProductZero
<1>8. \A k \in 1 .. l : b[k] = c[k]
  BY <1>5, <1>6, <1>7
<1>9. QED
  BY <1>1, <1>4, <1>5, <1>6, <1>8, ListedSame

(* Another phase of the saving.                                            *)
Phased(s, p) == s = [saving EXCEPT !.phase = p]

LEMMA PhaseIs ==
  ASSUME FileInv, NEW p, NEW s, Phased(s, p)
  PROVE  /\ s = [phase |-> s.phase, table |-> s.table, place |-> s.place]
         /\ s.phase = p /\ s.table = saving.table /\ s.place = saving.place
<1>1. saving = [phase |-> saving.phase, table |-> saving.table, place |-> saving.place]
  BY DEF FileInv, SaveInv
<1>2. s = [phase |-> p, table |-> saving.table, place |-> saving.place]
  BY <1>1 DEF Phased
<1>3. s.phase = p /\ s.table = saving.table /\ s.place = saving.place
  BY <1>2
<1>4. QED
  BY <1>2, <1>3

LEMMA SaveInlineWorks ==
  ASSUME FileInv, SaveInline
  PROVE  FileInv'
<1>1. /\ status = "saving" /\ saving.phase = "blocks"
      /\ Len(saving.table) < BlocksOf(handle.size) /\ Fits
      /\ saving' = [saving EXCEPT !.phase = "inline"]
      /\ UNCHANGED <<attr, fork, handle, call, writes, saved, stop>>
      /\ status' \in IF PackedLen(BlockNow) > handle.room
                     THEN {"saving", "wild"} ELSE {"saving"}
  BY DEF SaveInline, MoreBlocks, Saves
<1>2. PICK n \in Nat \ {0} : n = BlocksOf(handle.size)
  BY <1>1, SavingFacts
<1>3. /\ handle.dirty /\ Written(fork, saving, n, handle.cached) /\ Listed(handle.cached)
      /\ Len(handle.cached) = handle.size /\ handle.size \in 1 .. MaxSize
  BY <1>1, <1>2, SavingFacts
<1>4. saving.table = <<>>
  <2>1. Listed(saving.table)
    BY <1>3 DEF Written
  <2>2. PICK t \in Nat : t = Len(saving.table)
    BY <2>1, ListedLen
  <2>3. n <= 1 /\ t < n
    BY <1>1, <1>2, <2>2 DEF Fits
  <2>4. Len(saving.table) = 0
    BY <2>2, <2>3
  <2>5. QED
    BY <2>1, <2>4, ListedEmpty
<1>5. PICK s : s = saving'
  OBVIOUS
<1>6. /\ s = [phase |-> s.phase, table |-> s.table, place |-> s.place]
      /\ s.phase = "inline" /\ s.table = saving.table /\ s.place = saving.place
  <2>1. PICK p : p = "inline"
    OBVIOUS
  <2>2. Phased(s, p)
    BY <1>1, <1>5, <2>1 DEF Phased
  <2>3. /\ s = [phase |-> s.phase, table |-> s.table, place |-> s.place]
        /\ s.phase = p /\ s.table = saving.table /\ s.place = saving.place
    BY <2>2, PhaseIs
  <2>4. QED
    BY <2>1, <2>3
<1>7. BlockNow' = BlockNow /\ Fits'
  BY <1>1, <1>5, <1>6 DEF Fits, BlockNow
<1>8. Written(fork, s, n, handle.cached)
  BY <1>3, <1>6 DEF Written
<1>9. status' \in {"saving", "wild"}
  BY <1>1
<1>10. SaveInv'
  BY <1>1, <1>2, <1>3, <1>4, <1>5, <1>6, <1>7, <1>8, <1>9 DEF SaveInv
<1>11. Kept'
  <2>1. stop # "torn" => Regular(attr, fork, Was)
    BY <1>1, <1>4 DEF FileInv, Kept, Overwriting, Was
  <2>2. QED
    BY <1>1, <2>1 DEF Kept, Was
<1>12. Bounded'
  <2>1. CASE status' = "saving"
    BY <1>1, <2>1, NotWild
  <2>2. CASE status' = "wild"
    <3>1. PackedLen(BlockNow) > handle.room
      BY <1>1, <2>2
    <3>2. BlockNow = handle.cached
      <4>1. Len(saving.table) = 0
        BY <1>4, ListedNone
      <4>2. handle.size # 0 /\ BlocksOf(handle.size) <= 1
        BY <1>1, <1>3 DEF Fits
      <4>3. QED
        BY <1>3, <4>1, <4>2, OneBlock DEF BlockNow
    <3>3. handle.room = IF attr.kind \in NoKind THEN InlineRoom ELSE Len(attr.data)
      BY <1>1 DEF FileInv, HandleInv
    <3>4. PICK p \in Nat : p = PackedLen(BlockNow)
      BY <1>3, <3>2, PackedLenType
    <3>5. p <= InlineRoom
      BY <1>1, <3>4 DEF Fits
    <3>6. attr.kind \notin NoKind
      BY <3>1, <3>3, <3>4, <3>5, BlockAssumption
    <3>7. PackedLen(handle.cached) > Len(attr.data)
      BY <3>1, <3>2, <3>3, <3>6
    <3>8. attr.kind \in {"inline", "fork"}
      BY <3>6 DEF FileInv, AttrInv, NoKind
    <3>9. QED
      BY <1>1, <1>5, <1>6, <2>2, <3>7, <3>8 DEF Bounded
  <2>3. QED
    BY <1>9, <2>1, <2>2
<1>13. Cells(fork') 
  BY <1>1 DEF FileInv
<1>14. AttrInv' /\ HandleInv' /\ CallInv' /\ InMemory' /\ GotPart' /\ Statuses'
  BY <1>1, <1>9, <1>13, SavingStays
<1>15. QED
  BY <1>10, <1>11, <1>12, <1>13, <1>14 DEF FileInv

Longer(t, s, e) == t = Append(s, e)

LEMMA ListedMore ==
  ASSUME NEW s, Listed(s), NEW e, NEW t, Longer(t, s, e)
  PROVE  /\ Listed(t) /\ Len(t) = Len(s) + 1 /\ t # <<>> /\ t[Len(s) + 1] = e
         /\ \A k \in 1 .. Len(s) : t[k] = s[k]
<1>1. PICK S : s \in Seq(S)
  BY DEF Listed
<1>2. s \in Seq(S \cup {e}) /\ e \in S \cup {e}
  BY <1>1
<1>3. PICK n \in Nat : n = Len(s)
  BY ListedLen
<1>4. /\ t \in Seq(S \cup {e}) /\ Len(t) = n + 1 /\ t[n + 1] = e
      /\ \A k \in 1 .. n : t[k] = s[k]
  BY <1>2, <1>3, AppendProperties DEF Longer
<1>5. t # <<>>
  BY <1>3, <1>4, ListedNone
<1>6. QED
  BY <1>3, <1>4, <1>5 DEF Listed

(* What was written so far stays under a write in front of it or behind.   *)
LEMMA InPlaceStays ==
  ASSUME NEW f, Listed(f), NEW at \in Nat, NEW cells, Listed(cells), NEW g,
         Over(f, at, cells, g), NEW n \in Nat, NEW t, NEW place \in Nat, place <= Len(f),
         at + Len(cells) <= BlockArea(n) \/ place <= at,
         NEW c, NEW k, InPlace(f, t, n, place, c, k), NEW p \in Nat, place <= p
  PROVE  InPlace(g, t, n, p, c, k)
<1>1. /\ Place(t[k]) /\ BlockArea(n) <= t[k].at /\ t[k].at + t[k].len <= place
      /\ Slice(f, t[k].at, t[k].at + t[k].len) = Packed(NthBlock(c, k - 1))
  BY DEF InPlace
<1>2. PICK a, l \in Nat : a = t[k].at /\ l = t[k].len
  BY <1>1 DEF Place
<1>3. PICK b \in Nat : b = a + l /\ a <= b
  <2>1. a \in Nat /\ l \in Nat
    BY <1>2
  <2>2. a + l \in Nat /\ a <= a + l
    BY <2>1
  <2>3. QED
    BY <2>2
<1>4. PICK m, w, q \in Nat : m = Len(cells) /\ w = Len(f) /\ q = BlockArea(n)
  BY ListedLen DEF BlockArea
<1>5. a + l <= place /\ BlockArea(n) <= a
  BY <1>1, <1>2
<1>6. a <= b /\ b <= place /\ q <= a /\ b <= w
  <2>1. b <= place
    BY <1>3, <1>5
  <2>2. q <= a /\ place <= w
    BY <1>4, <1>5
  <2>3. b <= w
    <3>1. b \in Nat /\ w \in Nat
      BY <1>3, <1>4
    <3>2. QED
      BY <2>1, <2>2, <3>1
  <2>4. QED
    BY <1>3, <2>1, <2>2, <2>3
<1>7. b <= at \/ at + m <= a
  BY <1>4, <1>6
<1>8. Slice(g, a, b) = Slice(f, a, b)
  BY <1>4, <1>6, <1>7, OverSlice
<1>9. b <= p
  BY <1>6
<1>10. QED
  BY <1>1, <1>2, <1>3, <1>8, <1>9 DEF InPlace

LEMMA WrittenStays ==
  ASSUME NEW f, Listed(f), NEW at \in Nat, NEW cells, Listed(cells), NEW g,
         Over(f, at, cells, g), NEW n \in Nat, NEW s, NEW c, Written(f, s, n, c),
         at + Len(cells) <= BlockArea(n) \/ s.place <= at,
         NEW r, r.table = s.table, r.place = s.place
  PROVE  Written(g, r, n, c)
<1>1. /\ Listed(s.table) /\ Len(s.table) <= n
      /\ s.place \in Nat /\ BlockArea(n) <= s.place
      /\ s.table # <<>> => s.place <= Len(f)
      /\ \A k \in 1 .. Len(s.table) : InPlace(f, s.table, n, s.place, c, k)
  BY DEF Written
<1>2. PICK p \in Nat : p = s.place
  BY <1>1
<1>3. PICK w, v \in Nat : w = Len(f) /\ v = Len(g) /\ w <= v /\ Listed(g)
  BY ListedLen DEF Over
<1>4. s.table # <<>> => p <= v
  BY <1>1, <1>2, <1>3
<1>5. ASSUME NEW k \in 1 .. Len(s.table) PROVE InPlace(g, s.table, n, p, c, k)
  <2>1. s.table # <<>>
    <3>1. Len(s.table) # 0
      BY <1>1, <1>5, ListedLen
    <3>2. QED
      BY <3>1, ListedNone
  <2>2. p <= Len(f) /\ p <= p
    BY <1>1, <1>2, <2>1
  <2>3. InPlace(f, s.table, n, p, c, k)
    BY <1>1, <1>2, <1>5
  <2>4. QED
    BY <1>2, <2>2, <2>3, InPlaceStays
<1>6. QED
  BY <1>1, <1>2, <1>3, <1>4, <1>5 DEF Written

LEMMA SaveBlockWorks ==
  ASSUME FileInv, SaveBlock
  PROVE  FileInv'
<1>1. PICK cells : cells = Packed(BlockNow)
  OBVIOUS
<1>2. PICK e : e = [at |-> saving.place, len |-> Len(cells)]
  OBVIOUS
<1>3. /\ status = "saving" /\ saving.phase = "blocks" /\ status' = status
      /\ Len(saving.table) < BlocksOf(handle.size)
      /\ fork' = Put(saving.place, cells)
      /\ saving' = [saving EXCEPT !.table = Append(@, e), !.place = @ + Len(cells)]
      /\ UNCHANGED <<attr, handle, call, writes, saved, stop>>
  BY <1>1, <1>2 DEF SaveBlock, MoreBlocks, Saves
<1>4. PICK n \in Nat : n = BlocksOf(handle.size)
  BY <1>3, SavingFacts
<1>5. PICK c : c = handle.cached /\ Listed(c) /\ Len(c) = handle.size
  BY <1>3, SavingFacts
<1>6. PICK s : s = saving
  OBVIOUS
<1>7. Written(fork, s, n, c) /\ handle.dirty
  BY <1>3, <1>4, <1>5, <1>6, SavingFacts
<1>8. /\ Listed(s.table) /\ s.place \in Nat /\ BlockArea(n) <= s.place
      /\ s.table # <<>> => s.place <= Len(fork)
      /\ \A k \in 1 .. Len(s.table) : InPlace(fork, s.table, n, s.place, c, k)
  BY <1>7 DEF Written
<1>9. PICK m, p \in Nat : m = Len(s.table) /\ p = s.place /\ m < n
  BY <1>3, <1>4, <1>6, <1>8, ListedLen
<1>10. PICK b : b = NthBlock(c, m) /\ Listed(b)
  <2>1. Listed(NthBlock(c, m))
    BY <1>4, <1>5, <1>9, BlockPart
  <2>2. QED
    BY <2>1
<1>11. cells = Packed(b)
  BY <1>1, <1>5, <1>6, <1>9, <1>10 DEF BlockNow
<1>12. Cells(cells) /\ Listed(cells)
  BY <1>10, <1>11, PackedCells DEF Cells
<1>13. PICK l \in Nat : l = Len(cells)
  BY <1>12, ListedLen
<1>14. PICK g : g = fork'
  OBVIOUS
<1>15. Over(fork, p, cells, g) /\ Cells(g)
  <2>1. g = Put(p, cells) /\ Cells(fork)
    BY <1>3, <1>6, <1>9, <1>14 DEF FileInv
  <2>2. QED
    BY <1>12, <2>1, PutParts
<1>16. PICK w, v \in Nat : w = Len(fork) /\ v = Len(g) /\ p + l <= v /\ Listed(g) /\ Listed(fork)
  BY <1>13, <1>15, ListedLen DEF Over, FileInv, Cells
<1>17. PICK t : t = Append(s.table, e)
  OBVIOUS
<1>18. /\ Listed(t) /\ Len(t) = m + 1 /\ t # <<>> /\ t[m + 1] = e
       /\ \A k \in 1 .. m : t[k] = s.table[k]
  <2>1. PICK u : u = s.table /\ Listed(u)
    BY <1>8
  <2>2. Longer(t, u, e)
    BY <1>17, <2>1 DEF Longer
  <2>3. /\ Listed(t) /\ Len(t) = Len(u) + 1 /\ t # <<>> /\ t[Len(u) + 1] = e
        /\ \A k \in 1 .. Len(u) : t[k] = u[k]
    BY <2>1, <2>2, ListedMore
  <2>4. Len(u) = m
    BY <1>9, <2>1
  <2>5. QED
    BY <2>1, <2>3, <2>4
<1>19. PICK r : r = saving'
  OBVIOUS
<1>20. r = [phase |-> "blocks", table |-> t, place |-> p + l]
  <2>1. s = [phase |-> "blocks", table |-> s.table, place |-> p]
    BY <1>3, <1>6, <1>9 DEF FileInv, SaveInv
  <2>2. PICK x : x = [s EXCEPT !.table = t]
    OBVIOUS
  <2>3. x = [phase |-> "blocks", table |-> t, place |-> p]
    BY <2>1, <2>2
  <2>4. PICK q : q = p + l
    OBVIOUS
  <2>5. PICK y : y = [x EXCEPT !.place = q]
    OBVIOUS
  <2>6. y = [phase |-> "blocks", table |-> t, place |-> q]
    BY <2>3, <2>5
  <2>7. r = [s EXCEPT !.table = t, !.place = q]
    BY <1>3, <1>6, <1>9, <1>13, <1>17, <1>19, <2>4
  <2>8. r = y
    BY <2>2, <2>5, <2>7
  <2>9. QED
    BY <2>4, <2>6, <2>8
<1>21. /\ r.phase = "blocks" /\ r.table = t /\ r.place = p + l
       /\ r = [phase |-> r.phase, table |-> r.table, place |-> r.place]
  BY <1>20
<1>22. ASSUME NEW k \in 1 .. m + 1 PROVE InPlace(g, t, n, p + l, c, k)
  <2>1. PICK q \in Nat : q = p + l /\ p <= q
    OBVIOUS
  <2>2. CASE k # m + 1
    <3>1. k \in 1 .. m
      BY <2>2
    <3>2. t[k] = s.table[k]
      BY <1>18, <3>1
    <3>3. InPlace(fork, s.table, n, p, c, k)
      BY <1>8, <1>9, <3>1
    <3>4. InPlace(fork, t, n, p, c, k)
      BY <3>2, <3>3 DEF InPlace
    <3>5. p <= Len(fork)
      <4>1. Len(s.table) # 0
        BY <1>9, <3>1
      <4>2. QED
        BY <1>8, <1>9, <4>1, ListedNone
    <3>6. InPlace(g, t, n, q, c, k)
      BY <1>12, <1>15, <1>16, <2>1, <3>4, <3>5, InPlaceStays
    <3>7. QED
      BY <2>1, <3>6
  <2>3. CASE k = m + 1
    <3>1. t[k] = [at |-> p, len |-> l]
      BY <1>2, <1>6, <1>9, <1>13, <1>18, <2>3
    <3>2. t[k].at = p /\ t[k].len = l
      BY <3>1
    <3>3. Slice(g, p, p + Len(cells)) = cells
      <4>1. \A j \in 1 .. Len(cells) : g[p + j] = cells[j]
        BY <1>15 DEF Over
      <4>2. p + Len(cells) <= Len(g)
        BY <1>13, <1>16
      <4>3. QED
        BY <1>12, <1>16, <4>1, <4>2, SliceIs
    <3>4. k - 1 = m
      BY <2>3
    <3>5. Slice(g, p, p + l) = Packed(NthBlock(c, k - 1))
      BY <1>10, <1>11, <1>13, <3>3, <3>4
    <3>6. Place(t[k]) /\ BlockArea(n) <= p /\ p + l <= p + l
      BY <1>8, <1>9, <3>2 DEF Place
    <3>7. QED
      BY <3>2, <3>5, <3>6 DEF InPlace
  <2>4. QED
    BY <2>2, <2>3
<1>23. Written(g, r, n, c)
  <2>1. m + 1 <= n /\ p + l \in Nat
    BY <1>9
  <2>2. BlockArea(n) <= p + l
    BY <1>8, <1>9 DEF BlockArea
  <2>3. p + l <= Len(g)
    BY <1>16
  <2>4. QED
    BY <1>18, <1>21, <1>22, <2>1, <2>2, <2>3 DEF Written
<1>24. SaveInv'
  BY <1>3, <1>4, <1>5, <1>7, <1>14, <1>19, <1>21, <1>23 DEF SaveInv
<1>25. Kept'
  BY <1>3, <1>18, <1>19, <1>21, KeptSaving
<1>26. Cells(fork')
  BY <1>14, <1>15
<1>27. Bounded' /\ AttrInv' /\ HandleInv' /\ CallInv' /\ InMemory' /\ GotPart' /\ Statuses'
  BY <1>3, <1>26, SavingStays, NotWild
<1>28. QED
  BY <1>24, <1>25, <1>26, <1>27 DEF FileInv

LEMMA OneCell ==
  ASSUME NEW x, Cell(x)
  PROVE  Cells(<<x>>) /\ Listed(<<x>>) /\ Len(<<x>>) = 1 /\ <<x>>[1] = x
<1>1. Listed(<<x>>) /\ Len(<<x>>) = 1 /\ <<x>>[1] = x
  BY ListedOne
<1>2. \A k \in 1 .. 1 : k = 1
  OBVIOUS
<1>3. QED
  BY <1>1, <1>2 DEF Cells

(* A part of the fork that is no block: the head, the table, the end.      *)
LEMMA PartWorks ==
  ASSUME FileInv, status = "saving",
         NEW from, NEW to \in {"table", "end", "fork"}, NEW at \in Nat, NEW cells, Cells(cells),
         SavePart(from, to, at, cells), from \notin {"inline", "fork"},
         Len(saving.table) = BlocksOf(handle.size),
         at + Len(cells) <= BlockArea(BlocksOf(handle.size)) \/ saving.place <= at,
         to \in {"end", "fork"} => TableWritten(fork', saving.table, BlocksOf(handle.size))
  PROVE  FileInv'
<1>1. /\ fork' = Put(at, cells) /\ saving' = [saving EXCEPT !.phase = to]
      /\ status' = status /\ UNCHANGED <<attr, handle, call, writes, saved, stop>>
      /\ saving.phase \notin {"inline", "fork"}
  BY DEF SavePart, Saves
<1>2. PICK n \in Nat \ {0} : n = BlocksOf(handle.size)
  BY SavingFacts
<1>3. PICK c : c = handle.cached /\ Written(fork, saving, n, c) /\ handle.dirty
  BY <1>2, SavingFacts
<1>4. PICK g : g = fork'
  OBVIOUS
<1>5. Over(fork, at, cells, g) /\ Cells(g)
  <2>1. g = Put(at, cells) /\ Cells(fork)
    BY <1>1, <1>4 DEF FileInv
  <2>2. QED
    BY <2>1, PutParts
<1>6. PICK r : r = saving'
  OBVIOUS
<1>7. /\ r = [phase |-> r.phase, table |-> r.table, place |-> r.place]
      /\ r.phase = to /\ r.table = saving.table /\ r.place = saving.place
  BY <1>1, <1>6, PhaseIs DEF Phased
<1>8. Written(g, r, n, c)
  <2>1. Listed(fork) /\ Listed(cells)
    BY DEF FileInv, Cells
  <2>2. at + Len(cells) <= BlockArea(n) \/ saving.place <= at
    BY <1>2
  <2>3. QED
    BY <1>3, <1>5, <1>7, <2>1, <2>2, WrittenStays
<1>9. saving.table # <<>>
  BY <1>2, ListedNone
<1>10. SaveInv'
  BY <1>1, <1>2, <1>3, <1>4, <1>6, <1>7, <1>8 DEF SaveInv
<1>11. Kept'
  BY <1>1, <1>6, <1>7, <1>9, KeptSaving
<1>12. Cells(fork')
  BY <1>4, <1>5
<1>13. Bounded' /\ AttrInv' /\ HandleInv' /\ CallInv' /\ InMemory' /\ GotPart' /\ Statuses'
  BY <1>1, <1>12, SavingStays, NotWild
<1>14. QED
  BY <1>10, <1>11, <1>12, <1>13 DEF FileInv

LEMMA SaveHeadWorks ==
  ASSUME FileInv, SaveHead
  PROVE  FileInv'
<1>1. /\ status = "saving" /\ Len(saving.table) = BlocksOf(handle.size)
      /\ SavePart("blocks", "table", 0, <<<<"head">>>>)
  BY DEF SaveHead, SavePart, Saves
<1>2. PICK x : x = <<"head">>
  OBVIOUS
<1>3. x[1] = "head"
  BY <1>2
<1>4. Cell(x)
  BY <1>3 DEF Cell
<1>5. PICK cells : cells = <<x>>
  OBVIOUS
<1>6. Cells(cells) /\ Len(cells) = 1
  BY <1>4, <1>5, OneCell
<1>7. PICK n \in Nat : n = BlocksOf(handle.size)
  BY <1>1, SavingFacts
<1>8. 0 + Len(cells) <= BlockArea(n)
  BY <1>6 DEF BlockArea
<1>9. SavePart("blocks", "table", 0, cells)
  BY <1>1, <1>2, <1>5
<1>10. PICK from, to : from = "blocks" /\ to = "table"
  OBVIOUS
<1>11. SavePart(from, to, 0, cells) /\ from \notin {"inline", "fork"}
       /\ to \in {"table", "end", "fork"}
       /\ to \notin {"end", "fork"}
  BY <1>9, <1>10
<1>12. QED
  BY <1>1, <1>6, <1>7, <1>8, <1>11, PartWorks

(* The table, with the number of blocks in front.                          *)
TableIs(u, n, t) == u = <<<<"n", n>>>> \o Entries(t)

LEMMA TableCells ==
  ASSUME NEW n \in Nat, NEW t, Listed(t), Len(t) = n, \A k \in 1 .. n : Place(t[k]),
         NEW u, TableIs(u, n, t)
  PROVE  /\ Cells(u) /\ Len(u) = 1 + n /\ u[1] = <<"n", n>>
         /\ \A k \in 1 .. n : u[1 + k] = <<"entry", t[k].at, t[k].len>>
<1>1. DOMAIN t = 1 .. n
  <2>1. PICK S : t \in Seq(S)
    BY DEF Listed
  <2>2. QED
    BY <2>1
<1>2. PICK e : e = Entries(t)
  OBVIOUS
<1>3. e = [k \in 1 .. n |-> <<"entry", t[k].at, t[k].len>>]
  BY <1>1, <1>2 DEF Entries
<1>4. DOMAIN e = 1 .. n /\ e = [k \in 1 .. n |-> e[k]]
  BY <1>3
<1>5. Listed(e) /\ Len(e) = n
  BY <1>4, ListedFunction
<1>6. ASSUME NEW k \in 1 .. n PROVE Cell(e[k])
  <2>1. PICK a, l \in Nat : a = t[k].at /\ l = t[k].len
    BY DEF Place
  <2>2. e[k] = <<"entry", a, l>>
    BY <1>3, <2>1
  <2>3. e[k][1] = "entry" /\ e[k][2] = a /\ e[k][3] = l
    BY <2>2
  <2>4. QED
    BY <2>3 DEF Cell
<1>7. Cells(e)
  BY <1>5, <1>6 DEF Cells
<1>8. PICK x : x = <<"n", n>>
  OBVIOUS
<1>9. x[1] = "n" /\ x[2] = n
  BY <1>8
<1>10. Cell(x)
  BY <1>9 DEF Cell
<1>11. PICK h : h = <<x>>
  OBVIOUS
<1>12. Cells(h) /\ Len(h) = 1 /\ h[1] = x
  BY <1>10, <1>11, OneCell
<1>13. u = h \o e
  BY <1>2, <1>8, <1>11 DEF TableIs
<1>14. Chain(h, e, u) /\ Cells(u)
  BY <1>7, <1>12, <1>13, JoinCells
<1>15. Len(u) = 1 + n /\ (\A i \in 1 .. 1 : u[i] = h[i]) /\ \A i \in 1 .. n : u[1 + i] = e[i]
  BY <1>5, <1>12, <1>14 DEF Chain
<1>16. 1 \in 1 .. 1
  OBVIOUS
<1>17. u[1] = x
  BY <1>12, <1>15, <1>16
<1>18. QED
  BY <1>3, <1>8, <1>14, <1>15, <1>17

LEMMA SaveTableWorks ==
  ASSUME FileInv, SaveTable
  PROVE  FileInv'
<1>1. PICK t : t = saving.table
  OBVIOUS
<1>2. PICK u : u = <<<<"n", Len(t)>>>> \o Entries(t)
  OBVIOUS
<1>3. /\ status = "saving" /\ saving.phase = "table" /\ SavePart("table", "end", 1, u)
      /\ fork' = Put(1, u)
  BY <1>1, <1>2 DEF SaveTable, SavePart, Saves
<1>4. PICK n \in Nat : n = BlocksOf(handle.size)
  BY <1>3, SavingFacts
<1>5. Len(t) = n
  BY <1>1, <1>3, <1>4 DEF FileInv, SaveInv
<1>6. Written(fork, saving, n, handle.cached)
  BY <1>3, <1>4, SavingFacts
<1>7. Listed(t) /\ \A k \in 1 .. n : Place(t[k])
  <2>1. Listed(t) /\ \A k \in 1 .. n : InPlace(fork, t, n, saving.place, handle.cached, k)
    BY <1>1, <1>5, <1>6 DEF Written
  <2>2. QED
    BY <2>1 DEF InPlace
<1>8. /\ Cells(u) /\ Len(u) = 1 + n /\ u[1] = <<"n", n>>
      /\ \A k \in 1 .. n : u[1 + k] = <<"entry", t[k].at, t[k].len>>
  <2>1. TableIs(u, n, t)
    BY <1>2, <1>5 DEF TableIs
  <2>2. QED
    BY <1>5, <1>7, <2>1, TableCells
<1>9. PICK g : g = fork'
  OBVIOUS
<1>10. Over(fork, 1, u, g)
  <2>1. g = Put(1, u) /\ Cells(fork)
    BY <1>3, <1>9 DEF FileInv
  <2>2. QED
    BY <1>8, <2>1, PutParts
<1>11. TableWritten(g, t, n)
  <2>1. /\ Listed(g) /\ 1 + (1 + n) <= Len(g)
        /\ \A k \in 1 .. 1 + n : g[1 + k] = u[k]
    BY <1>8, <1>10 DEF Over
  <2>2. Len(g) >= 2 + n
    <3>1. PICK v \in Nat : v = Len(g)
      BY <2>1, ListedLen
    <3>2. 1 + (1 + n) <= v
      BY <2>1, <3>1
    <3>3. v >= 2 + n
      BY <3>2
    <3>4. QED
      BY <3>1, <3>3
  <2>3. g[2] = <<"n", n>>
    <3>1. 1 \in 1 .. 1 + n /\ 1 + 1 = 2
      OBVIOUS
    <3>2. QED
      BY <1>8, <2>1, <3>1
  <2>4. ASSUME NEW k \in 1 .. n PROVE g[k + 2] = <<"entry", t[k].at, t[k].len>>
    <3>1. 1 + k \in 1 .. 1 + n /\ 1 + (1 + k) = k + 2
      OBVIOUS
    <3>2. g[1 + (1 + k)] = u[1 + k]
      BY <2>1, <3>1
    <3>3. QED
      BY <1>8, <3>1, <3>2
  <2>5. QED
    BY <2>2, <2>3, <2>4 DEF TableWritten
<1>12. 1 + Len(u) <= BlockArea(n)
  BY <1>8 DEF BlockArea
<1>13. PICK from, to : from = "table" /\ to = "end"
  OBVIOUS
<1>14. SavePart(from, to, 1, u) /\ from \notin {"inline", "fork"} /\ to \in {"table", "end", "fork"}
  BY <1>3, <1>13
<1>15. TableWritten(fork', saving.table, BlocksOf(handle.size))
  BY <1>1, <1>4, <1>9, <1>11
<1>16. Len(saving.table) = BlocksOf(handle.size)
  BY <1>1, <1>4, <1>5
<1>17. QED
  BY <1>3, <1>4, <1>8, <1>12, <1>14, <1>15, <1>16, PartWorks

LEMMA SaveEndWorks ==
  ASSUME FileInv, SaveEnd
  PROVE  FileInv'
<1>1. PICK x : x = <<"end">>
  OBVIOUS
<1>2. x[1] = "end"
  BY <1>1
<1>3. PICK u : u = <<x>>
  OBVIOUS
<1>4. Cells(u) /\ Listed(u) /\ Len(u) = 1
  BY <1>2, <1>3, OneCell DEF Cell
<1>5. /\ status = "saving" /\ saving.phase = "end" /\ SavePart("end", "fork", saving.place, u)
      /\ fork' = Put(saving.place, u)
  BY <1>1, <1>3 DEF SaveEnd, SavePart, Saves
<1>6. PICK n \in Nat : n = BlocksOf(handle.size)
  BY <1>5, SavingFacts
<1>7. PICK t : t = saving.table
  OBVIOUS
<1>8. Len(t) = n /\ TableWritten(fork, t, n)
  BY <1>5, <1>6, <1>7 DEF FileInv, SaveInv
<1>9. PICK p \in Nat : p = saving.place /\ 2 + n <= p
  BY <1>5, <1>6, SavingFacts DEF Written, BlockArea
<1>10. PICK g : g = fork'
  OBVIOUS
<1>11. Over(fork, p, u, g)
  <2>1. g = Put(p, u) /\ Cells(fork)
    BY <1>5, <1>9, <1>10 DEF FileInv
  <2>2. QED
    BY <1>4, <2>1, PutParts
<1>12. TableWritten(g, t, n)
  <2>1. PICK w \in Nat : w = Len(fork) /\ w >= 2 + n
    BY <1>8, ListedLen DEF TableWritten, FileInv, Cells
  <2>2. Listed(g) /\ w <= Len(g) /\ \A k \in 1 .. w : k <= p => g[k] = fork[k]
    BY <1>11, <2>1 DEF Over
  <2>3. PICK v \in Nat : v = Len(g)
    BY <2>2, ListedLen
  <2>4. Len(g) >= 2 + n
    BY <2>1, <2>2, <2>3
  <2>5. \A k \in 1 .. 2 + n : k \in 1 .. w /\ k <= p
    BY <1>9, <2>1
  <2>6. \A k \in 1 .. 2 + n : g[k] = fork[k]
    BY <2>2, <2>5
  <2>7. 2 \in 1 .. 2 + n /\ \A k \in 1 .. n : k + 2 \in 1 .. 2 + n
    OBVIOUS
  <2>8. g[2] = fork[2] /\ \A k \in 1 .. n : g[k + 2] = fork[k + 2]
    BY <2>6, <2>7
  <2>9. QED
    BY <1>8, <2>4, <2>8 DEF TableWritten
<1>13. PICK from, to : from = "end" /\ to = "fork"
  OBVIOUS
<1>14. SavePart(from, to, p, u) /\ from \notin {"inline", "fork"} /\ to \in {"table", "end", "fork"}
  BY <1>5, <1>9, <1>13
<1>15. TableWritten(fork', saving.table, BlocksOf(handle.size))
  BY <1>6, <1>7, <1>10, <1>12
<1>16. Len(saving.table) = BlocksOf(handle.size) /\ saving.place <= p
  BY <1>6, <1>7, <1>8, <1>9
<1>17. QED
  BY <1>4, <1>5, <1>14, <1>15, <1>16, PartWorks

(* The old attribute is removed: for a moment there is no file.            *)
LEMMA ClearAttributeWorks ==
  ASSUME FileInv, ClearAttribute
  PROVE  FileInv'
<1>1. /\ status = "saving" /\ saving.phase \in {"inline", "fork"}
      /\ attr.kind \in {"inline", "fork"} /\ attr' = NoAttribute
      /\ fork' = fork /\ handle' = handle /\ call' = call /\ saving' = saving
      /\ status' = status /\ saved' = saved /\ stop' = stop
  BY DEF ClearAttribute
<1>2. /\ HandleShape(handle) /\ handle.dirty /\ call.op = "done" /\ CallShape(call)
  BY <1>1, SavingFacts
<1>3. attr'.kind = "none" /\ attr'.size = 0
  BY <1>1 DEF NoAttribute
<1>4. AttrInv' /\ Cells(fork')
  BY <1>1, <1>3 DEF AttrInv, NoKind, FileInv
<1>5. HandleInv' /\ CallInv' /\ GotPart'
  BY <1>1, <1>2 DEF HandleInv, CallInv, GotPart
<1>6. SaveInv'
  <2>1. SaveInv /\ Fits' = Fits
    BY <1>1 DEF FileInv, Fits, BlockNow
  <2>2. QED
    BY <1>1, <2>1 DEF SaveInv
<1>7. Kept'
  BY <1>1, <1>3 DEF Kept, Overwriting
<1>8. InMemory'
  BY <1>1, <1>2 DEF FileInv, InMemory, LiveNow
<1>9. Bounded' /\ Statuses'
  BY <1>1 DEF FileInv, Bounded, Statuses
<1>10. QED
  BY <1>4, <1>5, <1>6, <1>7, <1>8, <1>9 DEF FileInv

(* The attribute is set, last of all: now the file is the new one.         *)
LEMMA NewAttributeWorks ==
  ASSUME FileInv, SetAttribute, attr.kind = "none"
  PROVE  FileInv'
<1>1. /\ status = "saving" /\ saving.phase \in {"inline", "fork"}
      /\ attr' = Attribute(saving.phase)
      /\ handle' = NoHandle /\ saving' = NotSaving /\ status' = "closed"
      /\ saved' = handle.cached
      /\ UNCHANGED <<fork, call, writes, stop>>
  BY DEF SetAttribute
<1>0. stop' = stop /\ stop # "lost" /\ Was' = saved'
  BY <1>1 DEF FileInv, Statuses, Was
<1>2. PICK n \in Nat : n = BlocksOf(handle.size)
  BY <1>1, SavingFacts
<1>3. PICK c : c = handle.cached /\ Listed(c) /\ Len(c) = handle.size /\ Len(c) \in 1 .. MaxSize
  BY <1>1, SavingFacts
<1>4. Written(fork, saving, n, c) /\ call.op = "done" /\ CallShape(call)
  BY <1>1, <1>2, <1>3, SavingFacts
<1>5. PICK a : a = attr'
  OBVIOUS
<1>6. PICK p, d : p = saving.phase /\ d = IF p = "inline" THEN Packed(BlockNow) ELSE <<>>
  OBVIOUS
<1>7. a = [kind |-> p, size |-> Len(c), data |-> d]
  BY <1>1, <1>3, <1>5, <1>6 DEF Attribute
<1>8. a.kind = p /\ a.size = Len(c) /\ a.data = d
  BY <1>7
<1>9. ASSUME p = "inline" PROVE d = Packed(c)
  <2>1. saving.table = <<>> /\ Fits
    BY <1>6, <1>9 DEF FileInv, SaveInv
  <2>2. Len(saving.table) = 0 /\ BlocksOf(Len(c)) <= 1 /\ Len(c) # 0
    BY <1>3, <2>1, ListedNone DEF Fits
  <2>3. BlockNow = c
    BY <1>3, <2>2, OneBlock DEF BlockNow
  <2>4. QED
    BY <1>6, <1>9, <2>3
<1>10. ASSUME p = "fork" PROVE Laid(fork, c)
  <2>1. PICK t : t = saving.table
    OBVIOUS
  <2>2. Len(t) = n /\ TableWritten(fork, t, n)
    BY <1>2, <1>6, <1>10, <2>1 DEF FileInv, SaveInv
  <2>3. n # 0
    BY <1>1, <1>2, SavingFacts
  <2>4. t # <<>>
    BY <2>2, <2>3, ListedNone
  <2>5. PICK w, q \in Nat : w = Len(fork) /\ q = saving.place /\ q <= w
    BY <1>4, <2>1, <2>4, ListedLen DEF Written, FileInv, Cells
  <2>6. \A k \in 1 .. n : InPlace(fork, t, n, q, c, k)
    BY <1>4, <2>1, <2>2, <2>5 DEF Written
  <2>7. /\ Len(fork) >= 2 + n /\ fork[2] = <<"n", n>>
        /\ \A k \in 1 .. n : fork[k + 2] = <<"entry", t[k].at, t[k].len>>
    BY <2>2 DEF TableWritten
  <2>8. ASSUME NEW k \in 1 .. n PROVE LaidBlock(fork, c, k)
    <3>1. /\ Place(t[k]) /\ t[k].at + t[k].len <= q
          /\ Slice(fork, t[k].at, t[k].at + t[k].len) = Packed(NthBlock(c, k - 1))
      BY <2>6 DEF InPlace
    <3>2. PICK at, len \in Nat : at = t[k].at /\ len = t[k].len
      BY <3>1 DEF Place
    <3>3. fork[k + 2] = <<"entry", at, len>>
      BY <2>7, <3>2
    <3>4. at + len <= q
      BY <3>1, <3>2
    <3>5. at + len <= Len(fork)
      BY <2>5, <3>4
    <3>6. Slice(fork, at, at + len) \in Forms(NthBlock(c, k - 1))
      BY <3>1, <3>2 DEF Forms
    <3>7. QED
      BY <3>3, <3>5, <3>6 DEF LaidBlock
  <2>9. Listed(fork) /\ n = BlocksOf(Len(c))
    BY <1>2, <1>3 DEF FileInv, Cells
  <2>10. QED
    BY <2>7, <2>8, <2>9 DEF Laid
<1>11. Regular(a, fork, c)
  BY <1>3, <1>8, <1>9, <1>10 DEF Regular, Forms
<1>12. AttrInv'
  <2>1. a.kind = "inline" => Unpacked(a.data) = c
    BY <1>3, <1>8, <1>9, PackedBack
  <2>2. a.kind \in {"inline", "fork"} /\ a.size \in 1 .. MaxSize
    BY <1>1, <1>3, <1>6, <1>8
  <2>3. a.kind = "inline" => Listed(Unpacked(a.data)) /\ Len(Unpacked(a.data)) = a.size
    BY <1>3, <1>8, <2>1
  <2>4. QED
    BY <1>5, <2>2, <2>3 DEF AttrInv, NoKind
<1>13. Kept'
  BY <1>0, <1>1, <1>3, <1>5, <1>11 DEF Kept
<1>14. HandleInv' /\ SaveInv'
  BY <1>1, NoHandleShape, NoneSaving DEF HandleInv
<1>15. CallInv' /\ GotPart'
  BY <1>1, <1>4 DEF CallInv, GotPart, Was
<1>16. Cells(fork')
  BY <1>1 DEF FileInv
<1>17. (InMemory /\ Bounded /\ Statuses)'
  BY <1>0, <1>1 DEF FileInv, InMemory, Bounded, Statuses
<1>18. QED
  BY <1>12, <1>13, <1>14, <1>15, <1>16, <1>17 DEF FileInv

(* There is no tree to set it in: what is on disk is an empty file.        *)
LEMMA NoTreeWorks ==
  ASSUME FileInv, SetAttribute, attr.kind = "absent"
  PROVE  FileInv'
<1>1. /\ status = "saving" /\ attr' = attr /\ stop' = "lost"
      /\ handle' = NoHandle /\ saving' = NotSaving /\ status' = "closed"
      /\ fork' = fork /\ call' = call
  BY DEF SetAttribute
<1>2. call.op = "done" /\ CallShape(call)
  BY <1>1, SavingFacts
<1>3. AttrInv' /\ Cells(fork')
  BY <1>1, DiskStays
<1>4. HandleInv' /\ SaveInv'
  BY <1>1, NoHandleShape, NoneSaving DEF HandleInv
<1>5. CallInv' /\ GotPart'
  BY <1>1, <1>2 DEF CallInv, GotPart
<1>6. Kept'
  <2>1. Was' = <<>>
    BY <1>1 DEF Was
  <2>2. PICK a, f, c : a = attr /\ f = fork /\ c = <<>>
    OBVIOUS
  <2>3. a.kind = "absent" /\ a.size = 0
    BY <2>2 DEF FileInv, AttrInv, NoKind
  <2>4. Listed(c) /\ Len(c) = 0
    BY <2>2, ListedNone
  <2>5. Regular(a, f, c)
    BY <2>3, <2>4 DEF Regular
  <2>6. QED
    BY <1>1, <2>1, <2>2, <2>5 DEF Kept
<1>7. (InMemory /\ Bounded /\ Statuses)'
  BY <1>1 DEF InMemory, Bounded, Statuses
<1>8. QED
  BY <1>3, <1>4, <1>5, <1>6, <1>7 DEF FileInv

LEMMA SetAttributeWorks ==
  ASSUME FileInv, SetAttribute
  PROVE  FileInv'
  BY NewAttributeWorks, NoTreeWorks DEF SetAttribute

LEMMA FileStep ==
  ASSUME FileInv, [Next]_vars
  PROVE  FileInv'
<1>1. CASE Open
  BY <1>1, OpenWorks
<1>2. CASE \E at \in 0 .. MaxSize : \E n \in 1 .. MaxSize : Read(at, n)
  BY <1>2, ReadWorks
<1>3. CASE \E at \in 0 .. MaxSize : \E s \in Data : Write(at, s)
  BY <1>3, WriteWorks
<1>4. CASE Turn
  BY <1>4, TurnWorks
<1>5. CASE Change
  BY <1>5, ChangeWorks
<1>6. CASE Close
  BY <1>6, CloseWorks
<1>7. CASE Save
  BY <1>7, SaveInlineWorks, SaveBlockWorks, SaveHeadWorks, SaveTableWorks, SaveEndWorks,
     ClearAttributeWorks, SetAttributeWorks DEF Save
<1>8. CASE Stop
  BY <1>8, StopWorks
<1>9. CASE UNCHANGED vars
  BY <1>9, StutterWorks
<1>10. QED
  BY <1>1, <1>2, <1>3, <1>4, <1>5, <1>6, <1>7, <1>8, <1>9 DEF Next

-----------------------------------------------------------------------------
(***************************************************************************)
(* The theorems.                                                           *)
(***************************************************************************)

(* hfs/hfscompress.c: of every file, whatever the sizes of blocks and      *)
(* attributes: the table names the blocks and the blocks are the contents, *)
(* but while they are written over; what is in memory is a piece of them;  *)
(* a call has got the bytes from its beginning on.                         *)
THEOREM FileInductive == Spec => []FileInv
<1>1. Init => FileInv
  BY FileInitially
<1>2. FileInv /\ [Next]_vars => FileInv'
  BY FileStep
<1>3. QED
  BY <1>1, <1>2, PTL DEF Spec

(* hfscompress.c:22-110, 119-221: the handle's window is as long as what   *)
(* is in it, a changed file is in memory as a whole, and nothing is being  *)
(* saved but while the file is closed.                                     *)
THEOREM FileTypes == Spec => []TypeOK
<1>1. FileInv => TypeOK
  <2> SUFFICES ASSUME FileInv PROVE TypeOK
    OBVIOUS
  <2>1. Statuses /\ AttrInv /\ HandleInv /\ CallInv /\ SaveInv /\ InMemory
    BY DEF FileInv
  <2>2. HandleShape(handle) /\ CallShape(call)
    BY <2>1 DEF HandleInv, CallInv
  <2>3. handle.end = handle.start + Len(handle.cached)
    BY <2>2 DEF HandleShape
  <2>4. handle.dirty => Whole /\ handle.size \in 1 .. MaxSize
    <3>1. PICK y \in 0 .. MaxSize : y = handle.size
      BY <2>2 DEF HandleShape
    <3>2. y # 0 => y \in 1 .. MaxSize
      BY BlockAssumption
    <3>3. QED
      BY <2>2, <3>1, <3>2 DEF HandleShape, Whole
  <2>5. status = "saving" <=> saving.phase # "none" /\ status # "wild"
    <3>1. status # "saving" /\ status # "wild" => saving.phase = "none"
      BY <2>1, NoSaving DEF SaveInv
    <3>2. status = "saving" => saving.phase # "none"
      BY <2>1 DEF SaveInv
    <3>3. QED
      BY <3>1, <3>2
  <2>6. stop # "torn" => handle.end <= handle.size
    <3>1. CASE status = "closed"
      <4>1. PICK h : h = handle /\ h = NoHandle
        BY <2>1, <3>1 DEF HandleInv
      <4>2. h.end = 0 /\ h.size = 0
        BY <4>1 DEF NoHandle
      <4>3. QED
        BY <4>1, <4>2
    <3>2. CASE status # "closed"
      BY <2>1, <3>2 DEF InMemory, Was
    <3>3. QED
      BY <3>1, <3>2
  <2>7. Len(call.got) <= call.want /\ call.op \in {"done", "read", "gather", "change"}
    BY <2>2 DEF CallShape
  <2>8. /\ attr.kind \in {"absent", "none", "inline", "fork"}
        /\ status \in {"closed", "open", "saving", "wild", "exited"}
        /\ stop \in {"never", "harmless", "torn", "lost"}
        /\ saving.phase \in {"none", "blocks", "inline", "table", "end", "fork"}
    BY <2>1 DEF Statuses, AttrInv, SaveInv
  <2>9. QED
    BY <2>3, <2>4, <2>5, <2>6, <2>7, <2>8 DEF TypeOK
<1>2. QED
  BY <1>1, FileInductive, PTL

LEMMA ContentsKept ==
  ASSUME FileInv, stop # "torn", ~Overwriting
  PROVE  Contents = Was
<1>1. Regular(attr, fork, Was) /\ AttrInv
  BY DEF FileInv, Kept, Was
<1>2. /\ attr.kind \in {"absent", "none", "inline", "fork"}
      /\ attr.kind \in NoKind => attr.size = 0
  BY <1>1 DEF AttrInv
<1>3. Held(attr, fork) = Was
  BY <1>1, <1>2, RegularHeld
<1>4. QED
  BY <1>3, ContentsHeld

(* hfscompress.c:119-221: what was closed is what is opened again; a       *)
(* program that ends anywhere leaves the old contents or the new ones,     *)
(* unless it had begun to write over a fork that held the old ones, or was *)
(* between the two writes of the attribute.  Left out is a volume without  *)
(* an attributes tree, where setAttribute writes nothing (xattr.c:263).    *)
THEOREM ClosedIsReadBack == Spec => []SavedIsReadBack
<1>1. FileInv => SavedIsReadBack
  <2> SUFFICES ASSUME FileInv, status = "closed", stop # "torn" PROVE Contents = Was
    BY DEF SavedIsReadBack, Was
  <2>1. saving = NotSaving
    BY NotOverwriting
  <2>2. ~Overwriting
    BY <2>1, NoSaving DEF Overwriting
  <2>3. QED
    BY <2>2, ContentsKept
<1>2. QED
  BY <1>1, FileInductive, PTL

(* hfscompress.c:47-75, 176-181: reads stay within the table and the fork, *)
(* and saving leaves the attribute's buffer only if the file has come to   *)
(* need more room in it than the file that was opened.                     *)
THEOREM OnlyOutgrownIsWild == Spec => []WildOnlyOutgrown
<1>1. FileInv => WildOnlyOutgrown
  BY DEF FileInv, Bounded, WildOnlyOutgrown
<1>2. QED
  BY <1>1, FileInductive, PTL

-----------------------------------------------------------------------------
(* The file is a file.                                                     *)

LEMMA LiveIs ==
  ASSUME FileInv, stop # "torn"
  PROVE  Live = LiveNow
<1>1. CASE handle.dirty
  BY <1>1 DEF Live, LiveNow, Was
<1>2. CASE ~handle.dirty
  <2>1. saving.phase = "none" /\ saving = NotSaving
    BY <1>2 DEF FileInv, SaveInv
  <2>2. ~Overwriting
    BY <2>1, NoSaving DEF Overwriting
  <2>3. QED
    BY <1>2, <2>2, ContentsKept DEF Live, LiveNow, Was
<1>3. QED
  BY <1>1, <1>2

(* A file that is closed, and opened: on disk nothing changes.             *)
LEMMA LiveOnDisk ==
  ASSUME UNCHANGED <<attr, fork>>, ~handle.dirty, ~handle'.dirty
  PROVE  Live' = Live
<1>1. attr' = attr /\ fork' = fork
  OBVIOUS
<1>2. Contents' = Contents
  BY <1>1 DEF Contents
<1>3. QED
  BY <1>2 DEF Live

LEMMA LiveInMemory ==
  ASSUME UNCHANGED <<attr, fork, handle>>
  PROVE  Live' = Live
<1>1. attr' = attr /\ fork' = fork /\ handle' = handle
  OBVIOUS
<1>2. Contents' = Contents
  BY <1>1 DEF Contents
<1>3. QED
  BY <1>1, <1>2 DEF Live

LEMMA NoHandleClean == ~NoHandle.dirty
  BY DEF NoHandle

LEMMA FailStep ==
  ASSUME ~Ended, Ended'
  PROVE  Bytes!Fail
  BY DEF Bytes!Fail

LEMMA SeekStep ==
  ASSUME ~Ended, ~Ended', Live' = Live, call'.op # "done" \/ call' = NoCall
  PROVE  Bytes!Seek
<1>1. Bytes!Stays
  BY DEF Bytes!Stays
<1>2. (IF Ended' \/ call'.op # "done"
       THEN [at |-> 0, want |-> 0, bytes |-> <<>>]
       ELSE [at |-> call'.at, want |-> call'.want,
             bytes |-> IF call'.data # <<>> THEN call'.data ELSE call'.got]) = Bytes!None
  <2>1. CASE call'.op # "done"
    BY <2>1 DEF Bytes!None
  <2>2. CASE call' = NoCall
    <3>1. call'.at = 0 /\ call'.want = 0 /\ call'.got = <<>> /\ call'.data = <<>>
      BY <2>2, NoCallFacts
    <3>2. QED
      BY <3>1 DEF Bytes!None
  <2>3. QED
    BY <2>1, <2>2
<1>3. 0 \in Nat
  OBVIOUS
<1>4. QED
  BY <1>1, <1>2, <1>3 DEF Bytes!Seek

LEMMA SameStep ==
  ASSUME ~Ended, ~Ended', Live' = Live, call' = call
  PROVE  UNCHANGED Bytes!byteVars
  BY DEF Bytes!byteVars

LEMMA EndStep ==
  ASSUME Ended, Ended'
  PROVE  UNCHANGED Bytes!byteVars
  BY DEF Bytes!byteVars

(* A file that failed, or was stopped, is not looked at any more.          *)
LEMMA EndedStays ==
  ASSUME [Next]_vars, Ended
  PROVE  Ended'
<1>1. CASE UNCHANGED vars
  BY <1>1 DEF vars, Ended
<1>2. CASE Open
  BY <1>2 DEF Open, Ended
<1>3. CASE \E at \in 0 .. MaxSize : \E n \in 1 .. MaxSize : Read(at, n)
  BY <1>3 DEF Read, Calls, Quiet, Ended
<1>4. CASE \E at \in 0 .. MaxSize : \E s \in Data : Write(at, s)
  BY <1>4 DEF Write, Calls, Quiet, Ended
<1>5. CASE Turn
  BY <1>5 DEF Turn, Ended
<1>6. CASE Change
  BY <1>6 DEF Change, Ended
<1>7. CASE Close
  BY <1>7 DEF Close, Quiet, Ended
<1>8. CASE Save
  <2>1. status = "saving" /\ stop' \in {stop, "lost"}
    BY <1>8 DEF Save, SaveInline, SaveBlock, SaveHead, SaveTable, SaveEnd, SavePart, Saves,
                ClearAttribute, SetAttribute
  <2>2. QED
    BY <2>1 DEF Ended
<1>9. CASE Stop
  BY <1>9 DEF Stop, Ended
<1>10. QED
  BY <1>1, <1>2, <1>3, <1>4, <1>5, <1>6, <1>7, <1>8, <1>9 DEF Next

LEMMA OpenIsSeek ==
  ASSUME FileInv, Open, ~Ended, ~Ended'
  PROVE  Bytes!Seek
<1>1. status = "closed" /\ call' = NoCall /\ attr' = attr /\ fork' = fork
  BY DEF Open
<1>2. handle = NoHandle
  BY <1>1 DEF FileInv, HandleInv
<1>3. ~handle.dirty
  BY <1>2, NoHandleClean
<1>4. status' = "open"
  BY <1>1 DEF Open, Ended, FileInv, AttrInv
<1>5. ~handle'.dirty
  <2>1. PICK h : h = NoHandle
    OBVIOUS
  <2>2. \A x, y : ~[h EXCEPT !.size = x, !.room = y].dirty
    BY <2>1 DEF NoHandle
  <2>3. PICK o : o = Opened
    OBVIOUS
  <2>4. o = [size |-> attr.size, room |-> Len(attr.data), blocks |-> <<>>, cached |-> <<>>,
             start |-> 0, end |-> 0, dirty |-> FALSE]
    BY <2>3 DEF Opened, NoHandle
  <2>5. ~o.dirty
    BY <2>4
  <2>6. CASE attr.kind \in NoKind
    <3>1. handle' = [o EXCEPT !.room = InlineRoom]
      BY <2>3, <2>6 DEF Open, NoKind
    <3>2. PICK g : g = handle'
      OBVIOUS
    <3>3. g.dirty = o.dirty
      BY <2>4, <3>1, <3>2
    <3>4. QED
      BY <2>5, <3>2, <3>3, Zenon
  <2>7. CASE attr.kind = "inline"
    <3>1. PICK c, e : c = Unpacked(attr.data) /\ e = Len(Unpacked(attr.data))
      OBVIOUS
    <3>2. handle' = [o EXCEPT !.cached = c, !.end = e]
      BY <2>3, <2>7, <3>1 DEF Open
    <3>3. PICK g : g = handle'
      OBVIOUS
    <3>4. g.dirty = o.dirty
      BY <2>4, <3>2, <3>3
    <3>5. QED
      BY <2>5, <3>3, <3>4, Zenon
  <2>8. CASE attr.kind = "fork"
    <3>1. IsTable(fork)
      BY <1>4, <2>8 DEF Open
    <3>2. PICK t : t = Table(fork)
      OBVIOUS
    <3>3. handle' = [o EXCEPT !.blocks = t]
      BY <2>3, <2>8, <3>1, <3>2 DEF Open
    <3>4. PICK g : g = handle'
      OBVIOUS
    <3>5. g.dirty = o.dirty
      BY <2>4, <3>3, <3>4
    <3>6. QED
      BY <2>5, <3>4, <3>5, Zenon
  <2>9. QED
    BY <2>6, <2>7, <2>8 DEF FileInv, AttrInv, NoKind
<1>6. Live' = Live
  BY <1>1, <1>3, <1>5, LiveOnDisk
<1>7. QED
  BY <1>1, <1>6, SeekStep

LEMMA BeginIsSeek ==
  ASSUME ~Ended, ~Ended', UNCHANGED <<attr, fork, handle>>,
         call' = NoCall \/ call'.op # "done"
  PROVE  Bytes!Seek
<1>1. Live' = Live
  BY LiveInMemory
<1>2. QED
  BY <1>1, SeekStep

LEMMA CallsAre ==
  ASSUME NEW c, NEW o, NEW at, NEW w, NEW d,
         \/ c = [NoCall EXCEPT !.op = o, !.at = at, !.want = w]
         \/ c = [NoCall EXCEPT !.op = o, !.at = at, !.data = d, !.want = w]
  PROVE  c.op = o
<1>1. PICK m : m = NoCall
  OBVIOUS
<1>2. m = [op |-> "done", at |-> 0, want |-> 0, got |-> <<>>, data |-> <<>>]
  BY <1>1 DEF NoCall
<1>3. "op" \in DOMAIN m
  BY <1>2
<1>4. PICK x : x = [m EXCEPT !.op = o]
  OBVIOUS
<1>5. x = [op |-> o, at |-> 0, want |-> 0, got |-> <<>>, data |-> <<>>]
  BY <1>2, <1>4
<1>6. PICK y : y = [x EXCEPT !.at = at]
  OBVIOUS
<1>7. y = [op |-> o, at |-> at, want |-> 0, got |-> <<>>, data |-> <<>>]
  BY <1>5, <1>6
<1>8. CASE c = [NoCall EXCEPT !.op = o, !.at = at, !.want = w]
  <2>1. c = [y EXCEPT !.want = w]
    BY <1>1, <1>4, <1>6, <1>8
  <2>2. c = [op |-> o, at |-> at, want |-> w, got |-> <<>>, data |-> <<>>]
    BY <1>7, <2>1
  <2>3. QED
    BY <2>2
<1>9. CASE c = [NoCall EXCEPT !.op = o, !.at = at, !.data = d, !.want = w]
  <2>1. PICK z : z = [y EXCEPT !.data = d]
    OBVIOUS
  <2>2. z = [op |-> o, at |-> at, want |-> 0, got |-> <<>>, data |-> d]
    BY <1>7, <2>1
  <2>3. c = [z EXCEPT !.want = w]
    BY <1>1, <1>4, <1>6, <1>9, <2>1
  <2>4. c = [op |-> o, at |-> at, want |-> w, got |-> <<>>, data |-> d]
    BY <2>2, <2>3
  <2>5. QED
    BY <2>4
<1>10. QED
  BY <1>8, <1>9

LEMMA ReadIsSeek ==
  ASSUME ~Ended, ~Ended', NEW at, NEW n, Read(at, n)
  PROVE  Bytes!Seek
<1>1. PICK o : o = "read"
  OBVIOUS
<1>2. call' = [NoCall EXCEPT !.op = o, !.at = at, !.want = n]
  BY <1>1 DEF Read, Calls
<1>3. PICK c : c = call'
  OBVIOUS
<1>4. c.op = o
  BY <1>2, <1>3, CallsAre
<1>5. call'.op # "done" /\ UNCHANGED <<attr, fork, handle>>
  BY <1>1, <1>3, <1>4 DEF Read, Calls
<1>6. QED
  BY <1>5, BeginIsSeek

LEMMA WriteIsSeek ==
  ASSUME ~Ended, ~Ended', NEW at, NEW s, Write(at, s)
  PROVE  Bytes!Seek
<1>1. PICK o, w : /\ o = IF Whole THEN "change" ELSE "gather"
                  /\ w = IF Whole THEN 0 ELSE handle.size
  OBVIOUS
<1>2. call' = [NoCall EXCEPT !.op = o, !.at = at, !.data = s, !.want = w]
  BY <1>1 DEF Write, Calls
<1>3. PICK c : c = call'
  OBVIOUS
<1>4. c.op = o
  BY <1>2, <1>3, CallsAre
<1>5. call'.op # "done" /\ UNCHANGED <<attr, fork, handle>>
  BY <1>1, <1>3, <1>4 DEF Write, Calls
<1>6. QED
  BY <1>5, BeginIsSeek

(* A turn: nothing is known of the call yet, or it answers.                *)
LEMMA TurnIs ==
  ASSUME FileInv, Turn, ~Ended'
  PROVE  /\ ~Ended /\ Live' = Live
         /\ \/ call'.op # "done"
            \/ \E g : /\ Got(g) /\ Len(g) = call.want /\ call.op = "read"
                      /\ CallIs(call', "done", call.at, call.want, g, call.data)
<1>1. /\ status = "open" /\ call.op \in {"read", "gather"}
      /\ UNCHANGED <<attr, fork, saving, writes, saved, stop>>
  BY DEF Turn
<1>2. ~Ended
  BY <1>1 DEF Ended
<1>3. PICK g : Got(g)
  BY <1>1, AfterParts
<1>4. CallIs(After, call.op, call.at, call.want, g, call.data) /\ (Whole => Len(g) = call.want)
  BY <1>3 DEF Got
<1>5. PICK a : a = After
  OBVIOUS
<1>6. /\ a = [op |-> call.op, at |-> call.at, want |-> call.want, got |-> g, data |-> call.data]
      /\ a.op = call.op /\ a.want = call.want /\ a.got = g
  BY <1>4, <1>5 DEF CallIs
<1>7. PICK w, n \in Nat : w = call.want /\ n = Len(g)
  BY <1>1, <1>3, ListedLen, ReadingFacts DEF Got
<1>8. Missing(After) = w - n
  BY <1>5, <1>6, <1>7 DEF Missing
<1>9. CASE n = w
  <2>1. Missing(After) = 0
    BY <1>8, <1>9
  <2>2. /\ call' = [After EXCEPT !.op = IF @ = "read" THEN "done" ELSE "change"]
        /\ handle' = handle
    BY <2>1 DEF Turn
  <2>3. Live' = Live
    BY <1>1, <2>2, LiveInMemory
  <2>4. PICK o : o = IF call.op = "read" THEN "done" ELSE "change"
    OBVIOUS
  <2>5. PICK c : c = call'
    OBVIOUS
  <2>6. c = [a EXCEPT !.op = o]
    BY <1>5, <1>6, <2>2, <2>4, <2>5
  <2>7. c = [op |-> o, at |-> call.at, want |-> call.want, got |-> g, data |-> call.data]
    BY <1>6, <2>6
  <2>8. c.op = o
    BY <2>7
  <2>9. CASE call.op = "read"
    <3>1. CallIs(call', "done", call.at, call.want, g, call.data)
      BY <2>4, <2>5, <2>7, <2>9 DEF CallIs
    <3>2. QED
      BY <1>2, <1>3, <1>7, <1>9, <2>3, <2>9, <3>1
  <2>10. CASE call.op # "read"
    <3>1. call'.op # "done"
      BY <2>4, <2>5, <2>8, <2>10
    <3>2. QED
      BY <1>2, <2>3, <3>1
  <2>11. QED
    BY <2>9, <2>10
<1>10. CASE n # w
  <2>1. Missing(After) # 0
    BY <1>7, <1>8, <1>10
  <2>2. PICK q : q = Here + Len(After.got) - Len(call.got)
    OBVIOUS
  <2>3. call' = After /\ LoadBlock(q)
    BY <2>1, <2>2 DEF Turn
  <2>4. call'.op # "done"
    BY <1>1, <1>5, <1>6, <2>3
  <2>5. ~Whole /\ HandleShape(handle)
    BY <1>4, <1>7, <1>10 DEF FileInv, HandleInv
  <2>6. ~handle.dirty
    BY <2>5 DEF HandleShape, Whole
  <2>7. status' # "wild" /\ status' # "exited"
    BY DEF Ended
  <2>8. PICK i, e : i = BlockAt(q) /\ e = handle.blocks[i + 1]
    OBVIOUS
  <2>9. \E out : handle' = [handle EXCEPT !.cached = out, !.start = i * Block,
                                          !.end = i * Block + Len(out)]
    BY <2>3, <2>7, <2>8 DEF LoadBlock
  <2>10. PICK out : handle' = [handle EXCEPT !.cached = out, !.start = i * Block,
                                             !.end = i * Block + Len(out)]
    BY <2>9
  <2>11. PICK h, g2 : h = handle /\ g2 = handle'
    OBVIOUS
  <2>12. ~g2.dirty
    <3>1. PICK z, x : z = i * Block /\ x = i * Block + Len(out)
      OBVIOUS
    <3>2. g2 = [h EXCEPT !.cached = out, !.start = z, !.end = x]
      BY <2>10, <2>11, <3>1
    <3>3. PICK s, r, b, d, u, v, y : /\ s = h.size /\ r = h.room /\ b = h.blocks /\ d = h.dirty
                                     /\ u = h.cached /\ v = h.start /\ y = h.end
      OBVIOUS
    <3>4. h = [size |-> s, room |-> r, blocks |-> b, cached |-> u, start |-> v, end |-> y,
               dirty |-> d]
      BY <2>5, <2>11, <3>3 DEF HandleShape
    <3>5. PICK k : k = [h EXCEPT !.cached = out]
      OBVIOUS
    <3>6. k = [size |-> s, room |-> r, blocks |-> b, cached |-> out, start |-> v, end |-> y,
               dirty |-> d]
      BY <3>4, <3>5
    <3>7. PICK l : l = [k EXCEPT !.start = z]
      OBVIOUS
    <3>8. l = [size |-> s, room |-> r, blocks |-> b, cached |-> out, start |-> z, end |-> y,
               dirty |-> d]
      BY <3>6, <3>7
    <3>9. g2 = [l EXCEPT !.end = x]
      BY <3>2, <3>5, <3>7
    <3>10. g2 = [size |-> s, room |-> r, blocks |-> b, cached |-> out, start |-> z, end |-> x,
                 dirty |-> d]
      BY <3>8, <3>9
    <3>11. g2.dirty = d
      BY <3>10
    <3>12. QED
      BY <2>6, <2>11, <3>3, <3>11, Zenon
  <2>13. Live' = Live
    BY <1>1, <2>6, <2>11, <2>12, LiveOnDisk
  <2>14. QED
    BY <1>2, <2>4, <2>13
<1>11. QED
  BY <1>9, <1>10

(* The bytes that were read are those that were due.                       *)
LEMMA TurnReads ==
  ASSUME FileInv, Turn, ~Ended', NEW g, Got(g), Len(g) = call.want, call.op = "read"
  PROVE  g = Bytes!Due(Live, call.at, call.want)
<1>1. status = "open" /\ stop # "torn"
  BY DEF Turn, Ended
<1>2. Live = LiveNow
  BY <1>1, LiveIs
<1>3. PICK c : c = LiveNow /\ Listed(c) /\ Len(c) = handle.size
  BY <1>1 DEF FileInv, InMemory, Was
<1>4. PICK b, w \in Nat : b = call.at /\ w = call.want /\ b + w <= Len(c)
  BY <1>1, <1>3, ReadingFacts DEF Base
<1>5. Listed(g) /\ Len(g) = w /\ PieceOf(g, c, b)
  BY <1>1, <1>3, <1>4 DEF Got, Base
<1>6. PICK to \in Nat : to = b + w
  BY <1>4
<1>7. Bytes!Due(Live, call.at, call.want) = Slice(c, b, to)
  <2>1. Bytes!Due(Live, call.at, call.want) = SubSeq(c, b + 1, IF to <= Len(c) THEN to ELSE Len(c))
    BY <1>2, <1>3, <1>4, <1>6 DEF Bytes!Due, Bytes!Nearer
  <2>2. QED
    BY <2>1 DEF Slice, Smaller
<1>8. Slice(c, b, b + Len(g)) = g
  <2>1. \A k \in 1 .. Len(g) : c[b + k] = g[k]
    BY <1>5 DEF PieceOf
  <2>2. b + Len(g) <= Len(c)
    BY <1>4, <1>5
  <2>3. QED
    BY <1>3, <1>4, <1>5, <2>1, <2>2, SliceIs
<1>9. QED
  BY <1>5, <1>6, <1>7, <1>8

LEMMA TurnIsRead ==
  ASSUME FileInv, Turn, ~Ended'
  PROVE  Bytes!FileNext
<1>1. ~Ended /\ Live' = Live
  BY TurnIs
<1>2. CASE call'.op # "done"
  BY <1>1, <1>2, SeekStep DEF Bytes!FileNext
<1>3. CASE call'.op = "done"
  <2>1. PICK g : /\ Got(g) /\ Len(g) = call.want /\ call.op = "read"
                 /\ CallIs(call', "done", call.at, call.want, g, call.data)
    BY <1>3, TurnIs
  <2>2. g = Bytes!Due(Live, call.at, call.want)
    BY <2>1, TurnReads
  <2>3. PICK c : c = call'
    OBVIOUS
  <2>4. /\ c.op = "done" /\ c.at = call.at /\ c.want = call.want /\ c.got = g
        /\ c.data = <<>>
    BY <2>1, <2>3 DEF CallIs, FileInv, CallInv
  <2>5. PICK a : a = [at |-> call.at, want |-> call.want, bytes |-> g]
    OBVIOUS
  <2>6. a.at = call.at /\ a.want = call.want /\ a.bytes = g
    BY <2>5
  <2>7. (IF Ended' \/ call'.op # "done"
         THEN [at |-> 0, want |-> 0, bytes |-> <<>>]
         ELSE [at |-> call'.at, want |-> call'.want,
               bytes |-> IF call'.data # <<>> THEN call'.data ELSE call'.got]) = a
    BY <2>3, <2>4, <2>5
  <2>8. Bytes!Stays
    BY <1>1 DEF Bytes!Stays
  <2>9. Bytes!Answers
    BY <1>1, <2>2, <2>6, <2>7, <2>8 DEF Bytes!Answers
  <2>10. Bytes!ReadAt
    BY <2>9 DEF Bytes!ReadAt
  <2>11. QED
    BY <2>10 DEF Bytes!FileNext
<1>4. QED
  BY <1>2, <1>3

(* Which bytes a change changes.                                           *)
LEMMA ChangedBytes ==
  ASSUME NEW bytes, Listed(bytes), NEW at \in Nat, NEW s, Listed(s), NEW u,
         u = Changed(bytes, at, s)
  PROVE  /\ Listed(u) /\ Len(bytes) <= Len(u) /\ at + Len(s) <= Len(u)
         /\ \A k \in 1 .. Len(s) : u[at + k] = s[k]
         /\ \A k \in 1 .. Len(bytes) : k <= at \/ k > at + Len(s) => u[k] = bytes[k]
<1>1. PICK m, n \in Nat : m = Len(bytes) /\ n = Len(s)
  BY ListedLen
<1>2. PICK l \in Nat : l = IF at + n > m THEN at + n ELSE m
  OBVIOUS
<1>3. u = [k \in 1 .. l |-> IF k > at /\ k <= at + n THEN s[k - at]
                            ELSE IF k <= m THEN bytes[k] ELSE Junk]
  BY <1>1, <1>2 DEF Changed
<1>4. DOMAIN u = 1 .. l /\ u = [k \in 1 .. l |-> u[k]]
  BY <1>3
<1>5. Listed(u) /\ Len(u) = l
  BY <1>4, ListedFunction
<1>6. m <= l /\ at + n <= l
  BY <1>2
<1>7. ASSUME NEW k \in 1 .. n PROVE u[at + k] = s[k]
  <2>1. at + k \in 1 .. l /\ at + k > at /\ at + k <= at + n /\ at + k - at = k
    BY <1>6
  <2>2. QED
    BY <1>3, <2>1
<1>8. ASSUME NEW k \in 1 .. m, k <= at \/ k > at + n PROVE u[k] = bytes[k]
  <2>1. k \in 1 .. l /\ ~(k > at /\ k <= at + n) /\ k <= m
    BY <1>6, <1>8
  <2>2. QED
    BY <1>3, <2>1
<1>9. QED
  BY <1>1, <1>5, <1>6, <1>7, <1>8

LEMMA ListedDomain ==
  ASSUME NEW s, Listed(s)
  PROVE  DOMAIN s = 1 .. Len(s)
<1>1. PICK S : s \in Seq(S)
  BY DEF Listed
<1>2. QED
  BY <1>1

LEMMA ChangeIsWrite ==
  ASSUME FileInv, Change, ~Ended, ~Ended'
  PROVE  Bytes!Write
<1>1. PICK u : u = Changed(Before, call.at, call.data)
  OBVIOUS
<1>2. /\ status = "open" /\ call.op = "change" /\ stop # "torn"
      /\ handle' = [handle EXCEPT !.cached = u, !.start = 0, !.end = Len(u),
                                  !.size = Len(u), !.dirty = TRUE]
      /\ call' = [call EXCEPT !.op = "done"]
  BY <1>1 DEF Change, Before, Ended
<1>3. HandleShape(handle) /\ CallShape(call)
  BY DEF FileInv, CallInv, HandleInv
<1>4. /\ Listed(Before) /\ call.at \in Nat /\ Listed(call.data) /\ Before = LiveNow
      /\ Listed(u) /\ Len(u) \in 1 .. MaxSize
  BY <1>1, <1>2, ChangeParts
<1>5. Live = LiveNow
  BY <1>2, LiveIs
<1>6. PICK b, at, s : b = Live /\ at = call.at /\ s = call.data
  OBVIOUS
<1>7. /\ Listed(b) /\ at \in Nat /\ Listed(s) /\ u = Changed(b, at, s)
  BY <1>1, <1>4, <1>5, <1>6
<1>8. /\ Len(b) <= Len(u) /\ at + Len(s) <= Len(u)
      /\ \A k \in 1 .. Len(s) : u[at + k] = s[k]
      /\ \A k \in 1 .. Len(b) : k <= at \/ k > at + Len(s) => u[k] = b[k]
  BY <1>7, ChangedBytes
<1>9. DOMAIN b = 1 .. Len(b) /\ DOMAIN s = 1 .. Len(s)
  BY <1>7, ListedDomain
<1>10. PICK m, n, l \in Nat : m = Len(b) /\ n = Len(s) /\ l = Len(u)
  BY <1>4, <1>7, ListedLen
<1>11. Live' = u
  <2>1. PICK h : h = handle'
    OBVIOUS
  <2>2. PICK o : o = handle
    OBVIOUS
  <2>3. Soils(h, o, u) /\ HandleShape(o)
    BY <1>2, <1>3, <2>1, <2>2 DEF Soils
  <2>4. h.cached = u /\ h.dirty
    BY <1>4, <2>3, SoiledIs
  <2>5. QED
    BY <2>1, <2>4 DEF Live
<1>12. PICK c : c = call'
  OBVIOUS
<1>13. CallShape(c) /\ c.op = "done" /\ c.at = at /\ c.want = call.want /\ c.data = s
  BY <1>2, <1>3, <1>6, <1>12, CallDone
<1>14. s # <<>>
  BY <1>2, <1>6, BlockAssumption DEF FileInv, CallInv
<1>15. PICK a : a = [at |-> at, want |-> call.want, bytes |-> s]
  OBVIOUS
<1>16. a.at = at /\ a.bytes = s
  BY <1>15
<1>17. (IF Ended' \/ call'.op # "done"
        THEN [at |-> 0, want |-> 0, bytes |-> <<>>]
        ELSE [at |-> call'.at, want |-> call'.want,
              bytes |-> IF call'.data # <<>> THEN call'.data ELSE call'.got]) = a
  BY <1>12, <1>13, <1>14, <1>15
<1>18. Bytes!End(a) = at + n
  BY <1>10, <1>16 DEF Bytes!End
<1>19. Bytes!Stays
  BY DEF Bytes!Stays
<1>20. (IF Ended' THEN <<>> ELSE Live') = u /\ (IF Ended THEN <<>> ELSE Live) = b
  BY <1>6, <1>11
<1>21. Len(u) >= Len(b) /\ at + n <= Len(u)
  BY <1>8, <1>10
<1>22. \A i \in DOMAIN s : u[at + i] = s[i]
  BY <1>8, <1>9
<1>23. \A i \in DOMAIN b : i <= at \/ i > at + n => u[i] = b[i]
  BY <1>8, <1>9, <1>10
<1>24. QED
  BY <1>16, <1>17, <1>18, <1>19, <1>20, <1>21, <1>22, <1>23 DEF Bytes!Write

LEMMA CloseIsSeek ==
  ASSUME FileInv, Close, ~Ended, ~Ended'
  PROVE  Bytes!Seek
<1>1. call' = NoCall /\ attr' = attr /\ fork' = fork
  BY DEF Close
<1>2. CASE handle.dirty
  BY <1>1, <1>2, BeginIsSeek DEF Close
<1>3. CASE ~handle.dirty
  <2>1. handle' = NoHandle
    BY <1>3 DEF Close
  <2>2. ~handle'.dirty
    BY <2>1, NoHandleClean
  <2>3. Live' = Live
    BY <1>1, <1>3, <2>2, LiveOnDisk
  <2>4. QED
    BY <1>1, <2>3, SeekStep
<1>4. QED
  BY <1>2, <1>3

(* Of saving nothing is seen, and what is on disk then is what was there   *)
(* in memory.                                                              *)
LEMMA SaveIsSame ==
  ASSUME FileInv, Save, ~Ended, ~Ended'
  PROVE  UNCHANGED Bytes!byteVars
<1>1. status = "saving" /\ stop # "torn"
  BY DEF Save, SaveInline, SaveBlock, SaveHead, SaveTable, SaveEnd, SavePart, Saves,
         ClearAttribute, SetAttribute, Ended
<1>2. handle.dirty
  BY <1>1, SavingFacts
<1>3. CASE SetAttribute
  <2>1. FileInv'
    BY <1>3, SetAttributeWorks
  <2>2. /\ handle' = NoHandle /\ saving' = NotSaving /\ saved' = handle.cached
        /\ call' = call /\ stop' = stop /\ stop # "lost"
    BY <1>3 DEF SetAttribute, Ended
  <2>3. saving'.table = <<>> /\ saving'.phase = "none"
    BY <2>2 DEF NotSaving
  <2>4. Regular(attr', fork', saved') /\ AttrInv'
    BY <1>1, <2>1, <2>2, <2>3 DEF FileInv, Kept, Overwriting, Was
  <2>5. PICK a, f, c : a = attr' /\ f = fork' /\ c = saved'
    OBVIOUS
  <2>6. /\ Regular(a, f, c) /\ a.kind \in {"absent", "none", "inline", "fork"}
        /\ a.kind \in NoKind => a.size = 0
    BY <2>4, <2>5 DEF AttrInv
  <2>7. Held(a, f) = c
    BY <2>6, RegularHeld
  <2>8. Contents' = Held(a, f)
    BY <2>5 DEF Contents, Held, NoKind
  <2>9. ~handle'.dirty
    BY <2>2, NoHandleClean
  <2>10. Live' = Live
    BY <1>2, <2>2, <2>5, <2>7, <2>8, <2>9 DEF Live
  <2>11. QED
    BY <2>2, <2>10, SameStep
<1>4. CASE ~SetAttribute
  <2>1. handle' = handle /\ call' = call
    BY <1>4 DEF Save, SaveInline, SaveBlock, SaveHead, SaveTable, SaveEnd, SavePart, Saves,
                ClearAttribute
  <2>2. Live' = Live
    BY <1>2, <2>1 DEF Live
  <2>3. QED
    BY <2>1, <2>2, SameStep
<1>5. QED
  BY <1>3, <1>4

LEMMA BytesStep ==
  ASSUME FileInv, [Next]_vars
  PROVE  [Bytes!FileNext]_(Bytes!byteVars)
<1>1. CASE Ended
  <2>1. Ended'
    BY <1>1, EndedStays
  <2>2. QED
    BY <1>1, <2>1, EndStep
<1>2. CASE ~Ended /\ Ended'
  BY <1>2, FailStep DEF Bytes!FileNext
<1>3. CASE ~Ended /\ ~Ended'
  <2>1. CASE Open
    BY <1>3, <2>1, OpenIsSeek DEF Bytes!FileNext
  <2>2. CASE \E at \in 0 .. MaxSize : \E n \in 1 .. MaxSize : Read(at, n)
    BY <1>3, <2>2, ReadIsSeek DEF Bytes!FileNext
  <2>3. CASE \E at \in 0 .. MaxSize : \E s \in Data : Write(at, s)
    BY <1>3, <2>3, WriteIsSeek DEF Bytes!FileNext
  <2>4. CASE Turn
    BY <1>3, <2>4, TurnIsRead
  <2>5. CASE Change
    BY <1>3, <2>5, ChangeIsWrite DEF Bytes!FileNext
  <2>6. CASE Close
    BY <1>3, <2>6, CloseIsSeek DEF Bytes!FileNext
  <2>7. CASE Save
    BY <1>3, <2>7, SaveIsSame
  <2>8. CASE Stop
    <3>1. stop' # "never"
      BY <2>8 DEF Stop
    <3>2. QED
      BY <1>3, <3>1 DEF Ended
  <2>9. CASE UNCHANGED vars
    <3>1. Live' = Live /\ call' = call
      BY <2>9, LiveInMemory DEF vars
    <3>2. QED
      BY <1>3, <3>1, SameStep
  <2>10. QED
    BY <2>1, <2>2, <2>3, <2>4, <2>5, <2>6, <2>7, <2>8, <2>9 DEF Next
<1>4. QED
  BY <1>1, <1>2, <1>3

(* A compressed file is a file, while the program does not end: each read  *)
(* answers the bytes that were written last, whichever block is in memory  *)
(* and wherever the file is kept, and closing and opening change nothing.  *)
THEOREM CompressedImplementsByteFile == Spec => ImplementsByteFile
<1>1. Init => Bytes!FileInit
  <2> SUFFICES ASSUME Init PROVE Bytes!FileInit
    OBVIOUS
  <2>1. call = NoCall /\ ~Ended
    BY DEF Init, Ended
  <2>2. /\ call.op = "done" /\ call.at = 0 /\ call.want = 0 /\ call.got = <<>>
        /\ call.data = <<>>
    BY <2>1, NoCallFacts
  <2>3. QED
    BY <2>1, <2>2 DEF Bytes!FileInit, Bytes!None
<1>2. FileInv /\ [Next]_vars => [Bytes!FileNext]_(Bytes!byteVars)
  BY BytesStep
<1>3. Spec => Bytes!FileSpec
  BY FileInductive, <1>1, <1>2, PTL DEF Spec, Bytes!FileSpec
<1>4. QED
  BY <1>3 DEF ImplementsByteFile
=============================================================================
