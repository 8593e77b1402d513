----------------------- MODULE AbstractFilesProofs -----------------------
(* Theorems about the kinds of AbstractFile, for every size of a file and  *)
(* of the head of a pipe, and any calls.                                   *)
EXTENDS AbstractFiles, SequenceTheorems, WellFoundedInduction, TLAPS

-----------------------------------------------------------------------------
(* Numbers.                                                                *)

(* A non-empty set of natural numbers has a least element.                 *)
LEMMA LeastNat ==
  ASSUME NEW T, T \subseteq Nat, T # {}
  PROVE  \E x \in T : \A y \in T : x <= y
<1> DEFINE Less == {p \in Nat \X Nat : p[1] < p[2]}
<1>1. IsWellFoundedOn(Less, Nat)
  BY Zenon, NatLessThanWellFounded DEF OpToRel
<1> HIDE DEF Less
<1>2. PICK x \in T : \A y \in T : ~ (<<y, x>> \in Less)
  BY <1>1, WFMin
<1>3. \A y \in T : ~ (y < x)
  BY <1>2 DEF Less
<1>4. QED
  BY <1>3

(* A number is its quotient times the divisor, plus a smaller remainder.   *)
LEMMA Quotient ==
  ASSUME NEW s \in Nat \ {0}, NEW u \in Nat
  PROVE  /\ u \div s \in Nat
         /\ u % s \in Nat /\ u % s < s
         /\ u = (u \div s) * s + (u % s)
<1>1. u \div s \in Nat /\ u % s \in Nat /\ u % s < s
  OBVIOUS
<1>2. \A q, r \in Nat : q = u \div s /\ r = u % s => u = q * s + r
  OBVIOUS
<1>3. QED
  BY <1>1, <1>2

(* And there is only one such pair.                                        *)
LEMMA QuotientUnique ==
  ASSUME NEW s \in Nat \ {0}, NEW q \in Nat, NEW r \in Nat, r < s
  PROVE  (q * s + r) \div s = q /\ (q * s + r) % s = r
  OBVIOUS

-----------------------------------------------------------------------------
(* Doubling.                                                               *)

LEMMA Divides ==
  ASSUME NEW d \in Nat \ {0}, NEW p \in Nat
  PROVE  p % d = 0 <=> \E q \in Nat : p = q * d
<1>1. ASSUME p % d = 0 PROVE \E q \in Nat : p = q * d
  <2>1. PICK q \in Nat, r \in Nat : q = p \div d /\ r = p % d /\ p = q * d + r
    BY Quotient
  <2>2. p = q * d
    BY <1>1, <2>1
  <2> QED BY <2>2
<1>2. ASSUME NEW q \in Nat, p = q * d PROVE p % d = 0
  <2>1. (q * d + 0) % d = 0
    BY QuotientUnique
  <2>2. q * d \in Nat
    OBVIOUS
  <2> QED BY <1>2, <2>1, <2>2
<1> QED BY <1>1, <1>2

LEMMA PowerTwice ==
  ASSUME NEW p \in Nat \ {0}, Power(p)
  PROVE  Power(2 * p)
<1>1. SUFFICES ASSUME NEW d \in 2 .. 2 * p, (2 * p) % d = 0, d % 2 # 0
               PROVE  FALSE
  BY DEF Power
<1>2. d \in Nat \ {0} /\ d \in Nat /\ 2 * p \in Nat /\ d >= 2
  BY <1>1
<1>3. PICK q \in Nat : 2 * p = q * d
  BY <1>1, <1>2, Divides
<1>4. PICK e \in Nat : d = 2 * e + 1
  <2>1. PICK e \in Nat, r \in Nat : r < 2 /\ r = d % 2 /\ d = e * 2 + r
    BY <1>2, Quotient
  <2>2. d = 2 * e + 1
    BY <1>1, <2>1
  <2> QED BY <2>2
<1>5. PICK a \in Nat : a = q * e
  OBVIOUS
<1>6. q * d = 2 * a + q
  <2>1. q * d = q * (2 * e + 1)
    BY <1>4
  <2>2. q * (2 * e + 1) = 2 * (q * e) + q
    OBVIOUS
  <2> QED BY <1>5, <2>1, <2>2
<1>7. PICK h \in Nat : h = p - a /\ q = 2 * h
  <2>1. q = 2 * (p - a) /\ p - a \in Int
    BY <1>3, <1>6
  <2> QED BY <2>1
<1>8. p = h * d
  <2>1. (2 * h) * d = 2 * (h * d)
    BY <1>2
  <2>2. h * d \in Nat
    BY <1>2
  <2> QED BY <1>3, <1>7, <2>1, <2>2
<1>9. h >= 1
  BY <1>2, <1>8
<1>10. d <= p
  <2>1. \A x, y \in Nat : x >= 1 => y <= x * y
    OBVIOUS
  <2> QED BY <1>2, <1>8, <1>9, <2>1
<1>11. p % d = 0
  BY <1>2, <1>8, Divides
<1> QED BY <1>1, <1>2, <1>10, <1>11 DEF Power

LEMMA PowerHalf ==
  ASSUME NEW p \in Nat, p > 1, Power(p)
  PROVE  \E h \in Nat \ {0} : p = 2 * h /\ Power(h)
<1>1. p % p = 0 /\ p \in 2 .. p
  <2>1. p = 1 * p /\ p \in Nat \ {0}
    OBVIOUS
  <2> QED BY <2>1, Divides
<1>2. p % 2 = 0
  BY <1>1 DEF Power
<1>3. PICK h \in Nat : p = h * 2
  BY <1>2, Divides
<1>4. ASSUME NEW d \in 2 .. h, h % d = 0 PROVE d % 2 = 0
  <2>1. d \in Nat \ {0} /\ d \in Nat
    BY <1>4
  <2>2. PICK q \in Nat : h = q * d
    BY <1>4, <2>1, Divides
  <2>3. p = (2 * q) * d
    <3>1. (2 * q) * d = 2 * (q * d)
      BY <2>1
    <3> QED BY <1>3, <2>2, <3>1
  <2>4. 2 * q \in Nat
    OBVIOUS
  <2>5. p % d = 0
    BY <2>1, <2>3, <2>4, Divides
  <2>6. d \in 2 .. p
    BY <1>3, <1>4
  <2> QED BY <2>5, <2>6 DEF Power
<1>5. h # 0 /\ p = 2 * h
  BY <1>3
<1> QED BY <1>4, <1>5 DEF Power

(* There are powers of two beyond every number.                            *)
LEMMA PowersUnbounded ==
  ASSUME NEW n \in Nat
  PROVE  \E p \in Nat \ {0} : Power(p) /\ p >= n
<1> DEFINE Beyond(b) == \E p \in Nat \ {0} : Power(p) /\ p >= b
           T == {b \in Nat : ~Beyond(b)}
<1>1. SUFFICES ASSUME T # {} PROVE FALSE
  OBVIOUS
<1>2. PICK b \in T : \A c \in T : b <= c
  <2>1. T \subseteq Nat
    OBVIOUS
  <2> HIDE DEF T
  <2> QED BY <1>1, <2>1, LeastNat
<1>3. Power(1)
  BY DEF Power
<1>4. b \in Nat /\ b > 1
  <2>1. ~Beyond(b) /\ b \in Nat
    OBVIOUS
  <2>2. ASSUME b <= 1 PROVE FALSE
    BY <1>3, <2>1, <2>2
  <2> QED BY <2>1, <2>2
<1>5. PICK c \in Nat : c = b - 1
  BY <1>4
<1>6. Beyond(c)
  <2>1. ~(b <= c)
    BY <1>4, <1>5
  <2> QED BY <1>2, <1>5, <2>1
<1>7. PICK p \in Nat \ {0} : Power(p) /\ p >= c
  BY <1>6
<1>8. Power(2 * p) /\ 2 * p \in Nat \ {0} /\ 2 * p >= b
  <2>1. Power(2 * p)
    BY <1>7, PowerTwice
  <2> QED BY <1>4, <1>5, <1>7, <2>1
<1>9. Beyond(b)
  BY <1>8
<1> QED BY <1>9

(* memWrite and memFileWrite stop doubling, at less than twice the end.    *)
LEMMA DoubledLen ==
  ASSUME NEW m \in Nat \ {0}, NEW end \in Nat
  PROVE  \E n \in m .. MaxOf(m, 2 * end) :
             /\ n >= end
             /\ \E p \in 1 .. n : Power(p) /\ n = m * p
             /\ n > m => n \div 2 < end
<1> DEFINE T == {p \in Nat : p # 0 /\ Power(p) /\ m * p >= end}
<1>1. T # {}
  <2>1. PICK p \in Nat \ {0} : Power(p) /\ p >= end
    BY PowersUnbounded
  <2>2. p <= m * p /\ m * p \in Nat
    <3>1. \A x, y \in Nat : x >= 1 => y <= x * y /\ x * y \in Nat
      OBVIOUS
    <3> QED BY <3>1
  <2> QED BY <2>1, <2>2
<1>2. PICK p \in T : \A q \in T : p <= q
  <2>1. T \subseteq Nat
    OBVIOUS
  <2> HIDE DEF T
  <2> QED BY <1>1, <2>1, LeastNat
<1>3. p \in Nat /\ p >= 1 /\ Power(p) /\ m * p >= end
  OBVIOUS
<1>4. PICK n \in Nat : n = m * p
  BY <1>3
<1>5. n >= m /\ n >= p /\ n >= end
  <2>1. \A x, y \in Nat : y >= 1 => x <= x * y
    OBVIOUS
  <2>2. \A x, y \in Nat : x >= 1 => y <= x * y
    OBVIOUS
  <2> QED BY <1>3, <1>4, <2>1, <2>2
<1>6. p > 1 => n \div 2 < end /\ n <= 2 * end
  <2>1. SUFFICES ASSUME p > 1 PROVE n \div 2 < end /\ n <= 2 * end
    OBVIOUS
  <2>2. PICK h \in Nat \ {0} : p = 2 * h /\ Power(h)
    BY <1>3, <2>1, PowerHalf
  <2>3. h \notin T
    BY <1>2, <1>3, <2>1, <2>2
  <2>4. PICK k \in Nat : k = m * h
    OBVIOUS
  <2>5. k < end
    BY <2>2, <2>3, <2>4
  <2>6. n = k * 2
    <3>1. m * (2 * h) = 2 * (m * h)
      OBVIOUS
    <3> QED BY <1>4, <2>2, <2>4, <3>1
  <2>7. n \div 2 = k
    BY <2>6
  <2> QED BY <2>5, <2>6, <2>7
<1>7. p = 1 => n = m
  BY <1>4
<1>8. n \in m .. MaxOf(m, 2 * end)
  <2>1. n <= MaxOf(m, 2 * end) /\ MaxOf(m, 2 * end) \in Nat
    BY <1>3, <1>6, <1>7 DEF MaxOf
  <2> QED BY <1>5, <2>1
<1>9. p \in 1 .. n
  BY <1>3, <1>5
<1> QED BY <1>3, <1>4, <1>5, <1>6, <1>7, <1>8, <1>9

-----------------------------------------------------------------------------
(* The state of a file.                                                    *)

Cells == Byte \cup {Junk}
Kinds == {"rb", "wb", "mem", "memFile", "pipe"}
Buffers == {"mem", "memFile"}

Shapes == [kind : Kinds, bytes : Seq(Cells), size : Nat, pos : Nat,
           eof : BOOLEAN, filePos : Nat, head : Nat]

(* A buffer is never empty and never more than doubled; the FILE behind a  *)
(* pipe is where the last byte was read, and so is a reader past the head. *)
FileInv(f) ==
  /\ f \in Shapes
  /\ f.kind \in Buffers => Len(f.bytes) >= 1
  /\ f.kind \notin Buffers => \A i \in 1 .. Len(f.bytes) : f.bytes[i] # Junk
  /\ Len(f.bytes) <= 2 * MaxLen + (IF f.kind = "memFile" THEN FirstRoom ELSE 0)
  /\ f.size <= Len(f.bytes) /\ (f.kind = "memFile" => f.size <= MaxLen)
  /\ f.pos <= 2 * MaxLen
  /\ f.head <= f.filePos /\ f.filePos <= Len(f.bytes)
  /\ f.kind = "pipe" => f.pos <= f.head \/ f.pos = f.filePos

(* What is in the file.                                                    *)
Holds(f) == IF f.kind = "memFile" THEN SubSeq(f.bytes, 1, f.size) ELSE f.bytes

LEMMA Bounds ==
  /\ MaxLen \in Nat /\ PipeBuffer \in Nat /\ FirstRoom \in Nat /\ FirstRoom >= 1
  /\ PipeBuffer >= 1 /\ Zero \in Byte /\ Junk \notin Byte /\ Byte \subseteq Cells
  /\ Junk \in Cells
BY BytesAssumption, RoomAssumption DEF Cells

LEMMA ShapeFacts ==
  ASSUME NEW f \in Shapes
  PROVE  /\ f.kind \in Kinds /\ f.bytes \in Seq(Cells) /\ f.size \in Nat
         /\ f.pos \in Nat /\ f.eof \in BOOLEAN /\ f.filePos \in Nat /\ f.head \in Nat
         /\ Len(f.bytes) \in Nat /\ DOMAIN f.bytes = 1 .. Len(f.bytes)
         /\ \A i \in 1 .. Len(f.bytes) : f.bytes[i] \in Cells
<1>1. /\ f.kind \in Kinds /\ f.bytes \in Seq(Cells) /\ f.size \in Nat
      /\ f.pos \in Nat /\ f.eof \in BOOLEAN /\ f.filePos \in Nat /\ f.head \in Nat
  BY DEF Shapes
<1>2. /\ Len(f.bytes) \in Nat /\ DOMAIN f.bytes = 1 .. Len(f.bytes)
      /\ \A i \in 1 .. Len(f.bytes) : f.bytes[i] \in Cells
  BY <1>1, LenProperties, ElementOfSeq
<1> QED BY <1>1, <1>2

(* A piece of a sequence.                                                  *)
LEMMA Piece ==
  ASSUME NEW b \in Seq(Cells), NEW p \in Nat, NEW k \in Nat, k <= Len(b)
  PROVE  /\ SubSeq(b, p + 1, k) \in Seq(Cells)
         /\ Len(SubSeq(b, p + 1, k)) = IF p <= k THEN k - p ELSE 0
         /\ \A i \in 1 .. k - p : SubSeq(b, p + 1, k)[i] = b[p + i]
<1>1. PICK l \in Int, m \in Int : l = p + 1 /\ m = k
  OBVIOUS
<1>2. \A i \in l .. m : b[i] \in Cells
  <2>1. \A i \in l .. m : i \in 1 .. Len(b)
    BY <1>1, LenProperties
  <2> QED BY <2>1, ElementOfSeq
<1>3. /\ SubSeq(b, l, m) \in Seq(Cells)
      /\ Len(SubSeq(b, l, m)) = IF l <= m THEN m - l + 1 ELSE 0
      /\ \A i \in 1 .. m - l + 1 : SubSeq(b, l, m)[i] = b[l + i - 1]
  BY <1>2, SubSeqProperties
<1>4. m - l + 1 = k - p
  BY <1>1
<1>5. (IF l <= m THEN m - l + 1 ELSE 0) = IF p <= k THEN k - p ELSE 0
  BY <1>1
<1>6. \A i \in 1 .. k - p : l + i - 1 = p + i
  BY <1>1
<1>7. \A i \in 1 .. k - p : SubSeq(b, l, m)[i] = b[p + i]
  <2>1. \A i \in 1 .. k - p : SubSeq(b, l, m)[i] = b[l + i - 1]
    BY <1>3, <1>4
  <2> QED BY <1>6, <2>1
<1> QED BY <1>1, <1>3, <1>5, <1>7

(* What a call of read finds in the buffer.                                *)
LEMMA Found ==
  ASSUME NEW f \in Shapes, NEW n \in Nat
  PROVE  /\ BytesAt(f, n) \in Seq(Cells)
         /\ BytesAt(f, n) = SubSeq(f.bytes, f.pos + 1, MinOf(f.pos + n, Len(f.bytes)))
         /\ Len(BytesAt(f, n)) \in Nat /\ Len(BytesAt(f, n)) <= n
         /\ f.pos + Len(BytesAt(f, n)) <= MaxOf(f.pos, Len(f.bytes))
         /\ f.pos + n <= Len(f.bytes) => Len(BytesAt(f, n)) = n
         /\ Len(BytesAt(f, n)) < n => f.pos + Len(BytesAt(f, n)) >= Len(f.bytes)
<1>1. PICK k \in Nat : k = MinOf(f.pos + n, Len(f.bytes)) /\ k <= Len(f.bytes)
  BY ShapeFacts DEF MinOf
<1>2. BytesAt(f, n) = SubSeq(f.bytes, f.pos + 1, k)
  BY <1>1 DEF BytesAt
<1>3. /\ BytesAt(f, n) \in Seq(Cells)
      /\ Len(BytesAt(f, n)) = IF f.pos <= k THEN k - f.pos ELSE 0
  <2>1. PICK c \in Seq(Cells), o \in Nat : c = f.bytes /\ o = f.pos
    BY ShapeFacts
  <2>2. /\ SubSeq(c, o + 1, k) \in Seq(Cells)
        /\ Len(SubSeq(c, o + 1, k)) = IF o <= k THEN k - o ELSE 0
    <3>1. k <= Len(c)
      BY <1>1, <2>1
    <3> QED BY <3>1, Piece
  <2> QED BY <1>2, <2>1, <2>2
<1>4. PICK l \in Nat, p \in Nat : l = Len(f.bytes) /\ p = f.pos
  BY ShapeFacts
<1>5. PICK h \in Nat : h = Len(BytesAt(f, n)) /\ h = IF p <= k THEN k - p ELSE 0
  <2>1. (IF p <= k THEN k - p ELSE 0) \in Nat
    OBVIOUS
  <2> QED BY <1>3, <1>4, <2>1
<1>6. k = IF p + n <= l THEN p + n ELSE l
  BY <1>1, <1>4 DEF MinOf
<1>7. h <= n /\ (p + n <= l => h = n) /\ (h < n => p + h >= l)
  BY <1>5, <1>6
<1>8. p + h <= MaxOf(p, l)
  BY <1>5, <1>6 DEF MaxOf
<1> QED BY <1>1, <1>2, <1>3, <1>4, <1>5, <1>7, <1>8

(* Only the position, the end-of-file indicator and the position of the    *)
(* FILE are changed by reading and seeking.                                *)
Moved(f, p, e, q) == [kind |-> f.kind, bytes |-> f.bytes, size |-> f.size,
                      pos |-> p, eof |-> e, filePos |-> q, head |-> f.head]

LEMMA Moves ==
  ASSUME NEW f \in Shapes, NEW p \in Nat, NEW e, e \in BOOLEAN
  PROVE  /\ [f EXCEPT !.pos = p] = Moved(f, p, f.eof, f.filePos)
         /\ [f EXCEPT !.eof = e] = Moved(f, f.pos, e, f.filePos)
         /\ [f EXCEPT !.pos = p, !.eof = e] = Moved(f, p, e, f.filePos)
<1>1. [f EXCEPT !.pos = p] = Moved(f, p, f.eof, f.filePos)
  BY DEF Shapes, Moved
<1>2. [f EXCEPT !.eof = e] = Moved(f, f.pos, e, f.filePos)
  BY DEF Shapes, Moved
<1>3. [f EXCEPT !.pos = p, !.eof = e] = Moved(f, p, e, f.filePos)
  <2>1. PICK g : g = [f EXCEPT !.pos = p]
    OBVIOUS
  <2>2. g = Moved(f, p, f.eof, f.filePos)
    BY <1>1, <2>1
  <2>3. [f EXCEPT !.pos = p, !.eof = e] = [g EXCEPT !.eof = e]
    BY <2>1, Zenon
  <2>4. [g EXCEPT !.eof = e] = Moved(f, p, e, f.filePos)
    BY <2>2 DEF Moved
  <2> QED BY <2>3, <2>4
<1> QED BY <1>1, <1>2, <1>3

LEMMA MovedInv ==
  ASSUME NEW f, FileInv(f), NEW p \in Nat, NEW e, e \in BOOLEAN, NEW q \in Nat,
         p <= 2 * MaxLen, f.filePos <= q, q <= Len(f.bytes),
         f.kind = "pipe" => p <= f.head \/ p = q
  PROVE  /\ FileInv(Moved(f, p, e, q)) /\ Holds(Moved(f, p, e, q)) = Holds(f)
         /\ Moved(f, p, e, q).kind = f.kind /\ Moved(f, p, e, q).pos = p
         /\ Moved(f, p, e, q).eof = e /\ Moved(f, p, e, q).bytes = f.bytes
         /\ Moved(f, p, e, q).filePos = q /\ Moved(f, p, e, q).head = f.head
         /\ Moved(f, p, e, q).size = f.size
<1>1. PICK g : g = Moved(f, p, e, q)
  OBVIOUS
<1>2. /\ g.kind = f.kind /\ g.pos = p /\ g.eof = e /\ g.bytes = f.bytes
      /\ g.filePos = q /\ g.head = f.head /\ g.size = f.size
  BY <1>1 DEF Moved
<1>3. g \in Shapes
  BY <1>1, ShapeFacts DEF Moved, Shapes, FileInv
<1>4. Holds(g) = Holds(f)
  BY <1>2 DEF Holds
<1>5. FileInv(g)
  <2>1. f.head <= g.filePos
    BY <1>2, ShapeFacts DEF FileInv
  <2> QED BY <1>2, <1>3, <2>1 DEF FileInv
<1> QED BY <1>1, <1>2, <1>4, <1>5

LEMMA Joined ==
  ASSUME NEW b \in Seq(Cells), NEW p \in Nat, NEW a \in Nat, NEW k \in Nat,
         p <= a, a <= k, k <= Len(b)
  PROVE  SubSeq(b, p + 1, a) \o SubSeq(b, a + 1, k) = SubSeq(b, p + 1, k)
<1> DEFINE x == SubSeq(b, p + 1, a)
           y == SubSeq(b, a + 1, k)
           z == SubSeq(b, p + 1, k)
<1>1. Len(b) \in Nat
  BY LenProperties
<1>2. x \in Seq(Cells) /\ Len(x) = a - p /\ \A i \in 1 .. a - p : x[i] = b[p + i]
  <2>1. a <= Len(b)
    BY <1>1
  <2> QED BY <2>1, Piece
<1>3. y \in Seq(Cells) /\ Len(y) = k - a /\ \A i \in 1 .. k - a : y[i] = b[a + i]
  BY Piece
<1>4. z \in Seq(Cells) /\ Len(z) = k - p /\ \A i \in 1 .. k - p : z[i] = b[p + i]
  <2>1. p <= k
    OBVIOUS
  <2> QED BY <2>1, Piece
<1> HIDE DEF x, y, z
<1>5. /\ x \o y \in Seq(Cells) /\ Len(x \o y) = Len(x) + Len(y)
      /\ \A i \in 1 .. Len(x) + Len(y) :
            (x \o y)[i] = IF i <= Len(x) THEN x[i] ELSE y[i - Len(x)]
  BY <1>2, <1>3, ConcatProperties
<1>6. Len(x \o y) = Len(z)
  BY <1>2, <1>3, <1>4, <1>5
<1>7. ASSUME NEW i \in 1 .. Len(z) PROVE (x \o y)[i] = z[i]
  <2>1. i \in 1 .. k - p /\ i \in 1 .. Len(x) + Len(y)
    BY <1>2, <1>3, <1>4
  <2>2. z[i] = b[p + i]
    BY <1>4, <2>1
  <2>3. CASE i <= a - p
    <3>1. i \in 1 .. a - p
      BY <2>3
    <3>2. (x \o y)[i] = x[i]
      BY <1>2, <1>5, <2>1, <2>3
    <3> QED BY <1>2, <2>2, <3>1, <3>2
  <2>4. CASE i > a - p
    <3>1. PICK j \in 1 .. k - a : j = i - (a - p)
      BY <2>1, <2>4
    <3>2. (x \o y)[i] = y[j]
      <4>1. ~(i <= Len(x)) /\ i - Len(x) = j
        BY <1>2, <2>4, <3>1
      <4> QED BY <1>5, <2>1, <4>1
    <3>3. a + j = p + i
      BY <3>1
    <3> QED BY <1>3, <2>2, <3>2, <3>3
  <2> QED BY <2>1, <2>3, <2>4
<1>8. x \o y = z
  BY <1>4, <1>5, <1>6, <1>7, SeqEqual
<1> QED BY <1>8 DEF x, y, z

(* A piece within a beginning.                                             *)
LEMMA Within ==
  ASSUME NEW b \in Seq(Cells), NEW p \in Nat, NEW k \in Nat, NEW s \in Nat,
         k <= s, s <= Len(b)
  PROVE  SubSeq(SubSeq(b, 1, s), p + 1, k) = SubSeq(b, p + 1, k)
<1> DEFINE x == SubSeq(b, 1, s)
           y == SubSeq(x, p + 1, k)
           z == SubSeq(b, p + 1, k)
<1>1. Len(b) \in Nat
  BY LenProperties
<1>2. x \in Seq(Cells) /\ Len(x) = s /\ \A i \in 1 .. s : x[i] = b[i]
  <2>1. /\ SubSeq(b, 0 + 1, s) \in Seq(Cells)
        /\ Len(SubSeq(b, 0 + 1, s)) = IF 0 <= s THEN s - 0 ELSE 0
        /\ \A i \in 1 .. s - 0 : SubSeq(b, 0 + 1, s)[i] = b[0 + i]
    BY Piece
  <2>2. 0 + 1 = 1 /\ s - 0 = s /\ \A i \in 1 .. s : 0 + i = i
    OBVIOUS
  <2> QED BY <2>1, <2>2
<1>3. z \in Seq(Cells) /\ Len(z) = (IF p <= k THEN k - p ELSE 0)
      /\ \A i \in 1 .. k - p : z[i] = b[p + i]
  <2>1. k <= Len(b)
    BY <1>1
  <2> QED BY <2>1, Piece
<1> HIDE DEF x, z
<1>4. y \in Seq(Cells) /\ Len(y) = (IF p <= k THEN k - p ELSE 0)
      /\ \A i \in 1 .. k - p : y[i] = x[p + i]
  BY <1>2, Piece
<1> HIDE DEF y
<1>5. ASSUME NEW i \in 1 .. Len(z) PROVE y[i] = z[i]
  <2>1. i \in 1 .. k - p /\ p + i \in 1 .. s
    BY <1>3
  <2> QED BY <1>2, <1>3, <1>4, <2>1
<1>6. y = z
  BY <1>3, <1>4, <1>5, SeqEqual
<1> QED BY <1>6 DEF x, y, z

-----------------------------------------------------------------------------
(* Reading.                                                                *)

(* What a read of n bytes of f answers.                                    *)
Answer(f, n, r) ==
  /\ FileInv(r.file) /\ r.answer \in Seq(Cells)
  /\ r.status \in {"open", "wild", "stuck"}
  /\ Holds(r.file) = Holds(f) /\ r.file.kind = f.kind
  /\ r.file.filePos >= f.filePos /\ r.file.head = f.head
  /\ r.status = "open" => /\ r.answer = Bytes!Due(Holds(f), f.pos, n)
                          /\ r.file.pos = f.pos + Len(r.answer)
                          /\ Len(r.answer) < n => EOF(r.file)
  /\ r.status = "stuck" => r.file.filePos > r.file.head
  /\ r.status = "wild" => r.file.kind = "mem" /\ r.file.pos > Len(r.file.bytes)

LEMMA IsDue ==
  ASSUME NEW c, NEW at, NEW n
  PROVE  Bytes!Due(c, at, n) = SubSeq(c, at + 1, MinOf(at + n, Len(c)))
BY DEF Bytes!Due, Bytes!Nearer, MinOf

LEMMA ReadFILEWorks ==
  ASSUME NEW f, FileInv(f), f.kind = "rb", NEW n \in Nat
  PROVE  Answer(f, n, ReadFILE(f, n))
<1>1. f \in Shapes /\ f.pos \in Nat /\ f.eof \in BOOLEAN /\ f.filePos \in Nat
  BY ShapeFacts DEF FileInv
<1>2. PICK a : a = BytesAt(f, n)
  OBVIOUS
<1>3. /\ a \in Seq(Cells) /\ Len(a) \in Nat
      /\ a = Bytes!Due(Holds(f), f.pos, n)
      /\ f.pos + Len(a) <= MaxOf(f.pos, Len(f.bytes))
  BY <1>1, <1>2, Found, IsDue DEF Holds
<1>4. PICK e : e = (f.eof \/ Len(a) < n) /\ e \in BOOLEAN
  <2>1. (f.eof \/ Len(a) < n) \in BOOLEAN
    BY Zenon
  <2> QED BY <2>1, Zenon
<1>5. PICK p \in Nat : p = f.pos + Len(a)
  BY <1>1, <1>3
<1>6. p <= 2 * MaxLen
  <2>1. f.pos <= 2 * MaxLen /\ Len(f.bytes) <= 2 * MaxLen /\ Len(f.bytes) \in Nat
    BY <1>1, Bounds, ShapeFacts DEF FileInv
  <2> QED BY <1>1, <1>3, <1>5, <2>1, Bounds DEF MaxOf
<1>7. PICK g : g = Moved(f, p, e, f.filePos)
  OBVIOUS
<1>8. /\ FileInv(g) /\ Holds(g) = Holds(f) /\ g.kind = f.kind /\ g.pos = p /\ g.eof = e
      /\ g.filePos = f.filePos /\ g.head = f.head
  <2>1. f.filePos <= f.filePos /\ f.filePos <= Len(f.bytes)
    BY <1>1 DEF FileInv
  <2>2. ~(f.kind = "pipe")
    OBVIOUS
  <2>3. e \in BOOLEAN
    BY <1>4
  <2> QED BY <1>1, <1>5, <1>6, <1>7, <2>1, <2>2, <2>3, MovedInv
<1>9. ReadFILE(f, n) = Reading(g, a, "open")
  <2>1. [f EXCEPT !.pos = @ + Len(a), !.eof = @ \/ Len(a) < n] =
          [f EXCEPT !.pos = p, !.eof = e]
    BY <1>4, <1>5, Zenon
  <2>2. [f EXCEPT !.pos = p, !.eof = e] = g
    BY <1>1, <1>4, <1>5, <1>7, Moves, Zenon
  <2> QED BY <1>2, <2>1, <2>2 DEF ReadFILE
<1>10. Len(a) < n => EOF(g)
  BY <1>4, <1>8 DEF EOF
<1>11. g.filePos >= f.filePos
  BY <1>1, <1>8
<1> QED BY <1>3, <1>5, <1>8, <1>9, <1>10, <1>11 DEF Answer, Reading

LEMMA MemReadWorks ==
  ASSUME NEW f, FileInv(f), f.kind = "mem", NEW n \in Nat
  PROVE  Answer(f, n, MemRead(f, n))
<1>1. f \in Shapes /\ f.pos \in Nat /\ f.eof \in BOOLEAN /\ f.filePos \in Nat
      /\ Len(f.bytes) \in Nat
  BY ShapeFacts DEF FileInv
<1>2. f.filePos >= f.filePos
  BY <1>1
<1>3. CASE f.pos > Len(f.bytes)
  <2>1. MemRead(f, n) = Reading(f, <<>>, "wild")
    BY <1>3 DEF MemRead
  <2> QED BY <1>2, <1>3, <2>1, EmptySeq DEF Answer, Reading
<1>4. CASE ~(f.pos > Len(f.bytes))
  <2>1. PICK a : a = BytesAt(f, n)
    OBVIOUS
  <2>2. /\ a \in Seq(Cells) /\ Len(a) \in Nat
        /\ a = Bytes!Due(Holds(f), f.pos, n)
        /\ f.pos + Len(a) <= MaxOf(f.pos, Len(f.bytes))
        /\ Len(a) < n => f.pos + Len(a) >= Len(f.bytes)
    BY <1>1, <1>4, <2>1, Found, IsDue DEF Holds
  <2>3. PICK p \in Nat : p = f.pos + Len(a)
    BY <1>1, <2>2
  <2>4. p <= 2 * MaxLen
    <3>1. f.pos <= 2 * MaxLen /\ Len(f.bytes) <= 2 * MaxLen
      BY <1>1, <1>4, Bounds DEF FileInv
    <3> QED BY <1>1, <2>2, <2>3, <3>1, Bounds DEF MaxOf
  <2>5. PICK g : g = Moved(f, p, f.eof, f.filePos)
    OBVIOUS
  <2>6. /\ FileInv(g) /\ Holds(g) = Holds(f) /\ g.kind = f.kind /\ g.pos = p
        /\ g.filePos = f.filePos /\ g.head = f.head /\ g.bytes = f.bytes
    <3>1. f.filePos <= f.filePos /\ f.filePos <= Len(f.bytes)
      BY <1>1 DEF FileInv
    <3> QED BY <1>1, <2>4, <2>5, <3>1, MovedInv
  <2>7. MemRead(f, n) = Reading(g, a, "open")
    <3>1. [f EXCEPT !.pos = @ + Len(a)] = [f EXCEPT !.pos = p]
      BY <2>3
    <3>2. [f EXCEPT !.pos = p] = g
      BY <1>1, <2>5, Moves
    <3> QED BY <1>4, <2>1, <3>1, <3>2 DEF MemRead
  <2>8. Len(a) < n => EOF(g)
    BY <2>2, <2>3, <2>6 DEF EOF
  <2>9. g.filePos >= f.filePos
    BY <1>1, <2>6
  <2> QED BY <2>2, <2>3, <2>6, <2>7, <2>8, <2>9 DEF Answer, Reading
<1> QED BY <1>3, <1>4

LEMMA MemFileReadWorks ==
  ASSUME NEW f, FileInv(f), f.kind = "memFile", NEW n \in Nat, f.pos + n <= f.size
  PROVE  Answer(f, n, MemFileRead(f, n))
<1>1. f \in Shapes /\ f.pos \in Nat /\ f.eof \in BOOLEAN /\ f.filePos \in Nat
      /\ Len(f.bytes) \in Nat /\ f.size \in Nat /\ f.bytes \in Seq(Cells)
  BY ShapeFacts DEF FileInv
<1>2. f.size <= Len(f.bytes) /\ f.size <= MaxLen
  BY DEF FileInv
<1>3. PICK p \in Nat : p = f.pos + n
  BY <1>1
<1>4. p <= f.size /\ p <= Len(f.bytes) /\ p <= 2 * MaxLen
  BY <1>1, <1>2, <1>3, Bounds
<1>5. PICK a : a = BytesAt(f, n)
  OBVIOUS
<1>6. a \in Seq(Cells) /\ Len(a) = n /\ a = SubSeq(f.bytes, f.pos + 1, p)
  <2>1. MinOf(f.pos + n, Len(f.bytes)) = p
    BY <1>3, <1>4 DEF MinOf
  <2> QED BY <1>1, <1>3, <1>4, <1>5, <2>1, Found
<1>7. a = Bytes!Due(Holds(f), f.pos, n)
  <2>1. Holds(f) = SubSeq(f.bytes, 1, f.size)
    BY DEF Holds
  <2>2. Len(Holds(f)) = f.size
    <3>1. Len(SubSeq(f.bytes, 0 + 1, f.size)) = IF 0 <= f.size THEN f.size - 0 ELSE 0
      BY <1>1, <1>2, Piece
    <3>2. 0 + 1 = 1 /\ (IF 0 <= f.size THEN f.size - 0 ELSE 0) = f.size
      BY <1>1
    <3> QED BY <2>1, <3>1, <3>2
  <2>3. MinOf(f.pos + n, Len(Holds(f))) = p
    BY <1>3, <1>4, <2>2 DEF MinOf
  <2>4. SubSeq(SubSeq(f.bytes, 1, f.size), f.pos + 1, p) = SubSeq(f.bytes, f.pos + 1, p)
    <3>1. PICK c \in Seq(Cells), o \in Nat, z \in Nat :
            c = f.bytes /\ o = f.pos /\ z = f.size
      BY <1>1
    <3>2. p <= z /\ z <= Len(c)
      BY <1>2, <1>4, <3>1
    <3>3. SubSeq(SubSeq(c, 1, z), o + 1, p) = SubSeq(c, o + 1, p)
      BY <3>2, Within
    <3> QED BY <3>1, <3>3
  <2> QED BY <1>6, <2>1, <2>3, <2>4, IsDue
<1>8. PICK g : g = Moved(f, p, f.eof, f.filePos)
  OBVIOUS
<1>9. /\ FileInv(g) /\ Holds(g) = Holds(f) /\ g.kind = f.kind /\ g.pos = p
      /\ g.filePos = f.filePos /\ g.head = f.head /\ g.bytes = f.bytes
  <2>1. f.filePos <= f.filePos /\ f.filePos <= Len(f.bytes)
    BY <1>1 DEF FileInv
  <2> QED BY <1>1, <1>4, <1>8, <2>1, MovedInv
<1>10. MemFileRead(f, n) = Reading(g, a, "open")
  <2>1. [f EXCEPT !.pos = @ + n] = [f EXCEPT !.pos = p]
    BY <1>3
  <2>2. [f EXCEPT !.pos = p] = g
    BY <1>1, <1>8, Moves
  <2> QED BY <1>5, <2>1, <2>2 DEF MemFileRead
<1>11. g.filePos >= f.filePos /\ g.pos = f.pos + Len(a) /\ ~(Len(a) < n)
  BY <1>1, <1>3, <1>6, <1>9
<1>12. MemFileRead(f, n) = [file |-> g, answer |-> a, status |-> "open"]
  BY <1>10 DEF Reading
<1>13. PICK r : r = MemFileRead(f, n)
  OBVIOUS
<1>14. r.file = g /\ r.answer = a /\ r.status = "open"
  BY <1>12, <1>13
<1> QED BY <1>6, <1>7, <1>9, <1>11, <1>13, <1>14 DEF Answer

LEMMA PipeReadWorks ==
  ASSUME NEW f, FileInv(f), f.kind = "pipe", NEW n \in Nat, n >= 1
  PROVE  Answer(f, n, PipeRead(f, n))
<1>1. /\ f \in Shapes /\ f.pos \in Nat /\ f.eof \in BOOLEAN /\ f.filePos \in Nat
      /\ Len(f.bytes) \in Nat /\ f.head \in Nat /\ f.bytes \in Seq(Cells)
  BY ShapeFacts DEF FileInv
<1>2. /\ f.head <= f.filePos /\ f.filePos <= Len(f.bytes) /\ Len(f.bytes) <= 2 * MaxLen
      /\ f.pos <= 2 * MaxLen /\ (f.pos <= f.head \/ f.pos = f.filePos)
  BY <1>1, Bounds DEF FileInv
<1>3. Holds(f) = f.bytes
  BY DEF Holds
<1>4. PICK h \in Nat : h = MinOf(n, MaxOf(f.head - f.pos, 0))
  BY <1>1 DEF MinOf, MaxOf
<1>5. PICK at \in Nat : at = f.pos + h
  BY <1>1
<1>6. PICK p \in Nat, d \in Nat, q \in Nat, l \in Nat :
         p = f.pos /\ d = f.head /\ q = f.filePos /\ l = Len(f.bytes)
  BY <1>1
<1>7. /\ d <= q /\ q <= l /\ l <= 2 * MaxLen /\ at = p + h
      /\ p <= 2 * MaxLen /\ (p <= d \/ p = q)
  BY <1>2, <1>5, <1>6
<1>8. h = MinOf(n, MaxOf(d - p, 0))
  BY <1>4, <1>6
<1>9. /\ h <= n
      /\ h = n => at <= d
      /\ h < n => (at = d /\ p <= d) \/ (p > d /\ at = p)
  <2>1. CASE p <= d
    <3>1. MaxOf(d - p, 0) = d - p
      BY <2>1 DEF MaxOf
    <3> QED BY <1>7, <1>8, <2>1, <3>1 DEF MinOf
  <2>2. CASE p > d
    <3>1. MaxOf(d - p, 0) = 0
      BY <2>2 DEF MaxOf
    <3> QED BY <1>7, <1>8, <2>2, <3>1 DEF MinOf
  <2> QED BY <2>1, <2>2
<1>10. /\ at <= l /\ at <= 2 * MaxLen /\ (at <= d \/ at = q)
       /\ p <= at /\ (h < n => at >= d) /\ at <= p + n
  BY <1>7, <1>9, Bounds
<1>11. /\ at <= Len(f.bytes) /\ at <= 2 * MaxLen /\ (at <= f.head \/ at = f.filePos)
       /\ f.pos <= at /\ (h < n => at >= f.head) /\ at <= f.pos + n
  BY <1>6, <1>10
<1>12. f.filePos <= f.filePos /\ f.filePos >= f.filePos
  BY <1>1
<1>13. PICK g : g = Moved(f, at, f.eof, f.filePos)
  OBVIOUS
<1>14. /\ FileInv(g) /\ Holds(g) = Holds(f) /\ g.kind = f.kind /\ g.pos = at
       /\ g.filePos = f.filePos /\ g.head = f.head /\ g.bytes = f.bytes
  BY <1>1, <1>2, <1>11, <1>12, <1>13, MovedInv
<1>15. [f EXCEPT !.pos = at] = g
  BY <1>1, <1>13, Moves
<1>16. CASE h = n
  <2>1. PICK a : a = BytesAt(f, n)
    OBVIOUS
  <2>2. a \in Seq(Cells) /\ Len(a) = n /\ a = Bytes!Due(Holds(f), f.pos, n)
    <3>1. f.pos + n <= Len(f.bytes)
      BY <1>5, <1>11, <1>16
    <3> QED BY <1>1, <1>3, <2>1, <3>1, Found, IsDue
  <2>3. PipeRead(f, n) = Reading(g, a, "open")
    BY <1>4, <1>5, <1>15, <1>16, <2>1 DEF PipeRead
  <2>4. g.pos = f.pos + Len(a) /\ ~(Len(a) < n)
    BY <1>5, <1>14, <1>16, <2>2
  <2> QED BY <1>12, <1>14, <2>2, <2>3, <2>4 DEF Answer, Reading
<1>17. CASE h # n /\ at # f.filePos
  <2>1. PipeRead(f, n) = Reading(g, <<>>, "stuck")
    BY <1>4, <1>5, <1>15, <1>17 DEF PipeRead
  <2>2. q > d
    BY <1>6, <1>7, <1>9, <1>17
  <2>3. g.filePos > g.head
    BY <1>6, <1>14, <2>2
  <2> QED BY <1>12, <1>14, <2>1, <2>3, EmptySeq DEF Answer, Reading
<1>18. CASE h # n /\ at = f.filePos
  <2>1. PICK k \in Nat : k = MinOf(f.pos + n, Len(f.bytes)) /\ k <= Len(f.bytes)
    BY <1>1 DEF MinOf
  <2>2. at <= k /\ MinOf(at + (n - h), Len(f.bytes)) = k
    <3>1. at + (n - h) = f.pos + n
      BY <1>1, <1>5
    <3> QED BY <1>1, <1>11, <2>1, <3>1 DEF MinOf
  <2>3. PICK b, m : /\ b = SubSeq(f.bytes, f.pos + 1, at)
                    /\ m = SubSeq(f.bytes, at + 1, k)
    OBVIOUS
  <2>4. b \o m = Bytes!Due(Holds(f), f.pos, n)
    <3>1. b \o m = SubSeq(f.bytes, f.pos + 1, k)
      <4>1. PICK c \in Seq(Cells) : c = f.bytes
        BY <1>1
      <4>2. p <= at /\ at <= k /\ k <= Len(c)
        BY <1>10, <2>1, <2>2, <4>1
      <4>3. SubSeq(c, p + 1, at) \o SubSeq(c, at + 1, k) = SubSeq(c, p + 1, k)
        BY <4>2, Joined
      <4> QED BY <1>6, <2>3, <4>1, <4>3
    <3> QED BY <1>3, <2>1, <3>1, IsDue
  <2>5. /\ m \in Seq(Cells) /\ Len(m) = k - at /\ b \in Seq(Cells)
        /\ Len(b) = at - f.pos
    <3>1. b \in Seq(Cells) /\ Len(b) = at - f.pos
      BY <1>1, <1>11, <2>3, Piece
    <3>2. m \in Seq(Cells) /\ Len(m) = k - at
      BY <1>1, <2>1, <2>2, <2>3, Piece
    <3> QED BY <3>1, <3>2
  <2>6. b \o m \in Seq(Cells) /\ Len(b \o m) = k - f.pos
    <3>1. b \o m \in Seq(Cells) /\ Len(b \o m) = Len(b) + Len(m)
      BY <2>5, ConcatProperties
    <3>2. (at - f.pos) + (k - at) = k - f.pos
      BY <1>1
    <3> QED BY <2>5, <3>1, <3>2
  <2>7. PICK e : e = (f.eof \/ Len(m) < n - h) /\ e \in BOOLEAN
    <3>1. (f.eof \/ Len(m) < n - h) \in BOOLEAN
      BY Zenon
    <3> QED BY <3>1, Zenon
  <2>8. at + Len(m) = k
    BY <2>5
  <2>9. PICK j : j = Moved(f, k, e, k)
    OBVIOUS
  <2>10. /\ FileInv(j) /\ Holds(j) = Holds(f) /\ j.kind = f.kind /\ j.pos = k /\ j.eof = e
         /\ j.filePos = k /\ j.head = f.head /\ j.bytes = f.bytes
    <3>1. k <= 2 * MaxLen /\ f.filePos <= k
      BY <1>1, <1>2, <1>18, <2>1, <2>2, Bounds
    <3>2. e \in BOOLEAN
      BY <2>7
    <3> QED BY <2>1, <2>9, <3>1, <3>2, MovedInv
  <2>11. PipeRead(f, n) = FromPipe(f, at, n - h, b)
    BY <1>4, <1>5, <1>18, <2>3 DEF PipeRead
  <2>12. PipeRead(f, n) = Reading(j, b \o m, "open")
    <3>1. [f EXCEPT !.pos = at + Len(m), !.filePos = at + Len(m),
                    !.eof = @ \/ Len(m) < n - h] =
            [f EXCEPT !.pos = k, !.filePos = k, !.eof = e]
      BY <2>7, <2>8
    <3>2. [f EXCEPT !.pos = k, !.filePos = k, !.eof = e] = j
      <4>1. PICK x : x = [f EXCEPT !.pos = k]
        OBVIOUS
      <4>2. x = Moved(f, k, f.eof, f.filePos)
        BY <1>1, <4>1 DEF Shapes, Moved
      <4>3. PICK y : y = [x EXCEPT !.filePos = k]
        OBVIOUS
      <4>4. y = Moved(f, k, f.eof, k)
        BY <4>2, <4>3 DEF Moved
      <4>5. [f EXCEPT !.pos = k, !.filePos = k, !.eof = e] = [y EXCEPT !.eof = e]
        BY <4>1, <4>3, Zenon
      <4>6. [y EXCEPT !.eof = e] = j
        BY <2>9, <4>4 DEF Moved
      <4> QED BY <4>5, <4>6
    <3>3. m = SubSeq(f.bytes, at + 1, MinOf(at + (n - h), Len(f.bytes)))
      BY <2>2, <2>3
    <3> QED BY <2>11, <3>1, <3>2, <3>3 DEF FromPipe
  <2>13. j.pos = f.pos + Len(b \o m)
    BY <1>1, <2>6, <2>10
  <2>14. Len(b \o m) < n => EOF(j)
    <3>1. SUFFICES ASSUME Len(b \o m) < n PROVE EOF(j)
      OBVIOUS
    <3>2. k - p < n
      BY <1>6, <2>6, <3>1
    <3>3. k - at < n - h
      BY <1>7, <3>2
    <3>4. Len(m) < n - h
      BY <2>5, <3>3
    <3>5. j.pos >= j.head
      BY <1>1, <1>2, <1>18, <2>2, <2>10
    <3> QED BY <2>7, <2>10, <3>4, <3>5 DEF EOF, PipeEOF
  <2>15. j.filePos >= f.filePos
    BY <1>1, <1>18, <2>2, <2>10
  <2> QED BY <2>4, <2>6, <2>10, <2>12, <2>13, <2>14, <2>15 DEF Answer, Reading
<1> QED BY <1>16, <1>17, <1>18

LEMMA ReadWorks ==
  ASSUME NEW f, FileInv(f), NEW n \in Nat, n >= 1, Readable(f, n)
  PROVE  Answer(f, n, ReadFile(f, n))
<1>1. f.kind \in {"rb", "mem", "memFile", "pipe"}
  BY ShapeFacts DEF FileInv, Readable, Kinds
<1>2. CASE f.kind = "rb"
  BY <1>2, ReadFILEWorks DEF ReadFile
<1>3. CASE f.kind = "mem"
  BY <1>3, MemReadWorks DEF ReadFile
<1>4. CASE f.kind = "memFile"
  BY <1>4, MemFileReadWorks DEF ReadFile, Readable
<1>5. CASE f.kind = "pipe"
  BY <1>5, PipeReadWorks DEF ReadFile
<1> QED BY <1>1, <1>2, <1>3, <1>4, <1>5

-----------------------------------------------------------------------------
(* Seeking.                                                                *)

(* What seeking to o in f answers.                                         *)
Sought(f, o, t) ==
  /\ FileInv(t.file) /\ t.result \in {"open", "exited", "refused"}
  /\ Holds(t.file) = Holds(f) /\ t.file.kind = f.kind
  /\ t.file.bytes = f.bytes
  /\ t.file.filePos = f.filePos /\ t.file.head = f.head
  /\ t.result = "open" => t.file.pos = o
  /\ t.result # "open" => t.file = f
  /\ t.result = "refused" => f.filePos > f.head

LEMMA SeekWorks ==
  ASSUME NEW f, FileInv(f), NEW o \in 0 .. MaxLen
  PROVE  Sought(f, o, SeekFile(f, o))
<1>1. /\ f \in Shapes /\ f.pos \in Nat /\ f.eof \in BOOLEAN /\ f.filePos \in Nat
      /\ Len(f.bytes) \in Nat /\ f.head \in Nat
  BY ShapeFacts DEF FileInv
<1>2. o \in Nat /\ o <= 2 * MaxLen
  BY Bounds
<1>3. f.filePos <= f.filePos /\ f.filePos <= Len(f.bytes)
  BY <1>1 DEF FileInv
<1>4. PICK t : t = SeekFile(f, o)
  OBVIOUS
<1>5. CASE f.kind # "pipe"
  <2>1. PICK e : e = (f.eof /\ f.kind \notin {"rb", "wb"}) /\ e \in BOOLEAN
    <3>1. (f.eof /\ f.kind \notin {"rb", "wb"}) \in BOOLEAN
      BY Zenon
    <3> QED BY <3>1, Zenon
  <2>2. PICK g : g = Moved(f, o, e, f.filePos)
    OBVIOUS
  <2>3. e \in BOOLEAN
    BY <2>1
  <2>4. /\ FileInv(g) /\ Holds(g) = Holds(f) /\ g.kind = f.kind /\ g.pos = o
        /\ g.bytes = f.bytes /\ g.filePos = f.filePos /\ g.head = f.head
    BY <1>1, <1>2, <1>3, <1>5, <2>2, <2>3, MovedInv
  <2>5. t = [file |-> g, result |-> "open"]
    <3>1. [f EXCEPT !.pos = o, !.eof = @ /\ f.kind \notin {"rb", "wb"}] =
            [f EXCEPT !.pos = o, !.eof = e]
      BY <2>1, Zenon
    <3>2. PICK x : x = [f EXCEPT !.pos = o]
      OBVIOUS
    <3>3. x = Moved(f, o, f.eof, f.filePos)
      BY <1>1, <3>2 DEF Shapes, Moved
    <3>4. [f EXCEPT !.pos = o, !.eof = e] = [x EXCEPT !.eof = e]
      BY <3>2, Zenon
    <3>5. [x EXCEPT !.eof = e] = g
      BY <2>2, <3>3 DEF Moved
    <3> QED BY <1>4, <1>5, <3>1, <3>4, <3>5 DEF SeekFile
  <2> QED BY <1>4, <2>4, <2>5 DEF Sought
<1>6. CASE f.kind = "pipe"
  <2>1. t = PipeSeek(f, o)
    BY <1>4, <1>6 DEF SeekFile
  <2>2. CASE o < f.head \/ o = f.filePos
    <3>1. PICK g : g = Moved(f, o, f.eof, f.filePos)
      OBVIOUS
    <3>2. o <= f.head \/ o = f.filePos
      BY <1>1, <1>2, <2>2
    <3>3. /\ FileInv(g) /\ Holds(g) = Holds(f) /\ g.kind = f.kind /\ g.pos = o
          /\ g.bytes = f.bytes /\ g.filePos = f.filePos /\ g.head = f.head
      BY <1>1, <1>2, <1>3, <3>1, <3>2, MovedInv
    <3>4. [f EXCEPT !.pos = o] = g
      BY <1>1, <1>2, <3>1, Moves
    <3>5. t = [file |-> g, result |-> "open"]
      <4>1. PICK d \in Nat, q \in Nat : d = f.head /\ q = f.filePos
        BY <1>1
      <4>2. CASE o < d
        BY <2>1, <3>4, <4>1, <4>2 DEF PipeSeek
      <4>3. CASE ~(o < d)
        <5>1. o >= d /\ o = q /\ ~(o < d)
          BY <1>2, <2>2, <4>1, <4>3
        <5> QED BY <2>1, <3>4, <4>1, <5>1 DEF PipeSeek
      <4> QED BY <4>2, <4>3
    <3> QED BY <1>4, <3>3, <3>5 DEF Sought
  <2>3. CASE ~(o < f.head \/ o = f.filePos)
    <3>1. PICK d \in Nat, q \in Nat : d = f.head /\ q = f.filePos
      BY <1>1
    <3>2. o >= d /\ o # q
      BY <1>2, <2>3, <3>1
    <3>3. \/ o > q /\ t = [file |-> f, result |-> "exited"]
          \/ o < q /\ t = [file |-> f, result |-> "refused"]
      BY <1>2, <2>1, <3>1, <3>2 DEF PipeSeek
    <3>4. o < q => f.filePos > f.head
      BY <1>2, <3>1, <3>2
    <3> QED BY <1>4, <3>3, <3>4 DEF Sought
  <2> QED BY <2>2, <2>3
<1> QED BY <1>5, <1>6

-----------------------------------------------------------------------------
(* Writing.                                                                *)

LEMMA StringFacts ==
  ASSUME NEW s \in Strings(2) \ {<<>>}
  PROVE  s \in Seq(Byte) /\ Len(s) \in Nat /\ s \in Seq(Cells)
<1>1. PICK k \in 0 .. 2 : s \in [1 .. k -> Byte]
  BY DEF Strings
<1>2. s \in Seq(Byte) /\ Len(s) = k
  BY <1>1
<1> QED BY <1>1, <1>2, Bounds

LEMMA Overwritten ==
  ASSUME NEW b \in Seq(Cells), NEW at \in Nat, NEW s \in Seq(Byte)
  PROVE  \E o \in Seq(Cells) :
           /\ Overwrite(b, at, s) = o
           /\ Len(o) = MaxOf(Len(b), at + Len(s))
           /\ \A i \in 1 .. Len(s) : o[at + i] = s[i]
           /\ \A i \in 1 .. Len(b) : i <= at \/ i > at + Len(s) => o[i] = b[i]
           /\ (\A i \in 1 .. Len(b) : b[i] # Junk) =>
                \A i \in 1 .. Len(o) : o[i] # Junk
<1>1. PICK l \in Nat, k \in Nat : l = Len(b) /\ k = Len(s)
  BY LenProperties
<1>2. PICK n \in Nat : n = MaxOf(l, at + k) /\ n >= l /\ n >= at + k
  BY DEF MaxOf
<1>3. PICK o : o = [i \in 1 .. n |-> IF i > at /\ i <= at + k THEN s[i - at]
                                     ELSE IF i <= l THEN b[i] ELSE Zero]
  OBVIOUS
<1>4. Overwrite(b, at, s) = o
  BY <1>1, <1>2, <1>3 DEF Overwrite
<1>5. \A i \in 1 .. k : s[i] \in Byte
  BY <1>1, ElementOfSeq
<1>6. \A i \in 1 .. l : b[i] \in Cells
  BY <1>1, ElementOfSeq
<1>7. ASSUME NEW i \in 1 .. n
      PROVE  o[i] = IF i > at /\ i <= at + k THEN s[i - at]
                    ELSE IF i <= l THEN b[i] ELSE Zero
  BY <1>3
<1>8. ASSUME NEW i \in 1 .. n
      PROVE  \/ i > at /\ i <= at + k /\ o[i] \in Byte /\ o[i] = s[i - at]
             \/ ~(i > at /\ i <= at + k) /\ i \in 1 .. l /\ o[i] = b[i]
             \/ o[i] = Zero /\ ~(i <= l)
  <2>1. CASE i > at /\ i <= at + k
    <3>1. i - at \in 1 .. k
      BY <2>1
    <3>2. o[i] = s[i - at]
      BY <1>7, <2>1
    <3>3. o[i] \in Byte
      BY <1>5, <3>1, <3>2
    <3> QED BY <2>1, <3>2, <3>3
  <2>2. CASE ~(i > at /\ i <= at + k)
    <3>1. o[i] = IF i <= l THEN b[i] ELSE Zero
      BY <1>7, <2>2
    <3> QED BY <2>2, <3>1
  <2> QED BY <2>1, <2>2
<1>9. \A i \in 1 .. n : o[i] \in Cells
  BY <1>6, <1>8, Bounds
<1>10. o \in Seq(Cells) /\ Len(o) = n
  <2>1. o \in [1 .. n -> Cells]
    BY <1>3, <1>9
  <2> QED BY <2>1
<1>11. ASSUME NEW i \in 1 .. k PROVE o[at + i] = s[i]
  <2>1. PICK x \in 1 .. n : x = at + i
    BY <1>2
  <2>2. x > at /\ x <= at + k /\ x - at = i /\ x <= n
    BY <2>1
  <2>3. o[x] = s[x - at]
    BY <1>7, <2>2
  <2> QED BY <2>1, <2>2, <2>3
<1>12. ASSUME NEW i \in 1 .. l, i <= at \/ i > at + k PROVE o[i] = b[i]
  <2>1. i \in 1 .. n /\ ~(i > at /\ i <= at + k) /\ i <= l
    BY <1>2, <1>12
  <2> QED BY <1>8, <2>1
<1>13. ASSUME \A i \in 1 .. l : b[i] # Junk, NEW i \in 1 .. n PROVE o[i] # Junk
  BY <1>8, <1>13, Bounds
<1> QED BY <1>1, <1>2, <1>4, <1>10, <1>11, <1>12, <1>13

LEMMA DoubledWorks ==
  ASSUME NEW f \in Shapes, Len(f.bytes) >= 1, NEW end \in Nat
  PROVE  /\ Doubled(f, end) \in Seq(Cells)
         /\ Len(Doubled(f, end)) >= Len(f.bytes) /\ Len(Doubled(f, end)) >= end
         /\ Len(Doubled(f, end)) <= MaxOf(Len(f.bytes), 2 * end)
         /\ \A i \in 1 .. Len(f.bytes) : Doubled(f, end)[i] = f.bytes[i]
<1>1. PICK m \in Nat \ {0}, b \in Seq(Cells) : b = f.bytes /\ m = Len(b)
  BY ShapeFacts
<1> DEFINE Enough(n) == /\ n >= end
                        /\ \E p \in 1 .. n : Power(p) /\ n = m * p
                        /\ n > m => n \div 2 < end
<1>2. \E n \in m .. MaxOf(m, 2 * end) : Enough(n)
  BY DoubledLen
<1>3. PICK n : n = CHOOSE x \in m .. MaxOf(m, 2 * end) : Enough(x)
  OBVIOUS
<1>4. n \in m .. MaxOf(m, 2 * end) /\ Enough(n)
  BY <1>2, <1>3
<1>5. Doubled(f, end) = b \o Junks(n - m)
  BY <1>1, <1>3 DEF Doubled
<1>6. n \in Nat /\ n >= m /\ n >= end /\ n <= MaxOf(m, 2 * end)
  BY <1>4 DEF MaxOf
<1>7. PICK k \in Nat : k = n - m
  BY <1>6
<1>8. Junks(k) \in Seq(Cells) /\ Len(Junks(k)) = k
  <2>1. PICK j : j = [i \in 1 .. k |-> Junk]
    OBVIOUS
  <2>2. j \in [1 .. k -> Cells]
    BY <2>1, Bounds
  <2>3. j \in Seq(Cells) /\ Len(j) = k
    BY <2>2
  <2> QED BY <2>1, <2>3 DEF Junks
<1> HIDE DEF Enough
<1>9. PICK j \in Seq(Cells) : j = Junks(k)
  BY <1>8
<1>10. /\ b \o j \in Seq(Cells) /\ Len(b \o j) = Len(b) + Len(j)
       /\ \A i \in 1 .. Len(b) + Len(j) :
            (b \o j)[i] = IF i <= Len(b) THEN b[i] ELSE j[i - Len(b)]
  BY ConcatProperties
<1>11. Len(b) = m /\ Len(j) = k /\ m + k = n
  <2>1. Len(b) = m
    BY <1>1
  <2>2. Len(j) = k
    BY <1>8, <1>9
  <2>3. m + k = n
    BY <1>6, <1>7
  <2> QED BY <2>1, <2>2, <2>3
<1>12. Len(b \o j) = n
  BY <1>10, <1>11
<1>13. \A i \in 1 .. m : (b \o j)[i] = b[i]
  <2>1. \A i \in 1 .. m : i \in 1 .. Len(b) + Len(j) /\ i <= Len(b)
    BY <1>11
  <2> QED BY <1>10, <2>1
<1>14. Doubled(f, end) = b \o j
  BY <1>5, <1>7, <1>9
<1> QED BY <1>1, <1>6, <1>10, <1>12, <1>13, <1>14

(* What writing s to f makes of it.                                        *)
Wrote(f, s, g) ==
  /\ FileInv(g) /\ g.kind = f.kind /\ g.pos = f.pos + Len(s)
  /\ g.filePos = f.filePos /\ g.head = f.head
  /\ Len(Holds(g)) >= Len(Holds(f)) /\ f.pos + Len(s) <= Len(Holds(g))
  /\ \A i \in 1 .. Len(s) : Holds(g)[f.pos + i] = s[i]
  /\ \A i \in 1 .. Len(Holds(f)) : i <= f.pos \/ i > f.pos + Len(s) =>
       Holds(g)[i] = Holds(f)[i]

(* A file whose bytes, size and position are others.                       *)
Filled(f, b, z, p) == [kind |-> f.kind, bytes |-> b, size |-> z, pos |-> p,
                       eof |-> f.eof, filePos |-> f.filePos, head |-> f.head]

LEMMA FilledInv ==
  ASSUME NEW f, FileInv(f), f.kind # "pipe", NEW b \in Seq(Cells), NEW z \in Nat,
         NEW p \in Nat, p <= MaxLen, Len(b) >= Len(f.bytes), Len(b) >= p,
         Len(b) <= MaxOf(Len(f.bytes), 2 * p),
         z <= Len(b), f.kind = "memFile" => z <= MaxLen,
         f.kind \notin Buffers => \A i \in 1 .. Len(b) : b[i] # Junk
  PROVE  /\ FileInv(Filled(f, b, z, p)) /\ Filled(f, b, z, p).kind = f.kind
         /\ Filled(f, b, z, p).pos = p /\ Filled(f, b, z, p).bytes = b
         /\ Filled(f, b, z, p).size = z
         /\ Filled(f, b, z, p).filePos = f.filePos /\ Filled(f, b, z, p).head = f.head
<1>1. PICK g : g = Filled(f, b, z, p)
  OBVIOUS
<1>2. /\ g.kind = f.kind /\ g.pos = p /\ g.bytes = b /\ g.size = z
      /\ g.filePos = f.filePos /\ g.head = f.head
  BY <1>1 DEF Filled
<1>3. f \in Shapes
  BY DEF FileInv
<1>4. g \in Shapes
  BY <1>1, <1>3, ShapeFacts DEF Filled, Shapes
<1>5. PICK l \in Nat, m \in Nat : l = Len(b) /\ m = Len(f.bytes)
  BY <1>3, ShapeFacts, LenProperties
<1>6. Len(g.bytes) >= 1 \/ f.kind \notin Buffers
  BY <1>2, <1>5 DEF FileInv
<1>7. PICK r \in Nat : r = IF f.kind = "memFile" THEN FirstRoom ELSE 0
  BY Bounds
<1>8. l <= 2 * MaxLen + r
  <2>1. m <= 2 * MaxLen + r
    BY <1>5, <1>7 DEF FileInv
  <2>2. l <= MaxOf(m, 2 * p)
    BY <1>5
  <2>3. CASE m >= 2 * p
    BY <2>1, <2>2, <2>3, Bounds DEF MaxOf
  <2>4. CASE ~(m >= 2 * p)
    BY <2>2, <2>4, Bounds DEF MaxOf
  <2> QED BY <2>3, <2>4
<1>9. g.pos <= 2 * MaxLen
  BY <1>2, Bounds
<1>10. g.head <= g.filePos /\ g.filePos <= Len(g.bytes)
  BY <1>2, <1>3, <1>5, ShapeFacts DEF FileInv
<1>11. FileInv(g)
  BY <1>2, <1>4, <1>5, <1>6, <1>7, <1>8, <1>9, <1>10 DEF FileInv
<1> QED BY <1>1, <1>2, <1>11

LEMMA WriteFILEWorks ==
  ASSUME NEW f, FileInv(f), f.kind = "wb", NEW s \in Strings(2) \ {<<>>},
         f.pos + Len(s) <= MaxLen
  PROVE  Wrote(f, s, WriteFILE(f, s))
<1>1. f \in Shapes /\ f.pos \in Nat /\ f.bytes \in Seq(Cells) /\ f.size \in Nat
      /\ Len(f.bytes) \in Nat
  BY ShapeFacts DEF FileInv
<1>2. s \in Seq(Byte) /\ Len(s) \in Nat
  BY StringFacts
<1>3. PICK a \in Nat, c \in Seq(Cells), z \in Nat : a = f.pos /\ c = f.bytes /\ z = f.size
  BY <1>1
<1>4. PICK b \in Seq(Cells) :
        /\ Overwrite(c, a, s) = b
        /\ Len(b) = MaxOf(Len(c), a + Len(s))
        /\ \A i \in 1 .. Len(s) : b[a + i] = s[i]
        /\ \A i \in 1 .. Len(c) : i <= a \/ i > a + Len(s) => b[i] = c[i]
        /\ (\A i \in 1 .. Len(c) : c[i] # Junk) =>
             \A i \in 1 .. Len(b) : b[i] # Junk
  BY <1>2, Overwritten
<1>5. PICK p \in Nat, l \in Nat : p = f.pos + Len(s) /\ l = Len(f.bytes)
  BY <1>1, <1>2
<1>6. PICK m \in Nat : m = MaxOf(l, p) /\ p = f.pos + Len(s) /\ l = Len(f.bytes)
  BY <1>5 DEF MaxOf
<1>7. b \in Seq(Cells) /\ Len(b) = m
  BY <1>3, <1>4, <1>6
<1>8. /\ \A i \in 1 .. Len(s) : b[f.pos + i] = s[i]
      /\ \A i \in 1 .. l : i <= f.pos \/ i > p => b[i] = f.bytes[i]
  BY <1>3, <1>4, <1>6
<1>9. \A i \in 1 .. Len(b) : b[i] # Junk
  <2>1. \A i \in 1 .. Len(f.bytes) : f.bytes[i] # Junk
    BY DEF FileInv, Buffers
  <2> QED BY <1>3, <1>4, <2>1
<1>10. PICK g : g = Filled(f, b, f.size, p)
  OBVIOUS
<1>11. FileInv(g) /\ g.kind = f.kind /\ g.pos = p /\ g.bytes = b
      /\ g.filePos = f.filePos /\ g.head = f.head
  <2>1. p <= MaxLen /\ Len(b) >= l /\ Len(b) >= p /\ Len(b) <= MaxOf(l, 2 * p)
    BY <1>6, <1>7 DEF MaxOf
  <2>2. z <= Len(b)
    <3>1. z <= l
      BY <1>3, <1>6 DEF FileInv
    <3> QED BY <1>6, <1>7, <2>1, <3>1
  <2>3. /\ Len(b) >= Len(f.bytes) /\ Len(b) <= MaxOf(Len(f.bytes), 2 * p)
        /\ f.kind # "pipe" /\ f.kind # "memFile"
    BY <1>6, <2>1
  <2>4. g = Filled(f, b, z, p)
    BY <1>3, <1>10
  <2>5. /\ f.kind = "memFile" => z <= MaxLen
        /\ f.kind \notin Buffers => \A i \in 1 .. Len(b) : b[i] # Junk
    BY <1>9, <2>3
  <2>6. /\ FileInv(Filled(f, b, z, p)) /\ Filled(f, b, z, p).kind = f.kind
        /\ Filled(f, b, z, p).pos = p /\ Filled(f, b, z, p).bytes = b
        /\ Filled(f, b, z, p).size = z
        /\ Filled(f, b, z, p).filePos = f.filePos /\ Filled(f, b, z, p).head = f.head
    BY <2>1, <2>2, <2>3, <2>5, FilledInv
  <2> QED BY <2>4, <2>6
<1>12. WriteFILE(f, s) = g
  <2>1. WriteFILE(f, s) = [f EXCEPT !.bytes = b, !.pos = p]
    BY <1>3, <1>4, <1>6 DEF WriteFILE
  <2>2. PICK x : x = [f EXCEPT !.bytes = b]
    OBVIOUS
  <2>3. x = Filled(f, b, f.size, f.pos)
    BY <1>1, <2>2 DEF Shapes, Filled
  <2>4. [f EXCEPT !.bytes = b, !.pos = p] = [x EXCEPT !.pos = p]
    BY <2>2, Zenon
  <2>5. [x EXCEPT !.pos = p] = g
    BY <1>10, <2>3 DEF Filled
  <2> QED BY <2>1, <2>4, <2>5
<1>13. Holds(f) = f.bytes /\ Holds(g) = b
  BY <1>11 DEF Holds
<1>14. Len(b) >= l /\ p <= Len(b)
  BY <1>6, <1>7 DEF MaxOf
<1> QED BY <1>6, <1>8, <1>11, <1>12, <1>13, <1>14 DEF Wrote

LEMMA MemWriteWorks ==
  ASSUME NEW f, FileInv(f), f.kind = "mem", NEW s \in Strings(2) \ {<<>>},
         f.pos + Len(s) <= MaxLen
  PROVE  Wrote(f, s, MemWrite(f, s))
<1>1. f \in Shapes /\ f.pos \in Nat /\ f.bytes \in Seq(Cells) /\ f.size \in Nat
      /\ Len(f.bytes) \in Nat
  BY ShapeFacts DEF FileInv
<1>2. s \in Seq(Byte) /\ Len(s) \in Nat
  BY StringFacts
<1>3. PICK p \in Nat, l \in Nat : p = f.pos + Len(s) /\ l = Len(f.bytes) /\ l >= 1
  BY <1>1, <1>2 DEF FileInv, Buffers
<1>4. PICK d : d = Doubled(f, p)
  OBVIOUS
<1>5. /\ d \in Seq(Cells) /\ Len(d) >= l /\ Len(d) >= p /\ Len(d) <= MaxOf(l, 2 * p)
      /\ \A i \in 1 .. l : d[i] = f.bytes[i]
  BY <1>1, <1>3, <1>4, DoubledWorks
<1>6. PICK a \in Nat, z \in Nat : a = f.pos /\ z = f.size /\ z <= l
  BY <1>1, <1>3 DEF FileInv
<1>7. PICK b \in Seq(Cells) :
        /\ Overwrite(d, a, s) = b
        /\ Len(b) = MaxOf(Len(d), a + Len(s))
        /\ \A i \in 1 .. Len(s) : b[a + i] = s[i]
        /\ \A i \in 1 .. Len(d) : i <= a \/ i > a + Len(s) => b[i] = d[i]
        /\ (\A i \in 1 .. Len(d) : d[i] # Junk) =>
             \A i \in 1 .. Len(b) : b[i] # Junk
  BY <1>2, <1>5, Overwritten
<1>8. PICK m \in Nat : m = Len(d)
  BY <1>5, LenProperties
<1>9. b \in Seq(Cells) /\ Len(b) = m
  <2>1. Len(b) = MaxOf(m, p)
    BY <1>3, <1>6, <1>7, <1>8
  <2> QED BY <1>5, <1>8, <2>1 DEF MaxOf
<1>10. /\ \A i \in 1 .. Len(s) : b[f.pos + i] = s[i]
       /\ \A i \in 1 .. m : i <= f.pos \/ i > p => b[i] = d[i]
  BY <1>3, <1>6, <1>7, <1>8
<1>11. \A i \in 1 .. l : i <= f.pos \/ i > p => b[i] = f.bytes[i]
  <2>1. \A i \in 1 .. l : i \in 1 .. m
    BY <1>5, <1>8
  <2> QED BY <1>5, <1>10, <2>1
<1>12. PICK g : g = Filled(f, b, f.size, p)
  OBVIOUS
<1>13. FileInv(g) /\ g.kind = f.kind /\ g.pos = p /\ g.bytes = b
       /\ g.filePos = f.filePos /\ g.head = f.head
  <2>1. p <= MaxLen /\ Len(b) >= l /\ Len(b) >= p /\ Len(b) <= MaxOf(l, 2 * p)
    BY <1>3, <1>5, <1>8, <1>9
  <2>2. z <= Len(b)
    BY <1>6, <1>9, <2>1
  <2>3. f.kind \in Buffers /\ f.kind # "pipe" /\ f.kind # "memFile"
    BY DEF Buffers
  <2>4. Len(b) >= Len(f.bytes) /\ Len(b) <= MaxOf(Len(f.bytes), 2 * p)
    BY <1>3, <2>1
  <2>5. g = Filled(f, b, z, p)
    BY <1>6, <1>12
  <2> QED BY <2>1, <2>2, <2>3, <2>4, <2>5, FilledInv
<1>14. MemWrite(f, s) = g
  <2>1. MemWrite(f, s) = [f EXCEPT !.bytes = b, !.pos = p]
    BY <1>3, <1>4, <1>6, <1>7 DEF MemWrite
  <2>2. PICK x : x = [f EXCEPT !.bytes = b]
    OBVIOUS
  <2>3. x = Filled(f, b, f.size, f.pos)
    BY <1>1, <2>2 DEF Shapes, Filled
  <2>4. [f EXCEPT !.bytes = b, !.pos = p] = [x EXCEPT !.pos = p]
    BY <2>2, Zenon
  <2>5. [x EXCEPT !.pos = p] = g
    BY <1>12, <2>3 DEF Filled
  <2> QED BY <2>1, <2>4, <2>5
<1>15. Holds(f) = f.bytes /\ Holds(g) = b
  BY <1>13 DEF Holds
<1>16. Len(b) >= l /\ p <= Len(b)
  BY <1>5, <1>8, <1>9
<1> QED BY <1>3, <1>10, <1>11, <1>13, <1>14, <1>15, <1>16 DEF Wrote

(* A beginning of a sequence.                                              *)
LEMMA Beginning ==
  ASSUME NEW b \in Seq(Cells), NEW z \in Nat, z <= Len(b)
  PROVE  /\ SubSeq(b, 1, z) \in Seq(Cells) /\ Len(SubSeq(b, 1, z)) = z
         /\ \A i \in 1 .. z : SubSeq(b, 1, z)[i] = b[i]
<1>1. /\ SubSeq(b, 0 + 1, z) \in Seq(Cells)
      /\ Len(SubSeq(b, 0 + 1, z)) = IF 0 <= z THEN z - 0 ELSE 0
      /\ \A i \in 1 .. z - 0 : SubSeq(b, 0 + 1, z)[i] = b[0 + i]
  BY Piece
<1>2. 0 + 1 = 1 /\ z - 0 = z /\ \A i \in 1 .. z : 0 + i = i
  OBVIOUS
<1> QED BY <1>1, <1>2

LEMMA MemFileWriteWorks ==
  ASSUME NEW f, FileInv(f), f.kind = "memFile", NEW s \in Strings(2) \ {<<>>},
         f.pos + Len(s) <= MaxLen
  PROVE  Wrote(f, s, MemFileWrite(f, s))
<1>1. f \in Shapes /\ f.pos \in Nat /\ f.bytes \in Seq(Cells) /\ f.size \in Nat
      /\ Len(f.bytes) \in Nat
  BY ShapeFacts DEF FileInv
<1>2. s \in Seq(Byte) /\ Len(s) \in Nat
  BY StringFacts
<1>3. PICK p \in Nat, l \in Nat, z \in Nat, a \in Nat :
        /\ p = f.pos + Len(s) /\ l = Len(f.bytes) /\ l >= 1 /\ z = f.size /\ a = f.pos
        /\ z <= l /\ z <= MaxLen
  BY <1>1, <1>2 DEF FileInv, Buffers
<1>4. PICK d : d = Doubled(f, p)
  OBVIOUS
<1>5. /\ d \in Seq(Cells) /\ Len(d) >= l /\ Len(d) >= p /\ Len(d) <= MaxOf(l, 2 * p)
      /\ \A i \in 1 .. l : d[i] = f.bytes[i]
  BY <1>1, <1>3, <1>4, DoubledWorks
<1>6. PICK m \in Nat : m = Len(d)
  BY <1>5, LenProperties
<1>7. PICK c : c = [i \in DOMAIN d |-> IF i > z /\ i <= p THEN Zero ELSE d[i]]
  OBVIOUS
<1>8. c \in Seq(Cells) /\ Len(c) = m
  <2>1. c = [i \in 1 .. m |-> IF i > z /\ i <= p THEN Zero ELSE d[i]]
    BY <1>5, <1>6, <1>7, LenProperties
  <2>2. \A i \in 1 .. m : d[i] \in Cells
    BY <1>5, <1>6, ElementOfSeq
  <2>3. c \in [1 .. m -> Cells]
    BY <2>1, <2>2, Bounds
  <2> QED BY <2>3
<1>9. \A i \in 1 .. z : c[i] = f.bytes[i]
  <2>1. DOMAIN d = 1 .. m
    BY <1>5, <1>6, LenProperties
  <2>2. \A i \in 1 .. z : i \in 1 .. m /\ i \in 1 .. l /\ ~(i > z)
    BY <1>3, <1>5, <1>6
  <2> QED BY <1>5, <1>7, <2>1, <2>2
<1>10. PICK b \in Seq(Cells) :
         /\ Overwrite(c, a, s) = b
         /\ Len(b) = MaxOf(Len(c), a + Len(s))
         /\ \A i \in 1 .. Len(s) : b[a + i] = s[i]
         /\ \A i \in 1 .. Len(c) : i <= a \/ i > a + Len(s) => b[i] = c[i]
         /\ (\A i \in 1 .. Len(c) : c[i] # Junk) =>
              \A i \in 1 .. Len(b) : b[i] # Junk
  BY <1>2, <1>8, Overwritten
<1>11. b \in Seq(Cells) /\ Len(b) = m
  <2>1. Len(b) = MaxOf(m, p)
    BY <1>3, <1>8, <1>10
  <2> QED BY <1>5, <1>6, <2>1 DEF MaxOf
<1>12. /\ \A i \in 1 .. Len(s) : b[a + i] = s[i]
       /\ \A i \in 1 .. m : i <= a \/ i > p => b[i] = c[i]
  BY <1>3, <1>8, <1>10
<1>13. p <= MaxLen /\ p <= m /\ z <= m
  BY <1>3, <1>5, <1>6
<1>14. PICK y \in Nat : y = MaxOf(p, z) /\ y >= p /\ y >= z /\ y <= m /\ y <= MaxLen
  <2>1. z <= MaxLen
    BY <1>3
  <2>2. CASE p >= z
    <3>1. MaxOf(p, z) = p
      BY <2>2 DEF MaxOf
    <3> QED BY <1>13, <2>2, <3>1
  <2>3. CASE p < z
    <3>1. MaxOf(p, z) = z
      BY <2>3 DEF MaxOf
    <3> QED BY <1>13, <2>1, <2>3, <3>1
  <2> QED BY <2>2, <2>3
<1>15. PICK g : g = Filled(f, b, y, p)
  OBVIOUS
<1>16. FileInv(g) /\ g.kind = f.kind /\ g.pos = p /\ g.bytes = b /\ g.size = y
       /\ g.filePos = f.filePos /\ g.head = f.head
  <2>1. p <= MaxLen /\ Len(b) >= l /\ Len(b) >= p /\ Len(b) <= MaxOf(l, 2 * p)
    BY <1>3, <1>5, <1>6, <1>11
  <2>2. y <= Len(b)
    BY <1>11, <1>14
  <2>3. f.kind \in Buffers /\ f.kind # "pipe"
    BY DEF Buffers
  <2>4. Len(b) >= Len(f.bytes) /\ Len(b) <= MaxOf(Len(f.bytes), 2 * p)
    BY <1>3, <2>1
  <2> QED BY <1>14, <1>15, <2>1, <2>2, <2>3, <2>4, FilledInv
<1>17. MemFileWrite(f, s) = g
  <2>1. MemFileWrite(f, s) = [f EXCEPT !.bytes = b, !.size = y, !.pos = p]
    BY <1>3, <1>4, <1>7, <1>10, <1>14 DEF MemFileWrite
  <2>2. PICK x : x = [f EXCEPT !.bytes = b]
    OBVIOUS
  <2>3. x = Filled(f, b, f.size, f.pos)
    BY <1>1, <2>2 DEF Shapes, Filled
  <2>4. PICK w : w = [x EXCEPT !.size = y]
    OBVIOUS
  <2>5. w = Filled(f, b, y, f.pos)
    BY <2>3, <2>4 DEF Filled
  <2>6. [f EXCEPT !.bytes = b, !.size = y, !.pos = p] = [w EXCEPT !.pos = p]
    BY <2>2, <2>4, Zenon
  <2>7. [w EXCEPT !.pos = p] = g
    BY <1>15, <2>5 DEF Filled
  <2> QED BY <2>1, <2>6, <2>7
<1>18. /\ Holds(f) = SubSeq(f.bytes, 1, z) /\ Len(Holds(f)) = z
       /\ \A i \in 1 .. z : Holds(f)[i] = f.bytes[i]
  <2>1. Holds(f) = SubSeq(f.bytes, 1, z)
    BY <1>3 DEF Holds
  <2> QED BY <1>1, <1>3, <2>1, Beginning
<1>19. /\ Len(Holds(g)) = y
       /\ \A i \in 1 .. y : Holds(g)[i] = b[i]
  <2>1. Holds(g) = SubSeq(b, 1, y)
    BY <1>16 DEF Holds
  <2> QED BY <1>11, <1>14, <2>1, Beginning
<1>20. ASSUME NEW i \in 1 .. Len(s) PROVE Holds(g)[a + i] = s[i]
  <2>1. a + i \in 1 .. y
    <3>1. PICK k \in Nat : k = Len(s) /\ p = a + k
      BY <1>2, <1>3
    <3> QED BY <1>14, <3>1
  <2> QED BY <1>12, <1>19, <2>1
<1>21. ASSUME NEW i \in 1 .. z, i <= a \/ i > p
       PROVE  Holds(g)[i] = Holds(f)[i]
  <2>1. i \in 1 .. y /\ i \in 1 .. m
    BY <1>14
  <2>2. Holds(g)[i] = c[i]
    BY <1>12, <1>19, <1>21, <2>1
  <2> QED BY <1>9, <1>18, <2>2
<1> QED BY <1>3, <1>14, <1>16, <1>17, <1>18, <1>19, <1>20, <1>21 DEF Wrote

LEMMA WriteWorks ==
  ASSUME NEW f, FileInv(f), f.kind \in {"wb", "mem", "memFile"},
         NEW s \in Strings(2) \ {<<>>}, f.pos + Len(s) <= MaxLen
  PROVE  Wrote(f, s, WriteFile(f, s))
<1>1. CASE f.kind = "wb"
  BY <1>1, WriteFILEWorks DEF WriteFile
<1>2. CASE f.kind = "mem"
  BY <1>2, MemWriteWorks DEF WriteFile
<1>3. CASE f.kind = "memFile"
  BY <1>3, MemFileWriteWorks DEF WriteFile
<1> QED BY <1>1, <1>2, <1>3

-----------------------------------------------------------------------------
(* The invariant.                                                          *)

Statuses == {"open", "wild", "stuck", "exited", "astray", "refused"}

FilesInv ==
  /\ FileInv(file)
  /\ answer \in Seq(Cells)
  /\ asked \in [at : Nat, want : 0 .. MaxLen]
  /\ status \in Statuses
  /\ ShortReadMeansEOF
  /\ TroubleOnlyPastHead

LEMMA InitFile ==
  ASSUME NEW bytes \in Strings(MaxLen), NEW kind \in Kinds,
         kind = "mem" => bytes # <<>>
  PROVE  FileInv(Created(kind, bytes)) /\ Created(kind, bytes).pos = 0
<1>1. PICK l \in Nat : bytes \in [1 .. l -> Byte] /\ l <= MaxLen
  BY Bounds DEF Strings
<1>2. bytes \in Seq(Byte) /\ bytes \in Seq(Cells) /\ Len(bytes) = l
      /\ \A i \in 1 .. l : bytes[i] \in Byte
  <2>1. bytes \in [1 .. l -> Cells]
    BY <1>1, Bounds
  <2> QED BY <1>1, <2>1
<1>3. PICK r \in Nat : r = MaxOf(FirstRoom, l) - l /\ l + r <= FirstRoom + MaxLen
                       /\ l + r >= 1
  <2>1. PICK m \in Nat : m = MaxOf(FirstRoom, l) /\ m >= l /\ m <= FirstRoom + MaxLen
                         /\ m >= 1
    BY <1>1, Bounds DEF MaxOf
  <2> QED BY <2>1
<1>4. PICK j \in Seq(Cells) : j = Junks(r) /\ Len(j) = r
  <2>1. PICK j : j = [i \in 1 .. r |-> Junk]
    OBVIOUS
  <2>2. j \in [1 .. r -> Cells]
    BY <2>1, Bounds
  <2>3. j \in Seq(Cells) /\ Len(j) = r
    BY <2>2
  <2> QED BY <2>1, <2>3 DEF Junks
<1>5. bytes \o j \in Seq(Cells) /\ Len(bytes \o j) = l + r
  <2>1. bytes \o j \in Seq(Cells) /\ Len(bytes \o j) = Len(bytes) + Len(j)
    BY <1>2, ConcatProperties
  <2> QED BY <1>2, <1>4, <2>1
<1>6. PICK b \in Seq(Cells) : b = IF kind = "memFile" THEN bytes \o j ELSE bytes
  BY <1>2, <1>5
<1>7. PICK h \in Nat : h = (IF kind = "pipe" THEN MinOf(PipeBuffer, l) ELSE 0) /\ h <= l
  BY Bounds DEF MinOf
<1>8. PICK e : e = (kind = "pipe" /\ Len(bytes) < PipeBuffer) /\ e \in BOOLEAN
  <2>1. (kind = "pipe" /\ Len(bytes) < PipeBuffer) \in BOOLEAN
    BY Zenon
  <2> QED BY <2>1, Zenon
<1>9. PICK f : f = Created(kind, bytes)
  OBVIOUS
<1>10. /\ f = [kind |-> kind, bytes |-> b, size |-> l, pos |-> 0, eof |-> e,
               filePos |-> h, head |-> h]
  <2>1. b = IF kind = "memFile"
            THEN bytes \o Junks(MaxOf(FirstRoom, Len(bytes)) - Len(bytes))
            ELSE bytes
    BY <1>2, <1>3, <1>4, <1>6
  <2>2. h = IF kind = "pipe" THEN MinOf(PipeBuffer, Len(bytes)) ELSE 0
    BY <1>2, <1>7
  <2> QED BY <1>2, <1>8, <1>9, <2>1, <2>2, Zenon DEF Created
<1>11. e \in BOOLEAN
  BY <1>8
<1>12. f \in Shapes
  BY <1>10, <1>11 DEF Shapes
<1>13. /\ f.kind = kind /\ f.bytes = b /\ f.size = l /\ f.pos = 0
       /\ f.filePos = h /\ f.head = h
  BY <1>10
<1>14. PICK n \in Nat : n = Len(b) /\ n >= l
  BY <1>2, <1>5, <1>6
<1>15. kind = "memFile" => n = l + r
  BY <1>5, <1>6, <1>14
<1>16. kind # "memFile" => n = l /\ b = bytes
  BY <1>2, <1>6, <1>14
<1>17. f.kind \in Buffers => Len(f.bytes) >= 1
  <2>1. kind = "mem" => l >= 1
    BY <1>1, <1>2, EmptySeq
  <2> QED BY <1>3, <1>13, <1>14, <1>15, <1>16, <2>1 DEF Buffers
<1>18. f.kind \notin Buffers => \A i \in 1 .. Len(f.bytes) : f.bytes[i] # Junk
  BY <1>2, <1>13, <1>14, <1>16, Bounds DEF Buffers
<1>19. Len(f.bytes) <= 2 * MaxLen + (IF f.kind = "memFile" THEN FirstRoom ELSE 0)
  BY <1>1, <1>3, <1>13, <1>14, <1>15, <1>16, Bounds
<1>20. f.pos <= 2 * MaxLen
  BY <1>13, Bounds
<1>21. f.size <= Len(f.bytes) /\ f.size <= MaxLen /\ f.head <= f.filePos
       /\ f.filePos <= Len(f.bytes) /\ f.pos <= f.head
  BY <1>1, <1>7, <1>13, <1>14
<1> QED BY <1>9, <1>12, <1>13, <1>17, <1>18, <1>19, <1>20, <1>21 DEF FileInv

LEMMA FilesInitially == Init => FilesInv /\ Bytes!FileInit
<1> SUFFICES ASSUME Init PROVE FilesInv /\ Bytes!FileInit
  OBVIOUS
<1>1. PICK bytes \in Strings(MaxLen) :
        \E kind \in {"rb", "wb", "mem", "memFile", "pipe"} :
          /\ kind = "wb" => bytes = <<>>
          /\ kind = "mem" => bytes # <<>>
          /\ file = Created(kind, bytes)
  BY DEF Init
<1>2. PICK kind \in Kinds : (kind = "mem" => bytes # <<>>) /\ file = Created(kind, bytes)
  BY <1>1 DEF Kinds
<1>3. FileInv(file) /\ file.pos = 0
  BY <1>2, InitFile
<1>4. answer = <<>> /\ asked = [at |-> 0, want |-> 0] /\ status = "open"
  BY DEF Init, Nothing, Asking
<1>5. answer \in Seq(Cells) /\ asked \in [at : Nat, want : 0 .. MaxLen]
      /\ status \in Statuses
  BY <1>4, Bounds, EmptySeq DEF Statuses
<1>6. ShortReadMeansEOF /\ TroubleOnlyPastHead
  <2>1. Len(answer) = 0 /\ asked.want = 0
    BY <1>4, EmptySeq
  <2> QED BY <1>4, <2>1 DEF ShortReadMeansEOF, TroubleOnlyPastHead
<1>7. Bytes!FileInit
  BY <1>3, <1>4 DEF Bytes!FileInit, Bytes!None
<1> QED BY <1>3, <1>5, <1>6, <1>7 DEF FilesInv

(* A read step, of a file that is what it was but for its position.        *)
LEMMA ReadStep ==
  ASSUME FilesInv, status = "open", NEW f, FileInv(f), NEW n \in 1 .. MaxLen,
         Readable(f, n), Holds(f) = Content, f.pos \in Nat,
         Reads(ReadFile(f, n), f.pos, n)
  PROVE  /\ FilesInv'
         /\ \/ Bytes!Fail
            \/ Bytes!Answers /\ answer' \in Seq(Cells) /\ file'.pos = f.pos + Len(answer')
<1>1. PICK r : r = ReadFile(f, n)
  OBVIOUS
<1>2. n \in Nat /\ n >= 1 /\ n <= MaxLen
  BY Bounds
<1>3. Answer(f, n, r)
  BY <1>1, <1>2, ReadWorks
<1>4. /\ file' = r.file /\ answer' = r.answer /\ asked' = [at |-> f.pos, want |-> n]
      /\ status' = r.status
  BY <1>1 DEF Reads, Asking
<1>5. /\ FileInv(file') /\ answer' \in Seq(Cells) /\ Holds(file') = Holds(f)
      /\ status' \in {"open", "wild", "stuck"}
  BY <1>3, <1>4 DEF Answer
<1>6. asked' \in [at : Nat, want : 0 .. MaxLen] /\ asked'.at = f.pos /\ asked'.want = n
  BY <1>2, <1>4
<1>7. /\ status' = "open" => /\ answer' = Bytes!Due(Holds(f), f.pos, n)
                             /\ file'.pos = f.pos + Len(answer')
                             /\ Len(answer') < n => EOF(file')
      /\ status' = "stuck" => file'.filePos > file'.head
      /\ status' = "wild" => file'.kind = "mem" /\ file'.pos > Len(file'.bytes)
  BY <1>3, <1>4 DEF Answer
<1>8. FilesInv'
  <2>1. (FileInv(file) /\ status \in Statuses)'
    BY <1>5 DEF Statuses
  <2>2. ShortReadMeansEOF'
    BY <1>6, <1>7 DEF ShortReadMeansEOF
  <2>3. TroubleOnlyPastHead'
    BY <1>5, <1>7 DEF TroubleOnlyPastHead, Room
  <2> QED BY <1>5, <1>6, <2>1, <2>2, <2>3 DEF FilesInv
<1>9. CASE status' # "open"
  BY <1>8, <1>9 DEF Bytes!Fail
<1>10. CASE status' = "open"
  <2>1. Content' = Holds(file')
    BY DEF Content, Holds
  <2>2. Content' = Content
    BY <1>5, <2>1
  <2>3. Bytes!Answers
    BY <1>6, <1>7, <1>10, <2>2 DEF Bytes!Answers, Bytes!Stays
  <2> QED BY <1>5, <1>7, <1>8, <1>10, <2>3
<1> QED BY <1>9, <1>10

LEMMA ReadsWork ==
  ASSUME FilesInv, NEW n \in 1 .. MaxLen, Read(n)
  PROVE  FilesInv' /\ Bytes!FileNext
<1>1. /\ status = "open" /\ Readable(file, n) /\ FileInv(file) /\ file.pos \in Nat
      /\ Reads(ReadFile(file, n), file.pos, n) /\ Holds(file) = Content
  BY ShapeFacts DEF Read, FilesInv, FileInv, Holds, Content
<1>2. /\ FilesInv'
      /\ \/ Bytes!Fail
         \/ /\ Bytes!Answers /\ answer' \in Seq(Cells)
            /\ file'.pos = file.pos + Len(answer')
  BY <1>1, ReadStep
<1>3. asked' = [at |-> file.pos, want |-> n]
  BY <1>1 DEF Reads, Asking
<1>4. CASE Bytes!Fail
  BY <1>2, <1>4 DEF Bytes!FileNext
<1>5. CASE Bytes!Answers /\ file'.pos = file.pos + Len(answer')
  <2>1. Bytes!Read
    BY <1>3, <1>5 DEF Bytes!Read, Bytes!End
  <2> QED BY <1>2, <2>1 DEF Bytes!FileNext
<1> QED BY <1>2, <1>4, <1>5

LEMMA IoReadsWork ==
  ASSUME FilesInv, NEW l \in 0 .. MaxLen, NEW n \in 1 .. MaxLen, IoRead(l, n)
  PROVE  FilesInv' /\ Bytes!FileNext
<1>1. PICK t : t = SeekFile(file, l)
  OBVIOUS
<1>2. /\ status = "open" /\ Readable(t.file, n) /\ FileInv(file)
      /\ CASE t.result = "open"    -> Reads(ReadFile(t.file, n), l, n)
           [] t.result = "exited"  -> Reads(Reading(file, <<>>, "exited"), l, 0)
           [] t.result = "refused" ->
                Reads([ReadFile(file, n) EXCEPT !.status = "astray"], l, n)
  BY <1>1 DEF IoRead, FilesInv
<1>3. Sought(file, l, t)
  BY <1>1, <1>2, SeekWorks
<1>4. l \in Nat /\ n \in Nat /\ n >= 1 /\ n <= MaxLen
  BY Bounds
<1>5. t.result \in {"open", "exited", "refused"}
  BY <1>3 DEF Sought
<1>6. CASE t.result = "open"
  <2>1. /\ FileInv(t.file) /\ Holds(t.file) = Content /\ t.file.pos = l
    BY <1>3, <1>6 DEF Sought, Holds, Content
  <2>2. Reads(ReadFile(t.file, n), t.file.pos, n)
    BY <1>2, <1>6, <2>1
  <2>3. t.file.pos \in Nat
    BY <1>4, <2>1
  <2>4. /\ FilesInv'
        /\ \/ Bytes!Fail
           \/ Bytes!Answers /\ answer' \in Seq(Cells)
              /\ file'.pos = t.file.pos + Len(answer')
    BY <1>2, <2>1, <2>2, <2>3, ReadStep
  <2>5. asked' = [at |-> l, want |-> n]
    BY <2>1, <2>2 DEF Reads, Asking
  <2>6. CASE Bytes!Fail
    BY <2>4, <2>6 DEF Bytes!FileNext
  <2>7. CASE Bytes!Answers /\ file'.pos = t.file.pos + Len(answer')
    <3>1. Bytes!ReadAt
      BY <2>1, <2>5, <2>7 DEF Bytes!ReadAt, Bytes!End
    <3> QED BY <2>4, <3>1 DEF Bytes!FileNext
  <2> QED BY <2>4, <2>6, <2>7
<1>7. CASE t.result = "exited"
  <2>1. Reads(Reading(file, <<>>, "exited"), l, 0)
    BY <1>2, <1>7
  <2>2. file' = file /\ answer' = <<>> /\ asked' = [at |-> l, want |-> 0]
        /\ status' = "exited"
    BY <2>1 DEF Reads, Reading, Asking
  <2>3. asked' \in [at : Nat, want : 0 .. MaxLen] /\ answer' \in Seq(Cells)
    BY <1>4, <2>2, Bounds, EmptySeq
  <2>4. (FileInv(file) /\ status \in Statuses)'
    BY <1>2, <2>2 DEF Statuses
  <2>5. (ShortReadMeansEOF /\ TroubleOnlyPastHead)'
    BY <2>2 DEF ShortReadMeansEOF, TroubleOnlyPastHead
  <2>6. FilesInv'
    BY <2>3, <2>4, <2>5 DEF FilesInv
  <2> QED BY <1>2, <2>2, <2>6 DEF Bytes!FileNext, Bytes!Fail
<1>8. CASE t.result = "refused"
  <2>1. t.file = file /\ file.filePos > file.head
    BY <1>3, <1>8 DEF Sought
  <2>2. Reads([ReadFile(file, n) EXCEPT !.status = "astray"], l, n)
    BY <1>2, <1>8
  <2>3. PICK r : r = ReadFile(file, n)
    OBVIOUS
  <2>4. Answer(file, n, r)
    BY <1>2, <1>4, <2>1, <2>3, ReadWorks
  <2>5. r = [file |-> r.file, answer |-> r.answer, status |-> r.status]
    <3>1. file.kind \in Kinds
      BY <1>2, ShapeFacts DEF FileInv
    <3>2. CASE file.kind = "rb"
      BY <2>3, <3>2 DEF ReadFile, ReadFILE, Reading
    <3>3. CASE file.kind = "mem"
      BY <2>3, <3>3 DEF ReadFile, MemRead, Reading
    <3>4. CASE file.kind = "memFile"
      BY <2>3, <3>4 DEF ReadFile, MemFileRead, Reading
    <3>5. CASE file.kind = "pipe"
      BY <2>3, <3>5 DEF ReadFile, PipeRead, FromPipe, Reading
    <3>6. file.kind # "wb"
      BY <1>2, <2>1 DEF Readable
    <3> QED BY <3>1, <3>2, <3>3, <3>4, <3>5, <3>6 DEF Kinds
  <2>6. [r EXCEPT !.status = "astray"] =
          [file |-> r.file, answer |-> r.answer, status |-> "astray"]
    BY <2>5
  <2>7. file' = r.file /\ answer' = r.answer /\ asked' = [at |-> l, want |-> n]
        /\ status' = "astray"
    BY <2>2, <2>3, <2>6 DEF Reads, Asking
  <2>8. asked' \in [at : Nat, want : 0 .. MaxLen] /\ answer' \in Seq(Cells)
    BY <1>4, <2>4, <2>7 DEF Answer
  <2>9. FileInv(file') /\ file'.filePos > file'.head
    <3>1. FileInv(r.file) /\ r.file.filePos >= file.filePos /\ r.file.head = file.head
      BY <2>4 DEF Answer
    <3>2. r.file.filePos \in Nat /\ file.filePos \in Nat /\ file.head \in Nat
      BY <1>2, <3>1, ShapeFacts DEF FileInv
    <3> QED BY <2>1, <2>7, <3>1, <3>2
  <2>10. (FileInv(file) /\ status \in Statuses)'
    BY <2>7, <2>9 DEF Statuses
  <2>11. (ShortReadMeansEOF /\ TroubleOnlyPastHead)'
    BY <2>7, <2>9 DEF ShortReadMeansEOF, TroubleOnlyPastHead
  <2>12. FilesInv'
    BY <2>8, <2>10, <2>11 DEF FilesInv
  <2> QED BY <1>2, <2>7, <2>12 DEF Bytes!FileNext, Bytes!Fail
<1> QED BY <1>5, <1>6, <1>7, <1>8

LEMMA SeeksWork ==
  ASSUME FilesInv, NEW o \in 0 .. MaxLen, Seek(o)
  PROVE  FilesInv' /\ Bytes!FileNext
<1>1. PICK t : t = SeekFile(file, o)
  OBVIOUS
<1>2. /\ status = "open" /\ FileInv(file) /\ file' = t.file /\ status' = t.result
      /\ answer' = <<>>
      /\ asked' = IF status' = "exited" THEN Asking(o, 0) ELSE Nothing
  BY <1>1 DEF Seek, FilesInv
<1>3. Sought(file, o, t)
  BY <1>1, <1>2, SeekWorks
<1>4. o \in Nat
  OBVIOUS
<1>5. asked' \in [at : Nat, want : 0 .. MaxLen] /\ asked'.want = 0
      /\ answer' \in Seq(Cells)
  BY <1>2, <1>4, Bounds, EmptySeq DEF Asking, Nothing
<1>6. (FileInv(file) /\ status \in Statuses)'
  BY <1>2, <1>3 DEF Sought, Statuses
<1>7. (ShortReadMeansEOF /\ TroubleOnlyPastHead)'
  <2>1. Len(answer') = 0
    BY <1>2, EmptySeq
  <2>2. status' \in {"open", "exited", "refused"}
    BY <1>2, <1>3 DEF Sought
  <2> QED BY <1>5, <2>1, <2>2 DEF ShortReadMeansEOF, TroubleOnlyPastHead
<1>8. FilesInv'
  BY <1>5, <1>6, <1>7 DEF FilesInv
<1>9. CASE status' # "open"
  BY <1>2, <1>8, <1>9 DEF Bytes!FileNext, Bytes!Fail
<1>10. CASE status' = "open"
  <2>1. file'.pos = o /\ Content' = Content
    BY <1>2, <1>3, <1>10 DEF Sought, Content, Holds
  <2>2. asked' = [at |-> 0, want |-> 0]
    BY <1>2, <1>10 DEF Nothing, Asking
  <2>3. Bytes!Seek
    BY <1>2, <1>4, <1>10, <2>1, <2>2 DEF Bytes!Seek, Bytes!Stays, Bytes!None
  <2> QED BY <1>8, <2>3 DEF Bytes!FileNext
<1> QED BY <1>9, <1>10

LEMMA LengthWorks ==
  ASSUME FilesInv, GetLength
  PROVE  FilesInv' /\ Bytes!FileNext
<1>1. PICK f : f = file
  OBVIOUS
<1>2. /\ status = "open" /\ status' = "open" /\ FileInv(f)
      /\ file' = IF f.kind \in {"rb", "wb"} THEN [f EXCEPT !.eof = FALSE] ELSE f
      /\ answer' = <<>> /\ asked' = [at |-> 0, want |-> 0]
  BY <1>1 DEF GetLength, FilesInv, Nothing, Asking
<1>3. f \in Shapes /\ f.pos \in Nat /\ f.filePos \in Nat /\ Len(f.bytes) \in Nat
  BY <1>2, ShapeFacts DEF FileInv
<1>4. FileInv(file') /\ Holds(file') = Holds(f) /\ file'.pos = f.pos
  <2>1. CASE f.kind \in {"rb", "wb"}
    <3>1. PICK e : e \in BOOLEAN /\ e = FALSE
      OBVIOUS
    <3>2. e \in BOOLEAN
      BY <3>1
    <3>3. PICK g : g = Moved(f, f.pos, e, f.filePos)
      OBVIOUS
    <3>4. file' = g
      <4>1. file' = [f EXCEPT !.eof = e]
        BY <1>2, <2>1, <3>1
      <4>2. [f EXCEPT !.eof = e] = g
        BY <1>3, <3>3 DEF Shapes, Moved
      <4> QED BY <4>1, <4>2
    <3>5. f.pos <= 2 * MaxLen /\ f.filePos <= Len(f.bytes) /\ f.filePos <= f.filePos
          /\ f.kind # "pipe"
      BY <1>2, <1>3, <2>1 DEF FileInv
    <3>6. FileInv(g) /\ Holds(g) = Holds(f) /\ g.pos = f.pos
      BY <1>2, <1>3, <3>2, <3>3, <3>5, MovedInv
    <3> QED BY <3>4, <3>6
  <2>2. CASE f.kind \notin {"rb", "wb"}
    BY <1>2, <2>2
  <2> QED BY <2>1, <2>2
<1>5. /\ asked' \in [at : Nat, want : 0 .. MaxLen] /\ asked'.want = 0
      /\ answer' \in Seq(Cells) /\ Len(answer') = 0
  BY <1>2, Bounds, EmptySeq
<1>6. (FileInv(file) /\ status \in Statuses)'
  BY <1>2, <1>4 DEF Statuses
<1>7. (ShortReadMeansEOF /\ TroubleOnlyPastHead)'
  BY <1>2, <1>5 DEF ShortReadMeansEOF, TroubleOnlyPastHead
<1>8. FilesInv'
  BY <1>5, <1>6, <1>7 DEF FilesInv
<1>9. Content' = Content
  BY <1>1, <1>4 DEF Content, Holds
<1>10. Bytes!Seek
  BY <1>2, <1>3, <1>4, <1>9 DEF Bytes!Seek, Bytes!Stays, Bytes!None
<1> QED BY <1>8, <1>10 DEF Bytes!FileNext

(* A write step, likewise.                                                 *)
LEMMA WriteStep ==
  ASSUME FilesInv, status = "open", status' = "open", NEW f, FileInv(f),
         NEW s \in Strings(2) \ {<<>>}, f.kind \in {"wb", "mem", "memFile"},
         f.pos + Len(s) <= MaxLen, Holds(f) = Content, f.pos \in Nat,
         file' = WriteFile(f, s), answer' = s, asked' = Asking(f.pos, 0)
  PROVE  FilesInv' /\ Bytes!FileNext
<1>1. Wrote(f, s, file')
  BY WriteWorks
<1>2. s \in Seq(Cells) /\ Len(s) \in Nat
  BY StringFacts
<1>3. asked' = [at |-> f.pos, want |-> 0] /\ asked'.at = f.pos /\ asked'.want = 0
  BY DEF Asking
<1>4. asked' \in [at : Nat, want : 0 .. MaxLen] /\ answer' \in Seq(Cells)
  BY <1>2, <1>3, Bounds
<1>5. (FileInv(file) /\ status \in Statuses)'
  BY <1>1 DEF Wrote, Statuses
<1>6. (ShortReadMeansEOF /\ TroubleOnlyPastHead)'
  BY <1>2, <1>3 DEF ShortReadMeansEOF, TroubleOnlyPastHead
<1>7. FilesInv'
  BY <1>4, <1>5, <1>6 DEF FilesInv
<1>8. Content' = Holds(file')
  BY DEF Content, Holds
<1>9. PICK c, d : c = Content /\ d = Content'
  OBVIOUS
<1>10. /\ file'.pos = f.pos + Len(s) /\ Len(d) >= Len(c) /\ f.pos + Len(s) <= Len(d)
       /\ \A i \in 1 .. Len(s) : d[f.pos + i] = s[i]
       /\ \A i \in 1 .. Len(c) : i <= f.pos \/ i > f.pos + Len(s) => d[i] = c[i]
  BY <1>1, <1>8, <1>9 DEF Wrote
<1>11. DOMAIN s = 1 .. Len(s) /\ DOMAIN c = 1 .. Len(c)
  <2>1. c \in Seq(Cells)
    <3>1. f.bytes \in Seq(Cells) /\ f.size \in Nat /\ f.size <= Len(f.bytes)
      BY ShapeFacts DEF FileInv
    <3>2. f.kind = "memFile" => Holds(f) \in Seq(Cells)
      BY <3>1, Beginning DEF Holds
    <3>3. f.kind # "memFile" => Holds(f) \in Seq(Cells)
      BY <3>1 DEF Holds
    <3> QED BY <1>9, <3>2, <3>3
  <2> QED BY <1>2, <2>1, LenProperties
<1>12. PICK a : a = [at |-> asked'.at, want |-> asked'.want, bytes |-> answer']
  OBVIOUS
<1>13. a.at = f.pos /\ a.bytes = s
  BY <1>3, <1>12
<1>14. Bytes!End(a) = f.pos + Len(s)
  BY <1>13 DEF Bytes!End
<1>15. Bytes!Write
  BY <1>9, <1>10, <1>11, <1>12, <1>13, <1>14 DEF Bytes!Write, Bytes!Stays
<1> QED BY <1>7, <1>15 DEF Bytes!FileNext

LEMMA WritesWork ==
  ASSUME FilesInv, NEW s \in Strings(2) \ {<<>>}, Write(s)
  PROVE  FilesInv' /\ Bytes!FileNext
<1>1. /\ status = "open" /\ file.pos + Len(s) <= MaxLen /\ FileInv(file)
      /\ asked' = Asking(file.pos, 0) /\ file.pos \in Nat /\ file.kind \in Kinds
  BY ShapeFacts DEF Write, FilesInv, FileInv
<1>2. CASE file.kind \in {"rb", "pipe"}
  <2>1. status' = "refused" /\ file' = file /\ answer' = answer
    BY <1>2 DEF Write
  <2>2. asked' \in [at : Nat, want : 0 .. MaxLen] /\ answer' \in Seq(Cells)
    BY <1>1, <2>1, Bounds DEF Asking, FilesInv
  <2>3. (FileInv(file) /\ status \in Statuses)'
    BY <1>1, <2>1 DEF Statuses
  <2>4. (ShortReadMeansEOF /\ TroubleOnlyPastHead)'
    BY <2>1 DEF ShortReadMeansEOF, TroubleOnlyPastHead
  <2>5. FilesInv'
    BY <2>2, <2>3, <2>4 DEF FilesInv
  <2> QED BY <1>1, <2>1, <2>5 DEF Bytes!FileNext, Bytes!Fail
<1>3. CASE file.kind \notin {"rb", "pipe"}
  <2>1. file' = WriteFile(file, s) /\ answer' = s /\ status' = "open"
    BY <1>1, <1>3 DEF Write
  <2>2. Holds(file) = Content /\ file.kind \in {"wb", "mem", "memFile"}
    BY <1>1, <1>3 DEF Holds, Content, Kinds
  <2> QED BY <1>1, <2>1, <2>2, WriteStep
<1> QED BY <1>2, <1>3

LEMMA IoWritesWork ==
  ASSUME FilesInv, NEW l \in 0 .. MaxLen, NEW s \in Strings(2) \ {<<>>}, IoWrite(l, s)
  PROVE  FilesInv' /\ Bytes!FileNext
<1>1. PICK t : t = SeekFile(file, l)
  OBVIOUS
<1>2. /\ status = "open" /\ status' = "open" /\ l + Len(s) <= MaxLen /\ FileInv(file)
      /\ file.kind \in {"wb", "mem", "memFile"}
      /\ file' = WriteFile(t.file, s) /\ answer' = s /\ asked' = Asking(l, 0)
  BY <1>1 DEF IoWrite, FilesInv
<1>3. Sought(file, l, t)
  BY <1>1, <1>2, SeekWorks
<1>4. t.result = "open"
  BY <1>1, <1>2 DEF SeekFile
<1>5. /\ FileInv(t.file) /\ t.file.pos = l /\ t.file.kind = file.kind
      /\ Holds(t.file) = Content
  BY <1>3, <1>4 DEF Sought, Content, Holds
<1>6. t.file.pos \in Nat /\ t.file.pos + Len(s) <= MaxLen
  BY <1>2, <1>5
<1>7. t.file.kind \in {"wb", "mem", "memFile"} /\ asked' = Asking(t.file.pos, 0)
  BY <1>2, <1>5
<1> QED BY <1>2, <1>5, <1>6, <1>7, WriteStep

LEMMA FilesStep ==
  ASSUME FilesInv, [Next]_vars
  PROVE  FilesInv' /\ [Bytes!FileNext]_(Bytes!byteVars)
<1>1. CASE UNCHANGED vars
  <2>1. file' = file /\ answer' = answer /\ asked' = asked /\ status' = status
    BY <1>1 DEF vars
  <2>2. FilesInv'
    BY <2>1 DEF FilesInv, ShortReadMeansEOF, TroubleOnlyPastHead, Room
  <2>3. UNCHANGED Bytes!byteVars
    BY <2>1 DEF Bytes!byteVars, Content
  <2> QED BY <2>2, <2>3
<1>2. CASE \E n \in 1 .. MaxLen : Read(n)
  BY <1>2, ReadsWork
<1>3. CASE \E o \in 0 .. MaxLen : Seek(o)
  BY <1>3, SeeksWork
<1>4. CASE \E l \in 0 .. MaxLen : \E n \in 1 .. MaxLen : IoRead(l, n)
  BY <1>4, IoReadsWork
<1>5. CASE \E s \in Strings(2) \ {<<>>} : Write(s)
  BY <1>5, WritesWork
<1>6. CASE \E l \in 0 .. MaxLen : \E s \in Strings(2) \ {<<>>} : IoWrite(l, s)
  BY <1>6, IoWritesWork
<1>7. CASE GetLength
  BY <1>7, LengthWorks
<1> QED BY <1>1, <1>2, <1>3, <1>4, <1>5, <1>6, <1>7 DEF Next

(* What is known of a file of each kind at any time.                       *)
THEOREM FilesInductive == Spec => []FilesInv
<1>1. FilesInv /\ [Next]_vars => FilesInv'
  BY FilesStep
<1> QED BY FilesInitially, <1>1, PTL DEF Spec

(* Buffers have a bounded size, positions are those of legal calls.        *)
THEOREM FilesTypes == Spec => []TypeOK
<1>1. FilesInv => TypeOK
  <2> SUFFICES ASSUME FilesInv PROVE TypeOK
    OBVIOUS
  <2>1. PICK f : f = file /\ f \in Shapes /\ FileInv(f)
    BY DEF FilesInv, FileInv
  <2>2. /\ f.kind \in Kinds /\ f.size \in Nat /\ f.pos \in Nat /\ f.filePos \in Nat
        /\ f.head \in Nat /\ Len(f.bytes) \in Nat /\ DOMAIN f.bytes = 1 .. Len(f.bytes)
        /\ \A i \in 1 .. Len(f.bytes) : f.bytes[i] \in Cells
    BY <2>1, ShapeFacts
  <2>3. \A i \in DOMAIN f.bytes : f.bytes[i] \in Byte \cup {Junk}
    BY <2>2 DEF Cells
  <2>4. Len(f.bytes) <= 2 * MaxLen + FirstRoom
    BY <2>1, <2>2, Bounds DEF FileInv
  <2>5. f.kind \notin Buffers => \A i \in DOMAIN f.bytes : f.bytes[i] # Junk
    BY <2>1, <2>2 DEF FileInv
  <2>6. f.size \in 0 .. Len(f.bytes) /\ f.pos \in 0 .. 2 * MaxLen
    BY <2>1, <2>2, Bounds DEF FileInv
  <2>7. /\ f.head <= f.filePos /\ f.filePos <= Len(f.bytes)
        /\ f.kind = "pipe" /\ f.pos > f.head => f.pos = f.filePos
    BY <2>1, <2>2 DEF FileInv
  <2>8. asked.at \in Nat /\ asked.want \in 0 .. MaxLen
    BY DEF FilesInv
  <2>9. status \in {"open", "wild", "stuck", "exited", "astray", "refused"}
    BY DEF FilesInv, Statuses
  <2> QED BY <2>1, <2>2, <2>3, <2>4, <2>5, <2>6, <2>7, <2>8, <2>9
           DEF TypeOK, Room, Kinds, Buffers
<1> QED BY FilesInductive, <1>1, PTL

(* A read that came short was the last: the file says that it is at its    *)
(* end, which insertBLKX asks before it takes a short read for the end.    *)
THEOREM ShortReadsAreLast == Spec => []ShortReadMeansEOF
<1>1. FilesInv => ShortReadMeansEOF
  BY DEF FilesInv
<1> QED BY FilesInductive, <1>1, PTL

(* Within its head a pipe can be positioned and read freely, and a memory  *)
(* file is read out of bounds only from behind its end.                    *)
THEOREM HeadIsSafe == Spec => []TroubleOnlyPastHead
<1>1. FilesInv => TroubleOnlyPastHead
  BY DEF FilesInv
<1> QED BY FilesInductive, <1>1, PTL

(* Whatever is behind it, an AbstractFile is bytes and a position, as long *)
(* as it answers.                                                          *)
THEOREM FilesImplementByteFile == Spec => ImplementsByteFile
<1>1. Init => Bytes!FileInit
  BY FilesInitially
<1>2. FilesInv /\ [Next]_vars => [Bytes!FileNext]_(Bytes!byteVars)
  BY FilesStep
<1>3. Spec => Bytes!FileSpec
  BY FilesInductive, <1>1, <1>2, PTL DEF Spec, Bytes!FileSpec
<1> QED BY <1>3 DEF ImplementsByteFile

====
