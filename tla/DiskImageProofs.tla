-------------------------- MODULE DiskImageProofs --------------------------
(***************************************************************************)
(* Theorems about the commands of dmg, for all volumes, patches, sentinels *)
(* and run sizes: the types, that a finished image has the checksums of    *)
(* what it holds, that a build holds its volume, and that an attribution   *)
(* changes the raw runs and nothing else.                                  *)
(*                                                                         *)
(* From the bottom up: sequences made of pieces; the runs of a table; what *)
(* insertBLKX makes of data, and that extractBLKX gives that data back;    *)
(* images part by part; the raw runs, which can be written over; the       *)
(* attribution resource; the inductive invariant and its actions.          *)
(***************************************************************************)
EXTENDS DiskImage, FiniteSetTheorems, SequenceTheorems, WellFoundedInduction, TLAPS

-----------------------------------------------------------------------------
(* Numbers.                                                                *)

(* A non-empty set of natural numbers has a least element.                 *)
LEMMA LeastNat ==
  ASSUME NEW T, T \subseteq Nat, T # {}
  PROVE  \E x \in T : \A y \in T : x <= y
<1> DEFINE Less == {p \in Nat \X Nat : p[1] < p[2]}
<1>1. IsWellFoundedOn(Less, Nat)
  BY Zenon, NatLessThanWellFounded DEF OpToRel
<1> HIDE DEF Less
<1>2. PICK x \in T : \A y \in T : ~ (<<y, x>> \in Less)
  BY <1>1, WFMin
<1>3. \A y \in T : ~ (y < x)
  BY <1>2 DEF Less
<1>4. QED
  BY <1>3

(* A number is its quotient times the divisor, plus a smaller remainder.   *)
LEMMA Quotient ==
  ASSUME NEW s \in Nat \ {0}, NEW u \in Nat
  PROVE  /\ u \div s \in Nat
         /\ u % s \in Nat /\ u % s < s
         /\ u = (u \div s) * s + (u % s)
<1>1. u \div s \in Nat /\ u % s \in Nat /\ u % s < s
  OBVIOUS
<1>2. \A q, r \in Nat : q = u \div s /\ r = u % s => u = q * s + r
  OBVIOUS
<1>3. QED
  BY <1>1, <1>2

-----------------------------------------------------------------------------
(***************************************************************************)
(* Sequences put together of pieces.                                       *)
(***************************************************************************)

FlatFun(s, g) ==
  g = [i \in 1 .. Len(s) |-> IF i = 1 THEN s[i] ELSE g[i - 1] \o s[i]]

LEMMA FlattenIs ==
  ASSUME NEW s
  PROVE  FlattenSeq(s) = IF Len(s) = 0 THEN s ELSE (CHOOSE g : FlatFun(s, g))[Len(s)]
  BY DEF FlattenSeq, FlatFun

(* The first n pieces of s, one after the other, in f.                     *)
Flattens(s, n, f) ==
  /\ DOMAIN f = 1 .. n /\ f[1] = s[1]
  /\ \A i \in 2 .. n : f[i] = f[i - 1] \o s[i]

LEMMA FlattensExists ==
  ASSUME NEW s, NEW n \in Nat \ {0}
  PROVE  \E f : Flattens(s, n, f)
<1>1. DEFINE Bad == {k \in Nat \ {0} : ~ \E f : Flattens(s, k, f)}
<1>2. SUFFICES ASSUME Bad # {} PROVE FALSE
  BY <1>2
<1>3. PICK k \in Bad : \A l \in Bad : k <= l
  BY <1>2, LeastNat
<1>4. CASE k = 1
  <2>1. Flattens(s, 1, [i \in 1 .. 1 |-> s[1]])
    BY DEF Flattens
  <2>2. QED
    BY <1>3, <1>4, <2>1
<1>5. CASE k # 1
  <2>1. k - 1 \in Nat \ {0} /\ ~(k <= k - 1) /\ k \in Nat
    BY <1>3, <1>5
  <2>2. PICK f : Flattens(s, k - 1, f)
    BY <1>3, <2>1
  <2>3. PICK g : g = [i \in 1 .. k |-> IF i = k THEN f[k - 1] \o s[k] ELSE f[i]]
    OBVIOUS
  <2>4. DOMAIN g = 1 .. k /\ \A i \in 1 .. k :
          g[i] = IF i = k THEN f[k - 1] \o s[k] ELSE f[i]
    BY <2>3
  <2>5. g[1] = s[1]
    <3>1. 1 \in 1 .. k /\ 1 # k
      BY <1>5, <2>1
    <3>2. f[1] = s[1]
      BY <2>2 DEF Flattens
    <3>3. QED
      BY <2>4, <3>1, <3>2
  <2>6. ASSUME NEW i \in 2 .. k
        PROVE  g[i] = g[i - 1] \o s[i]
    <3>1. i - 1 \in 1 .. k /\ i \in 1 .. k /\ i - 1 # k /\ (i # k => i \in 2 .. k - 1)
      BY <2>1, <2>6
    <3>2. g[i - 1] = f[i - 1]
      BY <2>4, <3>1
    <3>3. CASE i = k
      BY <2>4, <3>1, <3>2, <3>3
    <3>4. CASE i # k
      <4>1. f[i] = f[i - 1] \o s[i]
        BY <2>2, <3>1, <3>4 DEF Flattens
      <4>2. g[i] = f[i]
        BY <2>4, <3>1, <3>4
      <4>3. QED
        BY <3>2, <4>1, <4>2
    <3>5. QED
      BY <3>3, <3>4
  <2>7. Flattens(s, k, g)
    BY <2>4, <2>5, <2>6 DEF Flattens
  <2>8. QED
    BY <1>3, <2>7
<1>6. QED
  BY <1>4, <1>5

Agree(s, t, n) == \A i \in 1 .. n : s[i] = t[i]

LEMMA FlattensAgree ==
  ASSUME NEW s, NEW t, NEW m \in Nat, NEW n \in Nat,
         NEW f, NEW g, Flattens(s, m, f), Flattens(t, n, g),
         NEW p \in Nat, p <= m, p <= n, Agree(s, t, p)
  PROVE  Agree(f, g, p)
<1>1. DEFINE Bad == {i \in 1 .. p : f[i] # g[i]}
<1>2. SUFFICES ASSUME Bad # {} PROVE FALSE
  BY <1>2 DEF Agree
<1>3. PICK k \in Bad : \A l \in Bad : k <= l
  <2>1. Bad \subseteq Nat
    OBVIOUS
  <2>2. QED
    BY <1>2, <2>1, LeastNat
<1>4. k \in Nat /\ k \in 1 .. p
  BY <1>3
<1>5. CASE k = 1
  BY <1>3, <1>4, <1>5 DEF Flattens, Agree
<1>6. CASE k # 1
  <2>1. k - 1 \in 1 .. p /\ ~(k <= k - 1) /\ k \in 2 .. m /\ k \in 2 .. n
    BY <1>4, <1>6
  <2>2. f[k - 1] = g[k - 1]
    BY <1>3, <2>1
  <2>3. f[k] = f[k - 1] \o s[k] /\ g[k] = g[k - 1] \o t[k]
    BY <2>1 DEF Flattens
  <2>4. s[k] = t[k]
    BY <1>4 DEF Agree
  <2>5. QED
    BY <1>3, <2>2, <2>3, <2>4
<1>7. QED
  BY <1>5, <1>6

LEMMA FlattenHas ==
  ASSUME NEW s, NEW n \in Nat \ {0}, Len(s) = n
  PROVE  \E f : Flattens(s, n, f) /\ FlattenSeq(s) = f[n]
<1>1. PICK f : Flattens(s, n, f)
  BY FlattensExists
<1>2. PICK h : h = [i \in 1 .. n |-> f[i]]
  OBVIOUS
<1>3. DOMAIN h = 1 .. n /\ \A i \in 1 .. n : h[i] = f[i]
  BY <1>2
<1>4. Flattens(s, n, h)
  <2>1. h[1] = s[1]
    BY <1>1, <1>3 DEF Flattens
  <2>2. ASSUME NEW i \in 2 .. n PROVE h[i] = h[i - 1] \o s[i]
    <3>1. i \in 1 .. n /\ i - 1 \in 1 .. n
      BY <2>2
    <3>2. QED
      BY <1>1, <1>3, <2>2, <3>1 DEF Flattens
  <2>3. QED
    BY <1>3, <2>1, <2>2 DEF Flattens
<1>5. FlatFun(s, h)
  <2>1. ASSUME NEW i \in 1 .. n
        PROVE  h[i] = IF i = 1 THEN s[i] ELSE h[i - 1] \o s[i]
    <3>1. i = 1 \/ i \in 2 .. n
      BY <2>1
    <3>2. QED
      BY <1>4, <3>1 DEF Flattens
  <2>2. h = [i \in 1 .. n |-> h[i]]
    BY <1>2, <1>3
  <2>3. h = [i \in 1 .. n |-> IF i = 1 THEN s[i] ELSE h[i - 1] \o s[i]]
    BY <2>1, <2>2, Zenon
  <2>4. QED
    BY <2>3 DEF FlatFun
<1>6. PICK g : g = (CHOOSE q : FlatFun(s, q))
  OBVIOUS
<1>7. FlatFun(s, g)
  BY <1>5, <1>6
<1>8. Flattens(s, n, g)
  <2>1. DOMAIN g = 1 .. n /\ \A i \in 1 .. n :
          g[i] = IF i = 1 THEN s[i] ELSE g[i - 1] \o s[i]
    BY <1>7 DEF FlatFun
  <2>2. g[1] = s[1]
    BY <2>1
  <2>3. ASSUME NEW i \in 2 .. n PROVE g[i] = g[i - 1] \o s[i]
    <3>1. i \in 1 .. n /\ i # 1
      BY <2>3
    <3>2. QED
      BY <2>1, <3>1
  <2>4. QED
    BY <2>1, <2>2, <2>3 DEF Flattens
<1>9. FlattenSeq(s) = g[n]
  BY <1>6, FlattenIs
<1>10. QED
  BY <1>8, <1>9

LEMMA FlattenNone == FlattenSeq(<<>>) = <<>>
  BY FlattenIs

(* The pieces and one more.                                                *)
LEMMA FlattenAppend ==
  ASSUME NEW S, NEW s \in Seq(Seq(S)), NEW x \in Seq(S)
  PROVE  FlattenSeq(Append(s, x)) = IF s = <<>> THEN x ELSE FlattenSeq(s) \o x
<1>1. PICK t : t = Append(s, x)
  OBVIOUS
<1>2. PICK n \in Nat : n = Len(s)
  BY LenProperties
<1>3. /\ Len(t) = n + 1 /\ t[n + 1] = x /\ \A i \in 1 .. n : t[i] = s[i]
  BY <1>1, <1>2, AppendProperties
<1>4. PICK f : Flattens(t, n + 1, f) /\ FlattenSeq(t) = f[n + 1]
  BY <1>3, FlattenHas
<1>5. CASE n = 0
  <2>1. s = <<>>
    BY <1>2, <1>5, EmptySeq
  <2>2. f[1] = t[1] /\ t[1] = x
    BY <1>3, <1>4, <1>5 DEF Flattens
  <2>3. QED
    BY <1>1, <1>4, <1>5, <2>1, <2>2
<1>6. CASE n # 0
  <2>1. s # <<>>
    BY <1>2, <1>6, EmptySeq
  <2>2. PICK g : Flattens(s, n, g) /\ FlattenSeq(s) = g[n]
    BY <1>2, <1>6, FlattenHas
  <2>3. Agree(f, g, n)
    <3>1. n <= n + 1 /\ n <= n /\ n + 1 \in Nat
      BY <1>2
    <3>2. Agree(t, s, n)
      BY <1>3 DEF Agree
    <3>3. QED
      BY <1>4, <2>2, <3>1, <3>2, FlattensAgree
  <2>4. n \in 1 .. n /\ n + 1 \in 2 .. n + 1 /\ (n + 1) - 1 = n
    BY <1>6
  <2>5. f[n + 1] = f[n] \o x
    BY <1>3, <1>4, <2>4 DEF Flattens
  <2>6. QED
    BY <1>1, <1>4, <2>1, <2>2, <2>3, <2>4, <2>5 DEF Agree
<1>7. QED
  BY <1>5, <1>6

LEMMA FlattenType ==
  ASSUME NEW S, NEW s \in Seq(Seq(S))
  PROVE  FlattenSeq(s) \in Seq(S)
<1>1. DEFINE Bad == {n \in Nat : \E t \in Seq(Seq(S)) : Len(t) = n /\ FlattenSeq(t) \notin Seq(S)}
<1>2. SUFFICES ASSUME Bad # {} PROVE FALSE
  BY <1>2, LenProperties
<1>3. PICK n \in Bad : \A l \in Bad : n <= l
  <2>1. Bad \subseteq Nat
    OBVIOUS
  <2>2. QED
    BY <1>2, <2>1, LeastNat
<1>4. PICK t \in Seq(Seq(S)) : Len(t) = n /\ FlattenSeq(t) \notin Seq(S)
  BY <1>3
<1>5. t # <<>>
  BY <1>4, FlattenNone, EmptySeq
<1>6. PICK u \in Seq(Seq(S)), x \in Seq(S) : t = Append(u, x)
  BY <1>5, SequenceEmptyOrAppend
<1>7. Len(t) = Len(u) + 1 /\ Len(u) \in Nat /\ n \in Nat
  BY <1>3, <1>6, AppendProperties, LenProperties
<1>8. FlattenSeq(u) \in Seq(S)
  <2>1. ~(n <= Len(u))
    BY <1>4, <1>7
  <2>2. Len(u) \notin Bad
    BY <1>3, <2>1
  <2>3. QED
    BY <1>7, <2>2
<1>9. FlattenSeq(t) \in Seq(S)
  <2>1. FlattenSeq(t) = IF u = <<>> THEN x ELSE FlattenSeq(u) \o x
    BY <1>6, FlattenAppend
  <2>2. FlattenSeq(u) \o x \in Seq(S)
    BY <1>8, ConcatProperties
  <2>3. QED
    BY <2>1, <2>2
<1>10. QED
  BY <1>4, <1>9

(* The first k pieces.                                                     *)
Upto(s, k) == FlattenSeq(SubSeq(s, 1, k))

LEMMA UptoEnds ==
  ASSUME NEW S, NEW s \in Seq(Seq(S))
  PROVE  Upto(s, 0) = <<>> /\ Upto(s, Len(s)) = FlattenSeq(s)
<1>1. SubSeq(s, 1, 0) = <<>>
  BY SubSeqEmpty
<1>2. SubSeq(s, 1, Len(s)) = s
  BY SubSeqFull
<1>3. QED
  BY <1>1, <1>2, FlattenNone DEF Upto

LEMMA UptoType ==
  ASSUME NEW S, NEW s \in Seq(Seq(S)), NEW k \in 0 .. Len(s)
  PROVE  Upto(s, k) \in Seq(S) /\ Len(Upto(s, k)) \in Nat
<1>1. Len(s) \in Nat
  BY LenProperties
<1>2. \A i \in 1 .. k : s[i] \in Seq(S)
  BY <1>1, ElementOfSeq
<1>3. SubSeq(s, 1, k) \in Seq(Seq(S))
  BY <1>1, <1>2, SubSeqProperties
<1>4. Upto(s, k) \in Seq(S)
  BY <1>3, FlattenType DEF Upto
<1>5. QED
  BY <1>4, LenProperties

LEMMA UptoStep ==
  ASSUME NEW S, NEW s \in Seq(Seq(S)), NEW k \in 1 .. Len(s)
  PROVE  /\ Upto(s, k) = Upto(s, k - 1) \o s[k]
         /\ Len(Upto(s, k)) = Len(Upto(s, k - 1)) + Len(s[k])
         /\ s[k] \in Seq(S)
<1>1. PICK n \in Nat : n = Len(s)
  BY LenProperties
<1>2. k \in Nat /\ 1 \in 1 .. n /\ k \in 1 .. n /\ k - 1 \in 0 .. n /\ k - 1 \in Int
  BY <1>1
<1>3. PICK t : t = SubSeq(s, 1, k - 1)
  OBVIOUS
<1>4. \A i \in 1 .. n : s[i] \in Seq(S)
  BY <1>1, ElementOfSeq
<1>5. t \in Seq(Seq(S))
  <2>1. \A i \in 1 .. k - 1 : s[i] \in Seq(S)
    BY <1>2, <1>4
  <2>2. QED
    BY <1>2, <1>3, <2>1, SubSeqProperties
<1>6. s[k] \in Seq(S)
  BY <1>2, <1>4
<1>7. SubSeq(s, 1, k) = Append(t, s[k])
  <2>1. SubSeq(s, 1, k) = t \o <<s[k]>>
    <3>1. 1 \in 1 .. Len(s) /\ k \in 1 .. Len(s)
      BY <1>1, <1>2
    <3>2. QED
      BY <1>3, <3>1, SubSeqRecursiveSecond
  <2>2. QED
    BY <1>5, <1>6, <2>1, AppendIsConcat
<1>8. Upto(s, k - 1) \in Seq(S)
  BY <1>1, <1>2, UptoType
<1>9. Upto(s, k) = Upto(s, k - 1) \o s[k]
  <2>1. Upto(s, k) = IF t = <<>> THEN s[k] ELSE FlattenSeq(t) \o s[k]
    BY <1>5, <1>6, <1>7, FlattenAppend DEF Upto
  <2>2. Upto(s, k - 1) = FlattenSeq(t)
    BY <1>3 DEF Upto
  <2>3. CASE t = <<>>
    <3>1. Upto(s, k - 1) = <<>>
      BY <2>2, <2>3, FlattenNone
    <3>2. <<>> \o s[k] = s[k]
      BY <1>6, ConcatEmptySeq
    <3>3. QED
      BY <2>1, <2>3, <3>1, <3>2
  <2>4. CASE t # <<>>
    BY <2>1, <2>2, <2>4
  <2>5. QED
    BY <2>3, <2>4
<1>10. Len(Upto(s, k)) = Len(Upto(s, k - 1)) + Len(s[k])
  BY <1>6, <1>8, <1>9, ConcatProperties
<1>11. QED
  BY <1>6, <1>9, <1>10

(* u begins with t.                                                        *)
Starts(u, t) == Len(t) <= Len(u) /\ \A i \in 1 .. Len(t) : u[i] = t[i]

LEMMA UptoStarts ==
  ASSUME NEW S, NEW s \in Seq(Seq(S)), NEW k \in 0 .. Len(s), NEW n \in k .. Len(s)
  PROVE  Starts(Upto(s, n), Upto(s, k))
<1>1. DEFINE Bad == {m \in k .. Len(s) : ~Starts(Upto(s, m), Upto(s, k))}
<1>2. SUFFICES ASSUME Bad # {} PROVE FALSE
  BY <1>2
<1>3. PICK l \in Nat : l = Len(s)
  BY LenProperties
<1>4. PICK m \in Bad : \A j \in Bad : m <= j
  <2>1. Bad \subseteq Nat
    BY <1>3
  <2>2. QED
    BY <1>2, <2>1, LeastNat
<1>5. m \in k .. l /\ m \in Nat /\ k \in Nat /\ k \in 0 .. l
  BY <1>3, <1>4
<1>6. Upto(s, k) \in Seq(S) /\ Len(Upto(s, k)) \in Nat
  BY <1>3, UptoType
<1>7. m # k
  <2>1. Starts(Upto(s, k), Upto(s, k))
    BY <1>6 DEF Starts
  <2>2. QED
    BY <1>4, <2>1
<1>8. m - 1 \in k .. l /\ m \in 1 .. l /\ m - 1 \in 0 .. l /\ ~(m <= m - 1)
  BY <1>5, <1>7
<1>9. Starts(Upto(s, m - 1), Upto(s, k))
  BY <1>3, <1>4, <1>8
<1>10. PICK u \in Seq(S) : u = Upto(s, m - 1)
  BY <1>3, <1>8, UptoType
<1>11. PICK v \in Seq(S) : v = s[m]
  BY <1>3, <1>8, UptoStep
<1>12. Upto(s, m) = u \o v
  BY <1>3, <1>8, <1>10, <1>11, UptoStep
<1>13. Starts(u \o v, Upto(s, k))
  <2>1. /\ Len(u \o v) = Len(u) + Len(v) /\ Len(u) \in Nat /\ Len(v) \in Nat
        /\ \A i \in 1 .. Len(u) + Len(v) : (u \o v)[i] = IF i <= Len(u) THEN u[i] ELSE v[i - Len(u)]
    BY ConcatProperties, LenProperties
  <2>2. \A i \in 1 .. Len(u) : (u \o v)[i] = u[i]
    BY <2>1
  <2>3. Len(Upto(s, k)) <= Len(u) /\ \A i \in 1 .. Len(Upto(s, k)) : u[i] = Upto(s, k)[i]
    BY <1>9, <1>10 DEF Starts
  <2>4. Len(Upto(s, k)) <= Len(u \o v)
    BY <1>6, <2>1, <2>3
  <2>5. ASSUME NEW i \in 1 .. Len(Upto(s, k)) PROVE (u \o v)[i] = Upto(s, k)[i]
    <3>1. i \in 1 .. Len(u)
      BY <1>6, <2>1, <2>3
    <3>2. QED
      BY <2>2, <2>3, <3>1
  <2>6. QED
    BY <2>4, <2>5 DEF Starts
<1>14. QED
  BY <1>4, <1>12, <1>13

(* t is in f behind the first a elements.                                  *)
Sits(f, t, a) == a + Len(t) <= Len(f) /\ \A j \in 1 .. Len(t) : f[a + j] = t[j]

(* Where the k-th piece is.                                                *)
LEMMA FlattenPlace ==
  ASSUME NEW S, NEW s \in Seq(Seq(S)), NEW k \in 1 .. Len(s),
         NEW a \in Nat, a = Len(Upto(s, k - 1))
  PROVE  Sits(FlattenSeq(s), s[k], a)
<1>1. PICK n \in Nat : n = Len(s)
  BY LenProperties
<1>2. k \in 0 .. n /\ n \in k .. n /\ k - 1 \in 0 .. n
  BY <1>1
<1>3. Starts(FlattenSeq(s), Upto(s, k))
  BY <1>1, <1>2, UptoStarts, UptoEnds
<1>4. PICK u \in Seq(S) : u = Upto(s, k - 1)
  BY <1>1, <1>2, UptoType
<1>5. PICK v \in Seq(S) : v = s[k]
  BY <1>1, <1>2, UptoStep
<1>6. Upto(s, k) = u \o v
  BY <1>4, <1>5, UptoStep
<1>7. PICK l \in Nat : l = Len(v)
  BY LenProperties
<1>8. /\ Len(u \o v) = a + l
      /\ \A i \in 1 .. a + l : (u \o v)[i] = IF i <= a THEN u[i] ELSE v[i - a]
  BY <1>4, <1>7, ConcatProperties
<1>9. /\ a + l <= Len(FlattenSeq(s))
      /\ \A i \in 1 .. a + l : FlattenSeq(s)[i] = (u \o v)[i]
  BY <1>3, <1>6, <1>8 DEF Starts
<1>10. ASSUME NEW j \in 1 .. l PROVE FlattenSeq(s)[a + j] = v[j]
  <2>1. a + j \in 1 .. a + l /\ ~(a + j <= a) /\ (a + j) - a = j
    BY <1>7
  <2>2. QED
    BY <1>8, <1>9, <2>1
<1>11. QED
  BY <1>5, <1>7, <1>9, <1>10 DEF Sits

-----------------------------------------------------------------------------
(***************************************************************************)
(* Runs.                                                                   *)
(***************************************************************************)

(* e has the slices of d between the cuts.                                 *)
Sliced(e, d, c) ==
  /\ c[0] = 0
  /\ \A k \in 1 .. Len(e) : /\ c[k - 1] <= c[k] /\ c[k] <= Len(d)
                            /\ e[k] = SubSeq(d, c[k - 1] + 1, c[k])

LEMMA SlicesUpto ==
  ASSUME NEW S, NEW d \in Seq(S), NEW e \in Seq(Seq(S)), NEW c,
         \A k \in 0 .. Len(e) : c[k] \in Nat, Sliced(e, d, c), NEW k \in 0 .. Len(e)
  PROVE  Upto(e, k) = SubSeq(d, 1, c[k]) /\ c[k] <= Len(d)
<1>1. DEFINE Bad == {m \in 0 .. Len(e) : ~(Upto(e, m) = SubSeq(d, 1, c[m]) /\ c[m] <= Len(d))}
<1>2. SUFFICES ASSUME Bad # {} PROVE FALSE
  BY <1>2
<1>3. PICK l \in Nat : l = Len(e)
  BY LenProperties
<1>4. PICK m \in Bad : \A j \in Bad : m <= j
  <2>1. Bad \subseteq Nat
    BY <1>3
  <2>2. QED
    BY <1>2, <2>1, LeastNat
<1>5. m \in 0 .. l /\ m \in Nat
  BY <1>3, <1>4
<1>6. PICK n \in Nat : n = Len(d)
  BY LenProperties
<1>7. m # 0
  <2>1. SubSeq(d, 1, 0) = <<>>
    BY SubSeqEmpty
  <2>2. Upto(e, 0) = SubSeq(d, 1, c[0]) /\ c[0] <= Len(d)
    <3>1. Upto(e, 0) = <<>>
      BY UptoEnds
    <3>2. c[0] = 0
      BY DEF Sliced
    <3>3. SubSeq(d, 1, c[0]) = <<>>
      BY <2>1, <3>2
    <3>4. c[0] <= Len(d)
      BY <1>6, <3>2
    <3>5. QED
      BY <3>1, <3>3, <3>4
  <2>3. QED
    BY <1>4, <2>2
<1>8. m - 1 \in 0 .. l /\ m \in 1 .. l /\ ~(m <= m - 1)
  BY <1>5, <1>7
<1>9. Upto(e, m - 1) = SubSeq(d, 1, c[m - 1]) /\ c[m - 1] <= n
  BY <1>3, <1>4, <1>6, <1>8
<1>10. PICK p, q \in Nat : p = c[m - 1] /\ q = c[m]
  BY <1>3, <1>5, <1>8
<1>11. p <= q /\ q <= n /\ e[m] = SubSeq(d, p + 1, q)
  BY <1>3, <1>6, <1>8, <1>10 DEF Sliced
<1>12. Upto(e, m) = SubSeq(d, 1, p) \o SubSeq(d, p + 1, q)
  BY <1>3, <1>8, <1>9, <1>10, <1>11, UptoStep
<1>13. SubSeq(d, 1, p) \o SubSeq(d, p + 1, q) = SubSeq(d, 1, q)
  <2>1. 1 \in 1 .. Len(d) + 1 /\ p \in 1 - 1 .. Len(d) /\ q \in p .. Len(d)
    BY <1>6, <1>11
  <2>2. QED
    BY <2>1, ConcatAdjacentSubSeq
<1>14. QED
  BY <1>4, <1>6, <1>10, <1>11, <1>12, <1>13

LEMMA SlicesFlatten ==
  ASSUME NEW S, NEW d \in Seq(S), NEW e \in Seq(Seq(S)), NEW c,
         \A k \in 0 .. Len(e) : c[k] \in Nat, Sliced(e, d, c), c[Len(e)] = Len(d)
  PROVE  FlattenSeq(e) = d
<1>1. Len(e) \in 0 .. Len(e)
  BY LenProperties
<1>2. Upto(e, Len(e)) = SubSeq(d, 1, Len(d))
  BY <1>1, SlicesUpto
<1>3. QED
  BY <1>2, UptoEnds, SubSeqFull

(* Where the k-th run ends.                                                *)
Cut(l, k) == IF k * RunSectors <= l THEN k * RunSectors ELSE l

LEMMA RunNumbers ==
  ASSUME NEW l \in Nat, NEW q, q = (l + RunSectors - 1) \div RunSectors
  PROVE  /\ q \in Nat /\ Cut(l, 0) = 0 /\ Cut(l, q) = l
         /\ \A k \in 0 .. q : Cut(l, k) \in Nat /\ Cut(l, k) <= l
         /\ \A k \in 0 .. q - 1 : /\ k * RunSectors < l /\ Cut(l, k) = k * RunSectors
                                  /\ Cut(l, k) < Cut(l, k + 1)
<1>1. PICK r \in Nat \ {0} : r = RunSectors
  BY SizesAssumption
<1>2. PICK u \in Nat : u = l + r - 1
  BY <1>1
<1>3. PICK s \in Nat : s = u % r
  BY <1>1
<1>4. q \in Nat /\ s < r /\ u = q * r + s
  BY <1>1, <1>2, <1>3, Quotient
<1>5. l <= q * r
  BY <1>1, <1>2, <1>3, <1>4
<1>6. ASSUME NEW k \in 0 .. q - 1
      PROVE  /\ k * r < l /\ k * r \in Nat /\ (k + 1) * r = k * r + r /\ k * r + r <= q * r
  <2>1. k \in Nat /\ k + 1 <= q
    BY <1>4
  <2>2. PICK d \in Nat : d = q - (k + 1)
    BY <1>4, <2>1
  <2>3. q * r = (k + 1) * r + d * r /\ d * r \in Nat /\ (k + 1) * r = k * r + r /\ k * r \in Nat
    <3>1. \A x, y \in Nat : (x + y) * r = x * r + y * r /\ x * r \in Nat
      BY <1>1
    <3>2. q = (k + 1) + d /\ k + 1 \in Nat
      BY <1>4, <2>1, <2>2
    <3>3. q * r = (k + 1) * r + d * r /\ d * r \in Nat
      BY <2>2, <3>1, <3>2
    <3>4. (k + 1) * r = k * r + 1 * r /\ k * r \in Nat /\ 1 * r = r
      BY <1>1, <2>1, <3>1
    <3>5. QED
      BY <3>3, <3>4
  <2>4. k * r + r <= q * r
    BY <1>1, <1>4, <2>3
  <2>5. k * r < l
    BY <1>1, <1>2, <1>3, <1>4, <2>3, <2>4
  <2>6. QED
    BY <2>3, <2>4, <2>5
<1>7. Cut(l, 0) = 0
  BY <1>1 DEF Cut
<1>8. Cut(l, q) = l
  BY <1>1, <1>4, <1>5 DEF Cut
<1>9. \A k \in 0 .. q : Cut(l, k) \in Nat /\ Cut(l, k) <= l
  BY <1>1, <1>4 DEF Cut
<1>10. ASSUME NEW k \in 0 .. q - 1
       PROVE  /\ k * RunSectors < l /\ Cut(l, k) = k * RunSectors
              /\ Cut(l, k) < Cut(l, k + 1)
  BY <1>1, <1>6, <1>10 DEF Cut
<1>11. QED
  BY <1>4, <1>7, <1>8, <1>9, <1>10

LEMMA MinPair ==
  ASSUME NEW a \in Int, NEW b \in Int
  PROVE  Min({a, b}) = IF a <= b THEN a ELSE b
<1>1. DEFINE m == IF a <= b THEN a ELSE b
<1>2. m \in {a, b} /\ \A y \in {a, b} : m <= y
  OBVIOUS
<1>3. \A x \in {a, b} : (\A y \in {a, b} : x <= y) => x = m
  OBVIOUS
<1>4. QED
  BY <1>2, <1>3 DEF Min

(* A run is the slice between two cuts.                                    *)
LEMMA RunSlice ==
  ASSUME NEW S, NEW data \in Seq(S), NEW l \in Nat, l = Len(data), NEW k \in 1 .. Runs(data)
  PROVE  /\ RunOf(data, k - 1) = SubSeq(data, Cut(l, k - 1) + 1, Cut(l, k))
         /\ RunOf(data, k - 1) \in Seq(S)
         /\ Len(RunOf(data, k - 1)) = Cut(l, k) - Cut(l, k - 1)
         /\ Len(RunOf(data, k - 1)) \in Nat \ {0}
         /\ \A j \in 1 .. Len(RunOf(data, k - 1)) :
              RunOf(data, k - 1)[j] = data[Cut(l, k - 1) + j]
<1>1. PICK r \in Nat \ {0} : r = RunSectors
  BY SizesAssumption
<1>2. PICK q \in Nat : q = Runs(data) /\ q = (l + RunSectors - 1) \div RunSectors
  BY RunNumbers DEF Runs
<1>3. k \in Nat /\ k - 1 \in 0 .. q - 1 /\ k \in 0 .. q /\ (k - 1) + 1 = k
  BY <1>2
<1>4. PICK a, b \in Nat : a = Cut(l, k - 1) /\ b = Cut(l, k)
  <2>1. k - 1 \in 0 .. q
    BY <1>2, <1>3
  <2>2. QED
    BY <1>2, <1>3, <2>1, RunNumbers
<1>5. a < b /\ b <= l /\ a = (k - 1) * RunSectors
  BY <1>2, <1>3, <1>4, RunNumbers
<1>6. RunOf(data, k - 1) = SubSeq(data, a + 1, b)
  <2>1. k * r \in Int
    BY <1>1, <1>3
  <2>2. Min({k * r, l}) = IF k * r <= l THEN k * r ELSE l
    BY <2>1, MinPair
  <2>3. Min({((k - 1) + 1) * RunSectors, Len(data)}) = b
    BY <1>1, <1>3, <1>4, <2>2 DEF Cut
  <2>4. QED
    BY <1>5, <2>3 DEF RunOf
<1>7. \A i \in a + 1 .. b : data[i] \in S
  <2>1. \A i \in a + 1 .. b : i \in 1 .. Len(data)
    BY <1>5
  <2>2. QED
    BY <2>1, ElementOfSeq
<1>8. /\ SubSeq(data, a + 1, b) \in Seq(S)
      /\ Len(SubSeq(data, a + 1, b)) = b - a
      /\ \A j \in 1 .. b - a : SubSeq(data, a + 1, b)[j] = data[a + j]
  <2>1. a + 1 \in Int /\ b \in Int /\ a + 1 <= b /\ b - (a + 1) + 1 = b - a
    BY <1>5
  <2>2. /\ SubSeq(data, a + 1, b) \in Seq(S)
        /\ Len(SubSeq(data, a + 1, b)) = (IF a + 1 <= b THEN b - (a + 1) + 1 ELSE 0)
        /\ \A i \in 1 .. b - (a + 1) + 1 : SubSeq(data, a + 1, b)[i] = data[(a + 1) + i - 1]
    BY <1>7, <2>1, SubSeqProperties
  <2>3. \A j \in 1 .. b - a : (a + 1) + j - 1 = a + j
    OBVIOUS
  <2>4. QED
    BY <2>1, <2>2, <2>3
<1>9. b - a \in Nat \ {0}
  BY <1>5
<1>10. QED
  BY <1>4, <1>6, <1>8, <1>9

-----------------------------------------------------------------------------
(***************************************************************************)
(* What insertBLKX makes, and that extractBLKX gives back what it was made *)
(* of.                                                                     *)
(***************************************************************************)

(* The names that partitions get.                                          *)
Name == {"DDM", "Apple_partition_map", "Apple_Driver_ATAPI", "Apple_HFSX", "Apple_Free",
         "whole"}

Sector == Content \cup ({"DDM"} \X BlockSizes \X Nat)
                  \cup ({"entry"} \X Name \X Nat \X Nat)
Cell   == Sector \cup ({"z"} \X Seq(Sector))

RunType == [kind : {"raw", "z", "ignore", "term"}, start : Nat, count : Nat,
            off : Nat, len : Nat]

Piece(run, p) == p = run \/ p = <<<<"z", run>>>>

LEMMA CellsPiece ==
  ASSUME NEW data, NEW i, NEW kept
  PROVE  /\ Piece(RunOf(data, i), Cells(data, i, kept))
         /\ i \in kept => Cells(data, i, kept) = RunOf(data, i)
  BY DEF Cells, Piece

LEMMA PieceType ==
  ASSUME NEW run \in Seq(Sector), Len(run) # 0, NEW p, Piece(run, p)
  PROVE  p \in Seq(Cell) /\ Len(p) \in Nat \ {0} /\ (p # run => Len(p) = 1 /\ p[1] = <<"z", run>>)
<1>1. run \in Seq(Cell)
  BY SeqMonotonic DEF Cell
<1>2. Len(run) \in Nat \ {0}
  BY LenProperties
<1>3. PICK z \in Cell : z = <<"z", run>>
  BY DEF Cell
<1>4. <<z>> \in Seq(Cell) /\ Len(<<z>>) = 1 /\ <<z>>[1] = z
  BY <1>3
<1>5. p = run \/ p = <<z>>
  BY <1>3 DEF Piece
<1>6. CASE p = run
  BY <1>1, <1>2, <1>6
<1>7. CASE p = <<z>>
  <2>1. Len(p) = 1 /\ p[1] = z /\ p \in Seq(Cell)
    BY <1>4, <1>7
  <2>2. QED
    BY <1>3, <2>1
<1>8. QED
  BY <1>5, <1>6, <1>7

Parts(data, kept) == [k \in 1 .. Runs(data) |-> Cells(data, k - 1, kept)]

TheRun(data, kept, off, k) ==
  [kind |-> IF Parts(data, kept)[k] = RunOf(data, k - 1) THEN "raw" ELSE "z",
   start |-> (k - 1) * RunSectors,
   count |-> Len(RunOf(data, k - 1)),
   off |-> off + Len(Upto(Parts(data, kept), k - 1)), len |-> Len(Parts(data, kept)[k])]

TheEnd(data, kept, off) ==
  [kind |-> "term", start |-> Len(data), count |-> 0,
   off |-> off + Len(Upto(Parts(data, kept), (Runs(data) + 1) - 1)), len |-> 0]

RunList(data, kept, off) ==
  Append([k \in 1 .. Runs(data) |-> TheRun(data, kept, off, k)], TheEnd(data, kept, off))

LEMMA InsertIs ==
  ASSUME NEW data, NEW first, NEW off, NEW kept
  PROVE  Insert(data, first, off, kept) =
           [cells |-> FlattenSeq(Parts(data, kept)),
            table |-> [first |-> first, count |-> Len(data), sum |-> data,
                       runs |-> RunList(data, kept, off)]]
  BY DEF Insert, Parts, TheRun, TheEnd, RunList, Upto

LEMMA PartsType ==
  ASSUME NEW data \in Seq(Sector), NEW kept
  PROVE  /\ Runs(data) \in Nat
         /\ Parts(data, kept) \in Seq(Seq(Cell)) /\ Len(Parts(data, kept)) = Runs(data)
         /\ \A k \in 1 .. Runs(data) : /\ Parts(data, kept)[k] = Cells(data, k - 1, kept)
                                       /\ Len(Parts(data, kept)[k]) \in Nat \ {0}
<1>1. PICK l \in Nat : l = Len(data)
  BY LenProperties
<1>2. PICK q \in Nat : q = Runs(data)
  BY <1>1, RunNumbers DEF Runs
<1>3. ASSUME NEW k \in 1 .. q
      PROVE  Cells(data, k - 1, kept) \in Seq(Cell) /\ Len(Cells(data, k - 1, kept)) \in Nat \ {0}
  <2>1. RunOf(data, k - 1) \in Seq(Sector) /\ Len(RunOf(data, k - 1)) # 0
    BY <1>1, <1>2, RunSlice
  <2>2. Piece(RunOf(data, k - 1), Cells(data, k - 1, kept))
    BY CellsPiece
  <2>3. QED
    BY <2>1, <2>2, PieceType
<1>4. PICK p : p = Parts(data, kept)
  OBVIOUS
<1>5. p = [k \in 1 .. q |-> Cells(data, k - 1, kept)]
  BY <1>2, <1>4 DEF Parts
<1>6. p \in Seq(Seq(Cell)) /\ Len(p) = q
  BY <1>3, <1>5
<1>7. \A k \in 1 .. q : p[k] = Cells(data, k - 1, kept)
  BY <1>5
<1>8. QED
  BY <1>2, <1>3, <1>4, <1>6, <1>7

LEMMA InsertType ==
  ASSUME NEW data \in Seq(Sector), NEW kept, NEW off \in Nat,
         NEW runs, runs = RunList(data, kept, off)
  PROVE  /\ FlattenSeq(Parts(data, kept)) \in Seq(Cell)
         /\ runs \in Seq(RunType) /\ Len(runs) = Runs(data) + 1
         /\ \A k \in 1 .. Runs(data) : runs[k] = TheRun(data, kept, off, k)
         /\ runs[Runs(data) + 1] = TheEnd(data, kept, off)
<1>1. PICK l \in Nat : l = Len(data)
  BY LenProperties
<1>2. PICK q \in Nat : q = Runs(data)
  BY PartsType
<1>3. PICK r \in Nat \ {0} : r = RunSectors
  BY SizesAssumption
<1>4. PICK p \in Seq(Seq(Cell)) : p = Parts(data, kept) /\ Len(p) = q
  BY <1>2, PartsType
<1>5. ASSUME NEW k \in 1 .. q PROVE TheRun(data, kept, off, k) \in RunType
  <2>1. (k - 1) * r \in Nat
    BY <1>3
  <2>2. Len(RunOf(data, k - 1)) \in Nat
    BY <1>1, <1>2, RunSlice
  <2>3. Len(p[k]) \in Nat
    BY <1>2, <1>4, PartsType
  <2>4. Len(Upto(p, k - 1)) \in Nat
    <3>1. k - 1 \in 0 .. Len(p)
      BY <1>4
    <3>2. QED
      BY <3>1, UptoType
  <2>5. off + Len(Upto(p, k - 1)) \in Nat
    BY <2>4
  <2>6. QED
    BY <1>3, <1>4, <2>1, <2>2, <2>3, <2>5 DEF TheRun, RunType
<1>6. TheEnd(data, kept, off) \in RunType
  <2>1. (q + 1) - 1 \in 0 .. Len(p)
    BY <1>4
  <2>2. Len(Upto(p, (q + 1) - 1)) \in Nat
    BY <2>1, UptoType
  <2>3. off + Len(Upto(p, (q + 1) - 1)) \in Nat
    BY <2>2
  <2>4. QED
    BY <1>1, <1>2, <1>4, <2>3 DEF TheEnd, RunType
<1>7. PICK s : s = [k \in 1 .. q |-> TheRun(data, kept, off, k)]
  OBVIOUS
<1>8. s \in Seq(RunType) /\ Len(s) = q /\ \A k \in 1 .. q : s[k] = TheRun(data, kept, off, k)
  BY <1>5, <1>7
<1>9. runs = Append(s, TheEnd(data, kept, off))
  BY <1>2, <1>7 DEF RunList
<1>10. /\ runs \in Seq(RunType) /\ Len(runs) = q + 1
       /\ \A k \in 1 .. q : runs[k] = s[k]
       /\ runs[q + 1] = TheEnd(data, kept, off)
  BY <1>6, <1>8, <1>9, AppendProperties
<1>11. FlattenSeq(Parts(data, kept)) \in Seq(Cell)
  BY <1>4, FlattenType
<1>12. QED
  BY <1>2, <1>8, <1>10, <1>11

(* What a run needs of the data fork.                                      *)
RunFits(fork, r) ==
  /\ r.kind = "raw" => /\ r.off + r.len <= Len(fork)
                       /\ \A j \in 1 .. r.len : fork[r.off + j] \in Sector
  /\ r.kind = "z" => r.off + 1 <= Len(fork) /\ fork[r.off + 1] \in {"z"} \X Seq(Sector)

LEMMA ExpandKinds ==
  ASSUME NEW fork, NEW r
  PROVE  /\ r.kind = "raw" => Expand(fork, r) = SubSeq(fork, r.off + 1, r.off + r.len)
         /\ r.kind = "z" => Expand(fork, r) = fork[r.off + 1][2]
         /\ r.kind = "ignore" => Expand(fork, r) = Zeros(r.count)
         /\ r.kind = "term" => Expand(fork, r) = <<>>
<1>1. CASE r.kind = "raw"
  BY <1>1, Zenon DEF Expand
<1>2. CASE r.kind = "z"
  <2>1. r.kind # "raw"
    BY <1>2
  <2>2. QED
    BY <1>2, <2>1 DEF Expand
<1>3. CASE r.kind = "ignore"
  BY <1>3 DEF Expand
<1>4. CASE r.kind = "term"
  BY <1>4 DEF Expand
<1>5. QED
  BY <1>1, <1>2, <1>3, <1>4

LEMMA ZerosAre ==
  ASSUME NEW n \in Nat
  PROVE  /\ Zeros(n) \in Seq(Sector) /\ Len(Zeros(n)) = n
         /\ \A i \in 1 .. n : Zeros(n)[i] = Zero
<1>1. Zero \in Sector
  <2>1. Zero \in Content
    BY DEF Content
  <2>2. QED
    BY <2>1 DEF Sector
<1>2. QED
  BY <1>1 DEF Zeros

LEMMA ExpandType ==
  ASSUME NEW fork \in Seq(Cell), NEW r \in RunType, RunFits(fork, r)
  PROVE  /\ Expand(fork, r) \in Seq(Sector)
         /\ r.kind = "raw" => /\ Len(Expand(fork, r)) = r.len
                              /\ \A j \in 1 .. r.len : Expand(fork, r)[j] = fork[r.off + j]
<1>1. r.kind \in {"raw", "z", "ignore", "term"} /\ r.off \in Nat /\ r.len \in Nat /\ r.count \in Nat
  BY DEF RunType
<1>2. CASE r.kind = "raw"
  <2>1. PICK a, n \in Nat : a = r.off /\ n = r.len
    BY <1>1
  <2>2. \A j \in 1 .. n : fork[a + j] \in Sector
    BY <1>2, <2>1 DEF RunFits
  <2>3. \A i \in a + 1 .. a + n : fork[i] \in Sector
    <3>1. ASSUME NEW i \in a + 1 .. a + n PROVE fork[i] \in Sector
      <4>1. i - a \in 1 .. n /\ a + (i - a) = i
        OBVIOUS
      <4>2. fork[a + (i - a)] \in Sector
        BY <2>2, <4>1
      <4>3. QED
        BY <4>1, <4>2
    <3>2. QED
      BY <3>1
  <2>4. /\ SubSeq(fork, a + 1, a + n) \in Seq(Sector)
        /\ Len(SubSeq(fork, a + 1, a + n)) = (IF a + 1 <= a + n THEN a + n - (a + 1) + 1 ELSE 0)
        /\ \A i \in 1 .. a + n - (a + 1) + 1 :
             SubSeq(fork, a + 1, a + n)[i] = fork[(a + 1) + i - 1]
    <3>1. a + 1 \in Int /\ a + n \in Int
      OBVIOUS
    <3>2. QED
      BY <2>3, <3>1, SubSeqProperties
  <2>5. /\ (IF a + 1 <= a + n THEN a + n - (a + 1) + 1 ELSE 0) = n /\ a + n - (a + 1) + 1 = n
        /\ \A j \in 1 .. n : (a + 1) + j - 1 = a + j
    OBVIOUS
  <2>6. \A j \in 1 .. n : SubSeq(fork, a + 1, a + n)[j] = fork[a + j]
    BY <2>4, <2>5
  <2>7. Expand(fork, r) = SubSeq(fork, a + 1, a + n)
    BY <1>2, <2>1, ExpandKinds
  <2>8. QED
    BY <2>1, <2>4, <2>5, <2>6, <2>7
<1>3. CASE r.kind = "z"
  <2>1. Expand(fork, r) = fork[r.off + 1][2]
    BY <1>3, ExpandKinds
  <2>2. fork[r.off + 1] \in {"z"} \X Seq(Sector)
    BY <1>3 DEF RunFits
  <2>3. QED
    BY <1>3, <2>1, <2>2
<1>4. CASE r.kind = "ignore"
  BY <1>1, <1>4, ExpandKinds, ZerosAre
<1>5. CASE r.kind = "term"
  BY <1>5, ExpandKinds, EmptySeq
<1>6. QED
  BY <1>1, <1>2, <1>3, <1>4, <1>5

(* A fork that has grown has the same runs.                                *)
LEMMA ExpandGrown ==
  ASSUME NEW fork \in Seq(Cell), NEW more \in Seq(Cell), Starts(more, fork),
         NEW r \in RunType, RunFits(fork, r)
  PROVE  RunFits(more, r) /\ Expand(more, r) = Expand(fork, r)
<1>1. PICK a, n, m, l \in Nat : a = r.off /\ n = r.len /\ m = Len(fork) /\ l = Len(more)
  BY LenProperties DEF RunType
<1>2. m <= l /\ \A i \in 1 .. m : more[i] = fork[i]
  BY <1>1 DEF Starts
<1>3. r.kind \in {"raw", "z", "ignore", "term"}
  BY DEF RunType
<1>4. CASE r.kind = "raw"
  <2>1. a + n <= m /\ \A j \in 1 .. n : fork[a + j] \in Sector
    BY <1>1, <1>4 DEF RunFits
  <2>2. \A j \in 1 .. n : a + j \in 1 .. m
    BY <2>1
  <2>3. \A j \in 1 .. n : more[a + j] = fork[a + j]
    BY <1>2, <2>2
  <2>4. RunFits(more, r)
    <3>1. a + n <= l
      BY <1>2, <2>1
    <3>2. QED
      BY <1>1, <1>4, <2>1, <2>3, <3>1 DEF RunFits
  <2>5. /\ Expand(more, r) \in Seq(Sector) /\ Len(Expand(more, r)) = n
        /\ \A j \in 1 .. n : Expand(more, r)[j] = more[a + j]
    BY <1>1, <1>4, <2>4, ExpandType
  <2>6. /\ Expand(fork, r) \in Seq(Sector) /\ Len(Expand(fork, r)) = n
        /\ \A j \in 1 .. n : Expand(fork, r)[j] = fork[a + j]
    BY <1>1, <1>4, ExpandType
  <2>7. \A j \in 1 .. Len(Expand(more, r)) : Expand(more, r)[j] = Expand(fork, r)[j]
    BY <2>3, <2>5, <2>6
  <2>8. Expand(more, r) = Expand(fork, r)
    BY <2>5, <2>6, <2>7, SeqEqual
  <2>9. QED
    BY <2>4, <2>8
<1>5. CASE r.kind = "z"
  <2>1. a + 1 <= m /\ fork[a + 1] \in {"z"} \X Seq(Sector)
    BY <1>1, <1>5 DEF RunFits
  <2>2. more[a + 1] = fork[a + 1] /\ a + 1 <= l
    BY <1>2, <2>1
  <2>3. RunFits(more, r)
    BY <1>1, <1>5, <2>1, <2>2 DEF RunFits
  <2>4. Expand(more, r) = more[a + 1][2] /\ Expand(fork, r) = fork[a + 1][2]
    BY <1>1, <1>5, ExpandKinds
  <2>5. QED
    BY <2>2, <2>3, <2>4
<1>6. CASE r.kind \in {"ignore", "term"}
  <2>1. RunFits(more, r)
    BY <1>6 DEF RunFits
  <2>2. QED
    BY <1>6, <2>1, ExpandKinds
<1>7. QED
  BY <1>3, <1>4, <1>5, <1>6

LEMMA RunIs ==
  ASSUME NEW data \in Seq(Sector), NEW kept, NEW pre \in Seq(Cell),
         NEW fork \in Seq(Cell), Starts(fork, pre \o FlattenSeq(Parts(data, kept))),
         NEW k \in 1 .. Runs(data), NEW r, r = TheRun(data, kept, Len(pre), k)
  PROVE  RunFits(fork, r) /\ Expand(fork, r) = RunOf(data, k - 1) /\ r.kind # "ignore"
<1>1. PICK q \in Nat : q = Runs(data)
  BY PartsType
<1>2. PICK p \in Seq(Seq(Cell)) : p = Parts(data, kept) /\ Len(p) = q
  BY <1>1, PartsType
<1>3. PICK run \in Seq(Sector) : run = RunOf(data, k - 1)
  <2>1. Len(data) \in Nat
    BY LenProperties
  <2>2. QED
    BY <2>1, RunSlice
<1>4. Len(run) # 0
  <2>1. Len(data) \in Nat
    BY LenProperties
  <2>2. QED
    BY <1>3, <2>1, RunSlice
<1>5. PICK c \in Seq(Cell) : c = p[k] /\ Piece(run, c)
  <2>1. p[k] \in Seq(Cell)
    BY <1>1, <1>2, ElementOfSeq
  <2>2. p[k] = Cells(data, k - 1, kept)
    BY <1>2, PartsType
  <2>3. QED
    BY <1>3, <2>1, <2>2, CellsPiece
<1>6. PICK n \in Nat : n = Len(c)
  BY LenProperties
<1>7. PICK a, b \in Nat : a = Len(Upto(p, k - 1)) /\ b = Len(pre)
  <2>1. k - 1 \in 0 .. Len(p)
    BY <1>1, <1>2
  <2>2. QED
    BY <2>1, UptoType, LenProperties
<1>8. PICK f \in Seq(Cell) : f = FlattenSeq(p)
  BY FlattenType
<1>9. PICK m \in Nat : m = Len(f)
  BY LenProperties
<1>10. a + n <= m /\ \A j \in 1 .. n : f[a + j] = c[j]
  <2>1. k \in 1 .. Len(p)
    BY <1>1, <1>2
  <2>2. /\ a + Len(p[k]) <= Len(FlattenSeq(p))
        /\ \A j \in 1 .. Len(p[k]) : FlattenSeq(p)[a + j] = p[k][j]
    <3>1. Sits(FlattenSeq(p), p[k], a)
      BY <1>7, <2>1, FlattenPlace
    <3>2. QED
      BY <3>1 DEF Sits
  <2>3. QED
    BY <1>5, <1>6, <1>8, <1>9, <2>2
<1>11. /\ Len(pre \o f) = b + m
       /\ \A i \in 1 .. b + m : (pre \o f)[i] = IF i <= b THEN pre[i] ELSE f[i - b]
  BY <1>7, <1>9, ConcatProperties
<1>12. PICK l \in Nat : l = Len(fork)
  BY LenProperties
<1>13. b + m <= l /\ \A i \in 1 .. b + m : fork[i] = (pre \o f)[i]
  BY <1>2, <1>8, <1>11, <1>12 DEF Starts
<1>14. ASSUME NEW j \in 1 .. n
       PROVE  (b + a) + j \in 1 .. b + m /\ fork[(b + a) + j] = c[j]
  <2>1. (b + a) + j \in 1 .. b + m /\ ~((b + a) + j <= b) /\ ((b + a) + j) - b = a + j
    BY <1>10
  <2>2. fork[(b + a) + j] = f[a + j]
    BY <1>11, <1>13, <2>1
  <2>3. QED
    BY <1>10, <2>1, <2>2
<1>15. /\ r.kind = (IF c = run THEN "raw" ELSE "z")
       /\ r.off = b + a /\ r.len = n
  BY <1>2, <1>3, <1>5, <1>6, <1>7 DEF TheRun
<1>16. CASE c = run
  <2>1. r.kind = "raw"
    BY <1>15, <1>16
  <2>2. (b + a) + n <= l
    BY <1>10, <1>13
  <2>3. \A j \in 1 .. n : run[j] \in Sector
    BY <1>6, <1>16, ElementOfSeq
  <2>4. \A j \in 1 .. n : fork[(b + a) + j] \in Sector
    BY <1>14, <1>16, <2>3
  <2>5. RunFits(fork, r)
    BY <1>12, <1>15, <2>1, <2>2, <2>4 DEF RunFits
  <2>6. r \in RunType
    <3>1. RunList(data, kept, b) \in Seq(RunType) /\ k \in 1 .. Len(RunList(data, kept, b))
      BY <1>1, InsertType
    <3>2. RunList(data, kept, b)[k] = r
      BY <1>7, InsertType
    <3>3. QED
      BY <3>1, <3>2, ElementOfSeq
  <2>7. /\ Expand(fork, r) \in Seq(Sector) /\ Len(Expand(fork, r)) = r.len
        /\ \A j \in 1 .. r.len : Expand(fork, r)[j] = fork[r.off + j]
    BY <2>1, <2>5, <2>6, ExpandType
  <2>8. Len(Expand(fork, r)) = Len(run)
    BY <1>6, <1>15, <1>16, <2>7
  <2>9. \A j \in 1 .. Len(Expand(fork, r)) : Expand(fork, r)[j] = run[j]
    BY <1>14, <1>15, <1>16, <2>7
  <2>10. Expand(fork, r) = run
    BY <2>7, <2>8, <2>9, SeqEqual
  <2>11. QED
    BY <1>3, <2>1, <2>5, <2>10
<1>17. CASE c # run
  <2>1. r.kind = "z"
    BY <1>15, <1>17
  <2>2. n = 1 /\ c[1] = <<"z", run>>
    BY <1>4, <1>5, <1>6, <1>17, PieceType
  <2>3. fork[(b + a) + 1] = <<"z", run>> /\ (b + a) + 1 <= l
    <3>1. 1 \in 1 .. n
      BY <2>2
    <3>2. (b + a) + 1 \in 1 .. b + m /\ fork[(b + a) + 1] = c[1]
      BY <1>14, <3>1
    <3>3. QED
      BY <1>13, <2>2, <3>2
  <2>4. RunFits(fork, r)
    BY <1>12, <1>15, <2>1, <2>3 DEF RunFits
  <2>5. Expand(fork, r) = run
    BY <1>15, <2>1, <2>3, ExpandKinds
  <2>6. QED
    BY <1>3, <2>1, <2>4, <2>5
<1>18. QED
  BY <1>16, <1>17

-----------------------------------------------------------------------------
(* The runs of a table.                                                    *)

Fits(fork, runs) == \A k \in 1 .. Len(runs) : RunFits(fork, runs[k])

Expands(fork, runs) == [k \in DOMAIN runs |-> Expand(fork, runs[k])]
Feeds(fork, runs) ==
  [k \in DOMAIN runs |-> IF runs[k].kind = "ignore" THEN <<>> ELSE Expand(fork, runs[k])]

LEMMA ExtractIs ==
  ASSUME NEW fork, NEW t
  PROVE  Extract(fork, t) = FlattenSeq(Expands(fork, t.runs))
  BY DEF Extract, Expands

LEMMA FedIs ==
  ASSUME NEW i, NEW t
  PROVE  Fed(i, t) = FlattenSeq(Feeds(i.fork, t.runs))
  BY DEF Fed, Feeds

LEMMA ListsType ==
  ASSUME NEW fork \in Seq(Cell), NEW runs \in Seq(RunType), Fits(fork, runs)
  PROVE  /\ Expands(fork, runs) \in Seq(Seq(Sector)) /\ Len(Expands(fork, runs)) = Len(runs)
         /\ Feeds(fork, runs) \in Seq(Seq(Sector)) /\ Len(Feeds(fork, runs)) = Len(runs)
         /\ \A k \in 1 .. Len(runs) :
              /\ Expands(fork, runs)[k] = Expand(fork, runs[k])
              /\ Feeds(fork, runs)[k] = IF runs[k].kind = "ignore" THEN <<>>
                                        ELSE Expand(fork, runs[k])
<1>1. PICK n \in Nat : n = Len(runs) /\ DOMAIN runs = 1 .. n
  BY LenProperties
<1>2. \A k \in 1 .. n : runs[k] \in RunType /\ RunFits(fork, runs[k])
  BY <1>1, ElementOfSeq DEF Fits
<1>3. \A k \in 1 .. n : Expand(fork, runs[k]) \in Seq(Sector)
  BY <1>2, ExpandType
<1>4. <<>> \in Seq(Sector)
  BY EmptySeq
<1>5. PICK e : e = [k \in 1 .. n |-> Expand(fork, runs[k])]
  OBVIOUS
<1>6. e \in Seq(Seq(Sector)) /\ Len(e) = n /\ \A k \in 1 .. n : e[k] = Expand(fork, runs[k])
  BY <1>3, <1>5
<1>7. PICK f : f = [k \in 1 .. n |->
                     IF runs[k].kind = "ignore" THEN <<>> ELSE Expand(fork, runs[k])]
  OBVIOUS
<1>8. /\ f \in Seq(Seq(Sector)) /\ Len(f) = n
      /\ \A k \in 1 .. n : f[k] = IF runs[k].kind = "ignore" THEN <<>> ELSE Expand(fork, runs[k])
  <2>1. \A k \in 1 .. n : (IF runs[k].kind = "ignore" THEN <<>> ELSE Expand(fork, runs[k]))
                            \in Seq(Sector)
    BY <1>3, <1>4
  <2>2. /\ DOMAIN f = 1 .. n
        /\ \A k \in 1 .. n : f[k] = IF runs[k].kind = "ignore" THEN <<>> ELSE Expand(fork, runs[k])
    BY <1>7
  <2>3. \A k \in 1 .. n : f[k] \in Seq(Sector)
    BY <2>1, <2>2
  <2>4. f \in [1 .. n -> Seq(Sector)]
    BY ONLY <1>7, <2>1
  <2>5. f \in Seq(Seq(Sector))
    BY ONLY <2>4, n \in Nat, SeqDef
  <2>6. Len(f) = n
    BY ONLY <2>4, <2>5, n \in Nat, LenProperties
  <2>7. QED
    BY ONLY <2>2, <2>5, <2>6
<1>9. e = Expands(fork, runs) /\ f = Feeds(fork, runs)
  BY <1>1, <1>5, <1>7 DEF Expands, Feeds
<1>10. QED
  BY <1>1, <1>6, <1>8, <1>9

LEMMA ListsGrown ==
  ASSUME NEW fork \in Seq(Cell), NEW more \in Seq(Cell), Starts(more, fork),
         NEW runs \in Seq(RunType), Fits(fork, runs)
  PROVE  /\ Fits(more, runs) /\ Expands(more, runs) = Expands(fork, runs)
         /\ Feeds(more, runs) = Feeds(fork, runs)
<1>1. PICK n \in Nat : n = Len(runs) /\ DOMAIN runs = 1 .. n
  BY LenProperties
<1>2. \A k \in 1 .. n : runs[k] \in RunType /\ RunFits(fork, runs[k])
  BY <1>1, ElementOfSeq DEF Fits
<1>3. \A k \in 1 .. n : RunFits(more, runs[k]) /\ Expand(more, runs[k]) = Expand(fork, runs[k])
  BY <1>2, ExpandGrown
<1>4. Expands(more, runs) = Expands(fork, runs)
  BY <1>1, <1>3, Zenon DEF Expands
<1>5. Feeds(more, runs) = Feeds(fork, runs)
  <2>1. ASSUME NEW k \in 1 .. n
        PROVE  (IF runs[k].kind = "ignore" THEN <<>> ELSE Expand(more, runs[k]))
               = (IF runs[k].kind = "ignore" THEN <<>> ELSE Expand(fork, runs[k]))
    BY <1>3
  <2>2. QED
    BY <1>1, <2>1, Zenon DEF Feeds
<1>6. QED
  BY <1>1, <1>3, <1>4, <1>5 DEF Fits

LEMMA RunIsSlice ==
  ASSUME NEW data \in Seq(Sector), NEW l \in Nat, l = Len(data), NEW k \in 1 .. Runs(data)
  PROVE  RunOf(data, k - 1) = SubSeq(data, Cut(l, k - 1) + 1, Cut(l, k))
<1>1. PICK S : S = Sector
  OBVIOUS
<1>2. data \in Seq(S)
  BY <1>1
<1>3. QED
  BY <1>2, RunSlice

(* The table of an insertion has the data.                                 *)
LEMMA Inserted ==
  ASSUME NEW data \in Seq(Sector), NEW kept, NEW pre \in Seq(Cell),
         NEW fork \in Seq(Cell), Starts(fork, pre \o FlattenSeq(Parts(data, kept))),
         NEW runs, runs = RunList(data, kept, Len(pre))
  PROVE  /\ runs \in Seq(RunType) /\ Fits(fork, runs)
         /\ FlattenSeq(Expands(fork, runs)) = data /\ FlattenSeq(Feeds(fork, runs)) = data
<1>1. PICK l \in Nat : l = Len(data)
  BY LenProperties
<1>2. PICK q \in Nat : q = Runs(data)
  BY PartsType
<1>3. PICK b \in Nat : b = Len(pre)
  BY LenProperties
<1>4. /\ runs \in Seq(RunType) /\ Len(runs) = q + 1
      /\ \A k \in 1 .. q : runs[k] = TheRun(data, kept, b, k)
      /\ runs[q + 1] = TheEnd(data, kept, b)
  BY <1>2, <1>3, InsertType
<1>5. \A k \in 1 .. q : /\ RunFits(fork, runs[k]) /\ runs[k].kind # "ignore"
                        /\ Expand(fork, runs[k]) = RunOf(data, k - 1)
  BY <1>2, <1>3, <1>4, RunIs
<1>6. runs[q + 1].kind = "term"
  BY <1>4 DEF TheEnd
<1>7. RunFits(fork, runs[q + 1]) /\ Expand(fork, runs[q + 1]) = <<>>
  BY <1>6, ExpandKinds DEF RunFits
<1>8. \A k \in 1 .. q + 1 : k \in 1 .. q \/ k = q + 1
  OBVIOUS
<1>9. Fits(fork, runs)
  BY <1>4, <1>5, <1>7, <1>8 DEF Fits
<1>10. PICK e \in Seq(Seq(Sector)) : e = Expands(fork, runs)
  BY <1>4, <1>9, ListsType
<1>11. Len(e) = q + 1 /\ \A k \in 1 .. q + 1 : e[k] = Expand(fork, runs[k])
  BY <1>4, <1>9, <1>10, ListsType
<1>12. Feeds(fork, runs) = e
  <2>1. PICK f \in Seq(Seq(Sector)) : f = Feeds(fork, runs)
    BY <1>4, <1>9, ListsType
  <2>2. Len(f) = q + 1 /\ \A k \in 1 .. q + 1 : f[k] = IF runs[k].kind = "ignore" THEN <<>>
                                                        ELSE Expand(fork, runs[k])
    BY <1>4, <1>9, <2>1, ListsType
  <2>3. \A k \in 1 .. q + 1 : runs[k].kind # "ignore"
    BY <1>5, <1>6, <1>8
  <2>4. \A k \in 1 .. Len(f) : f[k] = e[k]
    BY <1>11, <2>2, <2>3
  <2>5. QED
    BY <1>11, <2>1, <2>2, <2>4, SeqEqual
<1>13. PICK c : c = [k \in 0 .. q + 1 |-> IF k <= q THEN Cut(l, k) ELSE l]
  OBVIOUS
<1>14. \A k \in 0 .. q + 1 : c[k] = IF k <= q THEN Cut(l, k) ELSE l
  BY <1>13
<1>15. /\ Cut(l, 0) = 0 /\ Cut(l, q) = l
       /\ \A k \in 0 .. q : Cut(l, k) \in Nat /\ Cut(l, k) <= l
       /\ \A k \in 0 .. q - 1 : Cut(l, k) < Cut(l, k + 1)
  BY <1>1, <1>2, RunNumbers DEF Runs
<1>16. \A k \in 0 .. Len(e) : c[k] \in Nat
  BY <1>11, <1>14, <1>15
<1>17. c[Len(e)] = l
  <2>1. q + 1 \in 0 .. q + 1 /\ ~(q + 1 <= q)
    OBVIOUS
  <2>2. QED
    BY <1>11, <1>14, <2>1
<1>18. Sliced(e, data, c)
  <2>1. c[0] = 0
    BY <1>14, <1>15
  <2>2. ASSUME NEW k \in 1 .. q + 1
        PROVE  /\ c[k - 1] <= c[k] /\ c[k] <= l
               /\ e[k] = SubSeq(data, c[k - 1] + 1, c[k])
    <3>1. CASE k = q + 1
      <4>1. c[k - 1] = l /\ c[k] = l
        <5>1. k - 1 = q /\ q \in 0 .. q + 1 /\ k \in 0 .. q + 1 /\ ~(k <= q) /\ q <= q
          BY <3>1
        <5>2. QED
          BY <1>14, <1>15, <5>1
      <4>2. SubSeq(data, l + 1, l) = <<>>
        BY SubSeqEmpty
      <4>3. e[k] = <<>>
        BY <1>7, <1>11, <3>1
      <4>4. QED
        BY <4>1, <4>2, <4>3
    <3>2. CASE k # q + 1
      <4>1. k \in 1 .. q /\ k - 1 \in 0 .. q - 1 /\ k - 1 \in 0 .. q + 1 /\ k \in 0 .. q + 1
            /\ k <= q /\ k - 1 <= q /\ (k - 1) + 1 = k /\ k \in 0 .. q
        BY <3>2
      <4>2. c[k - 1] = Cut(l, k - 1) /\ c[k] = Cut(l, k)
        BY <1>14, <4>1
      <4>3. Cut(l, k - 1) < Cut(l, k) /\ Cut(l, k) <= l /\ Cut(l, k) \in Nat
        BY <1>15, <4>1
      <4>4. Cut(l, k - 1) \in Nat
        BY <1>15, <4>1
      <4>5. e[k] = SubSeq(data, Cut(l, k - 1) + 1, Cut(l, k))
        <5>1. e[k] = RunOf(data, k - 1)
          BY <1>5, <1>11, <4>1
        <5>2. k \in 1 .. Runs(data)
          BY <1>2, <4>1
        <5>3. RunOf(data, k - 1) = SubSeq(data, Cut(l, k - 1) + 1, Cut(l, k))
          BY ONLY data \in Seq(Sector), l \in Nat, <1>1, <5>2, RunIsSlice
        <5>4. QED
          BY <5>1, <5>3
      <4>6. QED
        BY <4>2, <4>3, <4>4, <4>5
    <3>3. QED
      BY <3>1, <3>2
  <2>3. QED
    BY <1>1, <1>11, <2>1, <2>2 DEF Sliced
<1>19. FlattenSeq(e) = data
  BY <1>1, <1>16, <1>17, <1>18, SlicesFlatten
<1>20. QED
  BY <1>4, <1>9, <1>10, <1>12, <1>19

-----------------------------------------------------------------------------
(* Least and greatest elements.                                            *)

LEMMA MinIs ==
  ASSUME NEW T, T \subseteq Nat, T # {}
  PROVE  Min(T) \in T /\ \A y \in T : Min(T) <= y
<1>1. PICK x \in T : \A y \in T : x <= y
  BY LeastNat
<1>2. QED
  BY <1>1 DEF Min

LEMMA MaxIs ==
  ASSUME NEW T, T \subseteq Nat, T # {}, NEW b \in Nat, \A y \in T : y <= b
  PROVE  Max(T) \in T /\ \A y \in T : Max(T) >= y
<1>1. DEFINE U == {c \in Nat : \A y \in T : y <= c}
<1>2. b \in U /\ U \subseteq Nat
  OBVIOUS
<1>3. PICK m \in U : \A c \in U : m <= c
  BY <1>2, LeastNat
<1>4. m \in T
  <2>1. SUFFICES ASSUME m \notin T PROVE FALSE
    OBVIOUS
  <2>2. \A y \in T : y <= m /\ y # m /\ y \in Nat
    BY <1>3, <2>1
  <2>3. m \in Nat /\ m # 0 /\ m - 1 \in Nat
    <3>1. PICK y \in T : TRUE
      OBVIOUS
    <3>2. y \in Nat /\ y <= m /\ y # m /\ m \in Nat
      BY <1>3, <2>2
    <3>3. QED
      BY <3>2
  <2>4. \A y \in T : y <= m - 1
    BY <2>2, <2>3
  <2>5. m - 1 \in U
    BY <2>3, <2>4
  <2>6. QED
    BY <1>3, <2>3, <2>5
<1>5. \A y \in T : m >= y
  BY <1>3
<1>6. QED
  BY <1>4, <1>5 DEF Max

LEMMA SomeBound ==
  ASSUME NEW n \in Nat, NEW f, \A k \in 1 .. n : f[k] \in Nat
  PROVE  \E b \in Nat : \A k \in 1 .. n : f[k] <= b
<1>1. DEFINE Bad == {m \in 0 .. n : ~ \E b \in Nat : \A k \in 1 .. m : f[k] <= b}
<1>2. SUFFICES ASSUME Bad # {} PROVE FALSE
  BY <1>2
<1>3. PICK m \in Bad : \A j \in Bad : m <= j
  <2>1. Bad \subseteq Nat
    OBVIOUS
  <2>2. QED
    BY <1>2, <2>1, LeastNat
<1>4. m \in 0 .. n /\ m \in Nat
  BY <1>3
<1>5. m # 0
  <2>1. \A k \in 1 .. 0 : f[k] <= 0
    OBVIOUS
  <2>2. QED
    BY <1>3, <2>1
<1>6. m - 1 \in 0 .. n /\ ~(m <= m - 1) /\ m \in 1 .. n
  BY <1>4, <1>5
<1>7. PICK b \in Nat : \A k \in 1 .. m - 1 : f[k] <= b
  BY <1>3, <1>6
<1>8. PICK c \in Nat : c = f[m]
  BY <1>6
<1>9. \A k \in 1 .. m : f[k] <= b + c
  <2>1. ASSUME NEW k \in 1 .. m PROVE f[k] <= b + c
    <3>1. CASE k = m
      BY <1>8, <3>1
    <3>2. CASE k # m
      <4>1. k \in 1 .. m - 1 /\ f[k] \in Nat
        BY <1>4, <3>2
      <4>2. f[k] <= b
        BY <1>7, <4>1
      <4>3. QED
        BY <4>1, <4>2
    <3>3. QED
      BY <3>1, <3>2
  <2>2. QED
    BY <2>1
<1>10. b + c \in Nat
  OBVIOUS
<1>11. QED
  BY <1>3, <1>9, <1>10

-----------------------------------------------------------------------------
(***************************************************************************)
(* Images.                                                                 *)
(***************************************************************************)

Id == Nat \cup {-1}

TableType == [id : Id, name : Name, first : Nat, count : Nat, sum : Seq(Sector),
              runs : Seq(RunType)]

(* A table whose runs are in the fork and whose checksum is theirs.        *)
Sound(fork, t) ==
  /\ t \in TableType
  /\ Fits(fork, t.runs)
  /\ FlattenSeq(Feeds(fork, t.runs)) = t.sum
  /\ Len(FlattenSeq(Expands(fork, t.runs))) = t.count

AllSound(fork, list) ==
  list \in Seq(TableType) /\ \A k \in 1 .. Len(list) : Sound(fork, list[k])

LEMMA SoundGrown ==
  ASSUME NEW fork \in Seq(Cell), NEW more \in Seq(Cell), Starts(more, fork),
         NEW t, Sound(fork, t)
  PROVE  Sound(more, t)
<1>1. t.runs \in Seq(RunType)
  BY DEF Sound, TableType
<1>2. /\ Fits(more, t.runs) /\ Expands(more, t.runs) = Expands(fork, t.runs)
      /\ Feeds(more, t.runs) = Feeds(fork, t.runs)
  BY <1>1, ListsGrown DEF Sound
<1>3. QED
  BY <1>2 DEF Sound

LEMMA AllSoundGrown ==
  ASSUME NEW fork \in Seq(Cell), NEW more \in Seq(Cell), Starts(more, fork),
         NEW list, AllSound(fork, list)
  PROVE  AllSound(more, list)
  BY SoundGrown DEF AllSound

(* The list with e in it, at place p, which is new or has that ID.         *)
Listing(list, e, new, p) ==
  /\ p \in 1 .. Len(new) /\ new[p] = e
  /\ \A k \in 1 .. Len(new) : k # p => k \in 1 .. Len(list) /\ new[k] = list[k]
  /\ IF \E k \in 1 .. Len(list) : list[k].id = e.id
     THEN Len(new) = Len(list) /\ list[p].id = e.id
     ELSE Len(new) = Len(list) + 1 /\ p = Len(list) + 1

LEMMA InsertDataIs ==
  ASSUME NEW S, NEW list \in Seq(S), NEW e \in S
  PROVE  /\ InsertData(list, e) \in Seq(S)
         /\ \E p : Listing(list, e, InsertData(list, e), p)
<1>1. PICK n \in Nat : n = Len(list) /\ DOMAIN list = 1 .. n
  BY LenProperties
<1>2. PICK same : same = {k \in 1 .. n : list[k].id = e.id}
  OBVIOUS
<1>3. InsertData(list, e) = IF same = {} THEN Append(list, e) ELSE [list EXCEPT ![Min(same)] = e]
  BY <1>1, <1>2 DEF InsertData
<1>4. CASE same = {}
  <2>1. PICK new : new = Append(list, e)
    OBVIOUS
  <2>2. /\ new \in Seq(S) /\ Len(new) = n + 1 /\ new[n + 1] = e
        /\ \A k \in 1 .. n : new[k] = list[k]
    BY <1>1, <2>1, AppendProperties
  <2>3. ~ \E k \in 1 .. Len(list) : list[k].id = e.id
    BY <1>1, <1>2, <1>4
  <2>4. Listing(list, e, new, n + 1)
    <3>1. n + 1 \in 1 .. n + 1 /\ \A k \in 1 .. n + 1 : k # n + 1 => k \in 1 .. n
      OBVIOUS
    <3>2. QED
      BY <1>1, <2>2, <2>3, <3>1 DEF Listing
  <2>5. QED
    BY <1>3, <1>4, <2>1, <2>2, <2>4
<1>5. CASE same # {}
  <2>1. PICK m : m = Min(same)
    OBVIOUS
  <2>2. m \in same
    <3>1. same \subseteq Nat
      BY <1>2
    <3>2. QED
      BY <1>5, <2>1, <3>1, MinIs
  <2>3. PICK new : new = [list EXCEPT ![m] = e]
    OBVIOUS
  <2>4. m \in 1 .. Len(list)
    BY <1>1, <1>2, <2>2
  <2>5. /\ new \in Seq(S) /\ Len(new) = n
        /\ \A k \in 1 .. n : new[k] = IF k = m THEN e ELSE list[k]
    BY <1>1, <2>3, <2>4, ExceptSeq
  <2>6. \E k \in 1 .. Len(list) : list[k].id = e.id
    BY <1>1, <1>2, <2>2
  <2>7. Listing(list, e, new, m)
    <3>1. list[m].id = e.id
      BY <1>2, <2>2
    <3>2. QED
      BY <1>1, <2>4, <2>5, <2>6, <3>1 DEF Listing
  <2>8. QED
    BY <1>3, <1>5, <2>1, <2>3, <2>5, <2>7
<1>6. QED
  BY <1>4, <1>5

LEMMA InsertSound ==
  ASSUME NEW fork, NEW list, AllSound(fork, list), NEW e, Sound(fork, e)
  PROVE  AllSound(fork, InsertData(list, e))
<1>1. list \in Seq(TableType) /\ e \in TableType
  BY DEF AllSound, Sound
<1>2. PICK new \in Seq(TableType) : new = InsertData(list, e)
  BY <1>1, InsertDataIs
<1>3. PICK p : Listing(list, e, new, p)
  BY <1>1, <1>2, InsertDataIs
<1>4. ASSUME NEW k \in 1 .. Len(new) PROVE Sound(fork, new[k])
  BY <1>3, <1>4 DEF Listing, AllSound
<1>5. QED
  BY <1>2, <1>4 DEF AllSound

-----------------------------------------------------------------------------
(* An image is a record, and j is i but for the fields that are given.     *)

ImageIs(i) ==
  i = [fork |-> i.fork, sum |-> i.sum, blkx |-> i.blkx, cSum |-> i.cSum,
       nsiz |-> i.nsiz, pNum |-> i.pNum, plst |-> i.plst, koly |-> i.koly]

Image(fork, sum, blkx, cSum, nsiz, pNum, plst, koly) ==
  [fork |-> fork, sum |-> sum, blkx |-> blkx, cSum |-> cSum,
   nsiz |-> nsiz, pNum |-> pNum, plst |-> plst, koly |-> koly]

LEMMA AddPartitionIs ==
  ASSUME NEW i, ImageIs(i), NEW data, NEW first, NEW id, NEW name, NEW kept,
         NEW cells, cells = FlattenSeq(Parts(data, kept)),
         NEW t, t = [id |-> id, name |-> name, first |-> first, count |-> Len(data),
                     sum |-> data, runs |-> RunList(data, kept, Len(i.fork))]
  PROVE  AddPartition(i, data, first, id, name, kept) =
           Image(i.fork \o cells, i.sum \o cells, InsertData(i.blkx, t), i.cSum, i.nsiz,
                 i.pNum, i.plst, i.koly)
<1>1. PICK ins : ins = Insert(data, first, Len(i.fork), kept)
  OBVIOUS
<1>2. ins = [cells |-> cells,
             table |-> [first |-> first, count |-> Len(data), sum |-> data,
                        runs |-> RunList(data, kept, Len(i.fork))]]
  BY <1>1, InsertIs
<1>3. ins.cells = cells /\ NamedTable(ins.table, id, name) = t
  BY <1>2 DEF NamedTable
<1>4. AddPartition(i, data, first, id, name, kept) =
        [i EXCEPT !.fork = i.fork \o cells, !.sum = i.sum \o cells,
                  !.blkx = InsertData(i.blkx, t)]
  BY <1>1, <1>3 DEF AddPartition
<1>5. PICK b : b = InsertData(i.blkx, t)
  OBVIOUS
<1>6. PICK f, s : f = i.fork \o cells /\ s = i.sum \o cells
  OBVIOUS
<1>7. [i EXCEPT !.fork = f, !.sum = s, !.blkx = b] =
        Image(f, s, b, i.cSum, i.nsiz, i.pNum, i.plst, i.koly)
  <2>1. PICK x : x = [i EXCEPT !.fork = f]
    OBVIOUS
  <2>2. x = Image(f, i.sum, i.blkx, i.cSum, i.nsiz, i.pNum, i.plst, i.koly)
    BY <2>1 DEF ImageIs, Image
  <2>3. PICK y : y = [x EXCEPT !.sum = s]
    OBVIOUS
  <2>4. y = Image(f, s, i.blkx, i.cSum, i.nsiz, i.pNum, i.plst, i.koly)
    BY <2>2, <2>3 DEF Image
  <2>5. [y EXCEPT !.blkx = b] = Image(f, s, b, i.cSum, i.nsiz, i.pNum, i.plst, i.koly)
    BY <2>4 DEF Image
  <2>6. QED
    BY <2>1, <2>3, <2>5, Zenon
<1>8. QED
  BY <1>4, <1>5, <1>6, <1>7

LEMMA AddFreeIs ==
  ASSUME NEW i, ImageIs(i), NEW first, NEW n,
         NEW t, t = [id |-> i.pNum, name |-> "Apple_Free", first |-> first, count |-> n,
                     sum |-> <<>>,
                     runs |-> <<[kind |-> "ignore", start |-> 0, count |-> n,
                                 off |-> Len(i.fork), len |-> 0],
                                [kind |-> "term", start |-> n, count |-> 0,
                                 off |-> Len(i.fork), len |-> 0]>>]
  PROVE  AddFree(i, first, n) =
           Image(i.fork, i.sum, InsertData(i.blkx, t), i.cSum, i.nsiz, i.pNum + 1,
                 i.plst, i.koly)
<1>1. AddFree(i, first, n) = [i EXCEPT !.blkx = InsertData(i.blkx, t), !.pNum = i.pNum + 1]
  BY DEF AddFree
<1>2. PICK b, p : b = InsertData(i.blkx, t) /\ p = i.pNum + 1
  OBVIOUS
<1>3. [i EXCEPT !.blkx = b, !.pNum = p] =
        Image(i.fork, i.sum, b, i.cSum, i.nsiz, p, i.plst, i.koly)
  <2>1. PICK x : x = [i EXCEPT !.blkx = b]
    OBVIOUS
  <2>2. x = Image(i.fork, i.sum, b, i.cSum, i.nsiz, i.pNum, i.plst, i.koly)
    BY <2>1 DEF ImageIs, Image
  <2>3. [x EXCEPT !.pNum = p] = Image(i.fork, i.sum, b, i.cSum, i.nsiz, p, i.plst, i.koly)
    BY <2>2 DEF Image
  <2>4. QED
    BY <2>1, <2>3, Zenon
<1>4. QED
  BY <1>1, <1>2, <1>3

LEMMA AddSumsIs ==
  ASSUME NEW i, ImageIs(i), NEW id, NEW data, NEW nsiz
  PROVE  \E c : AddSums(i, id, data, nsiz) =
                  Image(i.fork, i.sum, i.blkx, c, nsiz, i.pNum, i.plst, i.koly)
<1>1. PICK c : c = InsertData(i.cSum, [id |-> id, sum |-> data])
  OBVIOUS
<1>2. AddSums(i, id, data, nsiz) = [i EXCEPT !.cSum = c, !.nsiz = nsiz]
  BY <1>1 DEF AddSums
<1>3. [i EXCEPT !.cSum = c, !.nsiz = nsiz] =
        Image(i.fork, i.sum, i.blkx, c, nsiz, i.pNum, i.plst, i.koly)
  <2>1. PICK x : x = [i EXCEPT !.cSum = c]
    OBVIOUS
  <2>2. x = Image(i.fork, i.sum, i.blkx, c, i.nsiz, i.pNum, i.plst, i.koly)
    BY <2>1 DEF ImageIs, Image
  <2>3. [x EXCEPT !.nsiz = nsiz] = Image(i.fork, i.sum, i.blkx, c, nsiz, i.pNum, i.plst, i.koly)
    BY <2>2 DEF Image
  <2>4. QED
    BY <2>1, <2>3, Zenon
<1>4. QED
  BY <1>2, <1>3

LEMMA NumberedIs ==
  ASSUME NEW i, ImageIs(i), NEW n
  PROVE  [i EXCEPT !.pNum = n] =
           Image(i.fork, i.sum, i.blkx, i.cSum, i.nsiz, n, i.plst, i.koly)
  BY DEF ImageIs, Image

LEMMA TrailerIs ==
  ASSUME NEW i, ImageIs(i), NEW n
  PROVE  Trailer(i, n) =
           Image(i.fork, i.sum, i.blkx, i.cSum, i.nsiz, i.pNum, i.plst,
                 <<[forkLength |-> Len(i.fork), forkSum |-> i.sum,
                    masterSum |-> MasterSum(i.blkx), sectorCount |-> n]>>)
<1>1. PICK k : k = <<[forkLength |-> Len(i.fork), forkSum |-> i.sum,
                      masterSum |-> MasterSum(i.blkx), sectorCount |-> n]>>
  OBVIOUS
<1>2. Trailer(i, n) = [i EXCEPT !.koly = k]
  BY <1>1 DEF Trailer
<1>3. [i EXCEPT !.koly = k] =
        Image(i.fork, i.sum, i.blkx, i.cSum, i.nsiz, i.pNum, i.plst, k)
  BY DEF ImageIs, Image
<1>4. QED
  BY <1>1, <1>2, <1>3

LEMMA ImageFields ==
  ASSUME NEW fork, NEW sum, NEW blkx, NEW cSum, NEW nsiz, NEW pNum, NEW plst, NEW koly,
         NEW i, i = Image(fork, sum, blkx, cSum, nsiz, pNum, plst, koly)
  PROVE  /\ ImageIs(i) /\ i.fork = fork /\ i.sum = sum /\ i.blkx = blkx /\ i.cSum = cSum
         /\ i.nsiz = nsiz /\ i.pNum = pNum /\ i.plst = plst /\ i.koly = koly
  BY DEF Image, ImageIs
-----------------------------------------------------------------------------
(* An image that is being made: what it holds so far is summed up.         *)

Work(i) ==
  /\ ImageIs(i)
  /\ i.fork \in Seq(Cell) /\ i.sum = i.fork /\ AllSound(i.fork, i.blkx)
  /\ i.pNum \in Id /\ i.koly = <<>>

(* Lists without a table of a volume.                                      *)
Plain(list) == \A k \in 1 .. Len(list) : list[k].name \notin HFSNames

(* Lists whose tables have numbers below p.                                *)
Under(list, p) == \A k \in 1 .. Len(list) : list[k].id < p

(* An image to which the volume is still to come.                          *)
Prelude(i) == Work(i) /\ Plain(i.blkx) /\ i.plst = <<>> /\ Under(i.blkx, i.pNum)

(* One whose last table has the number that is still to be counted.        *)
Uncounted(i) == Work(i) /\ Plain(i.blkx) /\ i.plst = <<>> /\ Under(i.blkx, i.pNum + 1)

LEMMA EmptyWork == Prelude(EmptyImage)
<1>1. PICK i : i = EmptyImage
  OBVIOUS
<1>2. i = Image(<<>>, <<>>, <<>>, <<>>, <<>>, -1, <<>>, <<>>)
  BY <1>1 DEF EmptyImage, Image
<1>3. /\ ImageIs(i) /\ i.fork = <<>> /\ i.sum = <<>> /\ i.blkx = <<>> /\ i.pNum = -1
      /\ i.koly = <<>> /\ i.plst = <<>>
  BY <1>2, ImageFields
<1>4. <<>> \in Seq(TableType) /\ <<>> \in Seq(Cell) /\ Len(<<>>) = 0
  BY EmptySeq
<1>5. \A k \in 1 .. Len(<<>>) : FALSE
  OBVIOUS
<1>6. AllSound(i.fork, i.blkx) /\ Plain(i.blkx) /\ Under(i.blkx, i.pNum)
  BY <1>3, <1>4, <1>5 DEF AllSound, Plain, Under
<1>7. QED
  BY <1>1, <1>3, <1>4, <1>6 DEF Prelude, Work, Id

(* The table of data that goes to the end of a fork.                       *)
LEMMA TableSound ==
  ASSUME NEW data \in Seq(Sector), NEW first \in Nat, NEW id \in Id, NEW name \in Name,
         NEW kept, NEW pre \in Seq(Cell),
         NEW fork \in Seq(Cell), Starts(fork, pre \o FlattenSeq(Parts(data, kept))),
         NEW t, t = [id |-> id, name |-> name, first |-> first, count |-> Len(data),
                     sum |-> data, runs |-> RunList(data, kept, Len(pre))]
  PROVE  /\ Sound(fork, t) /\ FlattenSeq(Expands(fork, t.runs)) = data
<1>1. PICK runs : runs = RunList(data, kept, Len(pre))
  OBVIOUS
<1>2. /\ runs \in Seq(RunType) /\ Fits(fork, runs)
      /\ FlattenSeq(Expands(fork, runs)) = data /\ FlattenSeq(Feeds(fork, runs)) = data
  BY <1>1, Inserted
<1>3. PICK l \in Nat : l = Len(data)
  BY LenProperties
<1>4. t = [id |-> id, name |-> name, first |-> first, count |-> l,
           sum |-> data, runs |-> runs]
  BY <1>1, <1>3
<1>5. t \in TableType /\ t.runs = runs /\ t.sum = data /\ t.count = l
  BY <1>2, <1>4 DEF TableType
<1>6. QED
  BY <1>2, <1>3, <1>5 DEF Sound

-----------------------------------------------------------------------------
LEMMA InsertPlain ==
  ASSUME NEW list \in Seq(TableType), Plain(list),
         NEW e \in TableType, e.name \notin HFSNames
  PROVE  Plain(InsertData(list, e))
<1>1. PICK new \in Seq(TableType) : new = InsertData(list, e)
  BY InsertDataIs
<1>2. PICK p : Listing(list, e, new, p)
  BY <1>1, InsertDataIs
<1>3. ASSUME NEW k \in 1 .. Len(new) PROVE new[k].name \notin HFSNames
  BY <1>2, <1>3 DEF Listing, Plain
<1>4. QED
  BY <1>1, <1>3 DEF Plain

LEMMA InsertUnder ==
  ASSUME NEW list \in Seq(TableType), NEW p \in Id, Under(list, p),
         NEW e \in TableType, e.id = p
  PROVE  Under(InsertData(list, e), p + 1)
<1>1. PICK new \in Seq(TableType) : new = InsertData(list, e)
  BY InsertDataIs
<1>2. PICK q : Listing(list, e, new, q)
  BY <1>1, InsertDataIs
<1>3. ASSUME NEW k \in 1 .. Len(new) PROVE new[k].id < p + 1
  <2>1. CASE k = q
    BY <1>2, <2>1 DEF Listing, Id
  <2>2. CASE k # q
    <3>1. k \in 1 .. Len(list) /\ new[k] = list[k]
      BY <1>2, <1>3, <2>2 DEF Listing
    <3>2. list[k] \in TableType /\ list[k].id < p
      BY <3>1, ElementOfSeq DEF Under
    <3>3. list[k].id \in Id
      BY <3>2 DEF TableType
    <3>4. QED
      BY <3>1, <3>2, <3>3 DEF Id
  <2>3. QED
    BY <2>1, <2>2
<1>4. QED
  BY <1>1, <1>3 DEF Under

TableOf(data, first, id, name, kept, off) ==
  [id |-> id, name |-> name, first |-> first, count |-> Len(data), sum |-> data,
   runs |-> RunList(data, kept, off)]

(* j is i with data, whose table is t.                                     *)
Added(i, j, data, kept, t) ==
  /\ Work(j) /\ j.fork = i.fork \o FlattenSeq(Parts(data, kept))
  /\ j.blkx = InsertData(i.blkx, t)
  /\ Sound(j.fork, t) /\ FlattenSeq(Expands(j.fork, t.runs)) = data
  /\ j.pNum = i.pNum /\ j.plst = i.plst

LEMMA WorkPartition ==
  ASSUME NEW i, Work(i), NEW data \in Seq(Sector), NEW first \in Nat, NEW id \in Id,
         NEW name \in Name, NEW kept, NEW j, j = AddPartition(i, data, first, id, name, kept)
  PROVE  \E t : /\ t = TableOf(data, first, id, name, kept, Len(i.fork))
                /\ Added(i, j, data, kept, t)
<1>1. PICK cells \in Seq(Cell) : cells = FlattenSeq(Parts(data, kept))
  <2>1. PICK runs : runs = RunList(data, kept, 0)
    OBVIOUS
  <2>2. FlattenSeq(Parts(data, kept)) \in Seq(Cell)
    BY <2>1, InsertType
  <2>3. QED
    BY <2>2
<1>2. PICK pre \in Seq(Cell) : pre = i.fork
  BY DEF Work
<1>3. PICK fork \in Seq(Cell) : fork = pre \o cells
  BY ConcatProperties
<1>4. PICK t : t = TableOf(data, first, id, name, kept, Len(i.fork))
  OBVIOUS
<1>5. Starts(fork, pre \o FlattenSeq(Parts(data, kept)))
  <2>1. Len(fork) \in Nat
    BY LenProperties
  <2>2. Len(fork) <= Len(fork) /\ \A n \in 1 .. Len(fork) : fork[n] = fork[n]
    BY <2>1
  <2>3. QED
    BY <1>1, <1>3, <2>2 DEF Starts
<1>6. /\ Sound(fork, t) /\ FlattenSeq(Expands(fork, t.runs)) = data
  BY <1>2, <1>4, <1>5, TableSound DEF TableOf
<1>7. PICK b : b = InsertData(i.blkx, t)
  OBVIOUS
<1>8. ImageIs(i) /\ i.sum = pre
  BY <1>2 DEF Work
<1>9. j = Image(fork, fork, b, i.cSum, i.nsiz, i.pNum, i.plst, i.koly)
  BY <1>1, <1>2, <1>3, <1>4, <1>7, <1>8, AddPartitionIs DEF TableOf
<1>10. /\ ImageIs(j) /\ j.fork = fork /\ j.sum = fork /\ j.blkx = b /\ j.pNum = i.pNum
       /\ j.plst = i.plst /\ j.koly = i.koly
  BY <1>9, ImageFields
<1>11. Starts(fork, pre)
  <2>1. PICK m, n \in Nat : m \in Nat /\ m = Len(pre) /\ n = Len(cells)
    BY LenProperties
  <2>2. Len(fork) = m + n /\ \A x \in 1 .. m : fork[x] = pre[x]
    <3>1. \A x \in 1 .. m : x \in 1 .. m + n
      BY <2>1
    <3>2. QED
      BY <1>3, <2>1, <3>1, ConcatProperties
  <2>3. m <= m + n
    BY <2>1
  <2>4. QED
    BY <2>1, <2>2, <2>3 DEF Starts
<1>12. AllSound(fork, i.blkx)
  BY <1>2, <1>11, AllSoundGrown DEF Work
<1>13. AllSound(fork, b)
  BY <1>6, <1>7, <1>12, InsertSound
<1>14. Work(j)
  BY <1>10, <1>13 DEF Work
<1>15. QED
  BY <1>1, <1>2, <1>3, <1>4, <1>6, <1>7, <1>10, <1>14 DEF Added

FreeTable(id, first, n, off) ==
  [id |-> id, name |-> "Apple_Free", first |-> first, count |-> n, sum |-> <<>>,
   runs |-> <<[kind |-> "ignore", start |-> 0, count |-> n, off |-> off, len |-> 0],
              [kind |-> "term", start |-> n, count |-> 0, off |-> off, len |-> 0]>>]

LEMMA FreeSound ==
  ASSUME NEW fork \in Seq(Cell), NEW off \in Nat, NEW n \in Nat, NEW first \in Nat,
         NEW id \in Id,
         NEW t, t = FreeTable(id, first, n, off)
  PROVE  Sound(fork, t) /\ t.name \notin HFSNames
<1>1. PICK r1 : r1 = [kind |-> "ignore", start |-> 0, count |-> n, off |-> off, len |-> 0]
  OBVIOUS
<1>2. PICK r2 : r2 = [kind |-> "term", start |-> n, count |-> 0, off |-> off, len |-> 0]
  OBVIOUS
<1>3. r1 \in RunType /\ r1.kind = "ignore" /\ r1.count = n
  BY <1>1 DEF RunType
<1>4. r2 \in RunType /\ r2.kind = "term"
  BY <1>2 DEF RunType
<1>5. PICK runs : runs = <<r1, r2>>
  OBVIOUS
<1>6. runs \in Seq(RunType) /\ Len(runs) = 2 /\ runs[1] = r1 /\ runs[2] = r2
  BY <1>3, <1>4, <1>5
<1>7. RunFits(fork, r1) /\ RunFits(fork, r2)
  BY <1>3, <1>4 DEF RunFits
<1>8. Fits(fork, runs)
  <2>1. ASSUME NEW k \in 1 .. 2 PROVE RunFits(fork, runs[k])
    <3>1. k = 1 \/ k = 2
      OBVIOUS
    <3>2. QED
      BY <1>6, <1>7, <3>1
  <2>2. QED
    BY <1>6, <2>1 DEF Fits
<1>9. PICK z \in Seq(Sector) : z = Zeros(n) /\ Len(z) = n
  BY ZerosAre
<1>10. Expand(fork, r1) = z /\ Expand(fork, r2) = <<>>
  BY <1>3, <1>4, <1>9, ExpandKinds
<1>11. <<>> \in Seq(Sector) /\ Len(<<>>) = 0
  BY EmptySeq
<1>12. \A k \in {1, 2} : k = 1 \/ k = 2
  OBVIOUS
<1>13. DOMAIN runs = {1, 2}
  BY <1>5
<1>14. Expands(fork, runs) = <<z, <<>>>>
  <2>1. Expands(fork, runs) = [k \in {1, 2} |-> IF k = 1 THEN z ELSE <<>>]
    BY <1>6, <1>10, <1>13 DEF Expands
  <2>2. QED
    BY <2>1
<1>15. Feeds(fork, runs) = <<<<>>, <<>>>>
  <2>1. Feeds(fork, runs) = [k \in {1, 2} |-> <<>>]
    BY <1>3, <1>4, <1>6, <1>10, <1>13 DEF Feeds
  <2>2. QED
    BY <2>1
<1>16. FlattenSeq(<<z, <<>>>>) = z /\ FlattenSeq(<<<<>>, <<>>>>) = <<>>
  <2>1. ASSUME NEW x \in Seq(Sector) PROVE FlattenSeq(<<x, <<>>>>) = x
    <3>1. <<>> \in Seq(Seq(Sector)) /\ <<x>> \in Seq(Seq(Sector)) /\ <<x>> # <<>>
      OBVIOUS
    <3>2. FlattenSeq(Append(<<>>, x)) = x
      BY <3>1, FlattenAppend
    <3>3. Append(<<>>, x) = <<x>> /\ Append(<<x>>, <<>>) = <<x, <<>>>>
      <4>1. ASSUME NEW y PROVE Append(<<>>, y) = <<y>>
        OBVIOUS
      <4>2. ASSUME NEW R, NEW y \in R, NEW v \in R PROVE Append(<<y>>, v) = <<y, v>>
        <5>1. <<y>> \in Seq(R) /\ <<y, v>> \in Seq(R) /\ Len(<<y, v>>) = 2
          OBVIOUS
        <5>2. PICK q \in Seq(R) : q = <<y>> /\ Len(q) = 1 /\ q[1] = y
          BY <5>1
        <5>3. PICK p \in Seq(R) : p = <<y, v>> /\ Len(p) = 2 /\ p[1] = y /\ p[2] = v
          BY <5>1
        <5>4. /\ Append(q, v) \in Seq(R) /\ Len(Append(q, v)) = 2 /\ Append(q, v)[2] = v
              /\ Append(q, v)[1] = y
          BY <5>2, AppendProperties
        <5>5. PICK d \in Seq(R) : d = Append(q, v) /\ Len(d) = 2 /\ d[2] = v /\ d[1] = y
          BY <5>4
        <5>6. \A k \in 1 .. 2 : d[k] = p[k]
          <6>1. \A k \in 1 .. 2 : k = 1 \/ k = 2
            OBVIOUS
          <6>2. QED
            BY <5>3, <5>5, <6>1
        <5>7. d = p
          BY <5>3, <5>5, <5>6, SeqEqual
        <5>8. QED
          BY <5>2, <5>3, <5>5, <5>7
      <4>3. QED
        BY <1>11, <4>1, <4>2
    <3>4. FlattenSeq(<<x, <<>>>>) = FlattenSeq(<<x>>) \o <<>>
      BY <1>11, <3>1, <3>3, FlattenAppend
    <3>5. x \o <<>> = x
      OBVIOUS
    <3>6. QED
      BY <3>2, <3>3, <3>4, <3>5
  <2>2. QED
    BY <1>11, <2>1
<1>17. t = [id |-> id, name |-> "Apple_Free", first |-> first, count |-> n,
            sum |-> <<>>, runs |-> runs]
  BY <1>1, <1>2, <1>5 DEF FreeTable
<1>18. /\ t \in TableType /\ t.runs = runs /\ t.sum = <<>> /\ t.count = n
       /\ t.name = "Apple_Free"
  <2>1. PICK e \in Seq(Sector) : e = <<>>
    BY <1>11
  <2>2. PICK s \in Name : s = "Apple_Free"
    BY DEF Name
  <2>3. t = [id |-> id, name |-> s, first |-> first, count |-> n, sum |-> e, runs |-> runs]
    BY <1>17, <2>1, <2>2
  <2>4. t \in TableType
    BY <1>6, <2>1, <2>2, <2>3 DEF TableType
  <2>5. QED
    BY <2>1, <2>2, <2>3, <2>4
<1>19. "Apple_Free" \notin HFSNames
  BY DEF HFSNames
<1>20. QED
  BY <1>8, <1>9, <1>14, <1>15, <1>16, <1>18, <1>19 DEF Sound

(* j is i with the table t of a free partition.                            *)
FreeAdded(i, j, t) ==
  /\ Work(j) /\ j.fork = i.fork /\ j.blkx = InsertData(i.blkx, t)
  /\ \A fork \in Seq(Cell) : Sound(fork, t)
  /\ t \in TableType /\ t.name \notin HFSNames /\ t.id = i.pNum
  /\ j.pNum = i.pNum + 1 /\ j.plst = i.plst

LEMMA WorkFree ==
  ASSUME NEW i, Work(i), NEW first \in Nat, NEW n \in Nat, NEW j, j = AddFree(i, first, n)
  PROVE  \E t : FreeAdded(i, j, t)
<1>1. PICK t : t = FreeTable(i.pNum, first, n, Len(i.fork))
  OBVIOUS
<1>2. PICK off \in Nat : off = Len(i.fork)
  BY LenProperties DEF Work
<1>3. PICK id \in Id : id = i.pNum
  BY DEF Work
<1>4. \A fork \in Seq(Cell) : Sound(fork, t) /\ t.name \notin HFSNames
  BY <1>1, <1>2, <1>3, FreeSound
<1>5. Sound(i.fork, t) /\ t.name \notin HFSNames
  BY <1>4 DEF Work
<1>6. j = Image(i.fork, i.sum, InsertData(i.blkx, t), i.cSum, i.nsiz, i.pNum + 1,
                i.plst, i.koly)
  BY <1>1, AddFreeIs DEF Work, FreeTable
<1>7. PICK b : b = InsertData(i.blkx, t)
  OBVIOUS
<1>8. PICK p : p = i.pNum + 1
  OBVIOUS
<1>9. /\ ImageIs(j) /\ j.fork = i.fork /\ j.sum = i.sum /\ j.blkx = b /\ j.pNum = p
      /\ j.plst = i.plst /\ j.koly = i.koly
  BY <1>6, <1>7, <1>8, ImageFields
<1>10. p \in Id
  BY <1>3, <1>8 DEF Id
<1>11. AllSound(i.fork, b)
  BY <1>5, <1>7, InsertSound DEF Work
<1>12. Work(j)
  BY <1>9, <1>10, <1>11 DEF Work
<1>13. t \in TableType /\ t.id = i.pNum
  BY <1>1, <1>5 DEF Sound, FreeTable
<1>14. QED
  BY <1>4, <1>5, <1>7, <1>8, <1>9, <1>12, <1>13 DEF FreeAdded

Numbered(i, p) == [i EXCEPT !.pNum = p]

LEMMA WorkNumbered ==
  ASSUME NEW i, Work(i), NEW p \in Id, NEW j, j = Numbered(i, p)
  PROVE  /\ Work(j) /\ j.fork = i.fork /\ j.blkx = i.blkx /\ j.plst = i.plst
         /\ j.pNum = p
<1>1. j = Image(i.fork, i.sum, i.blkx, i.cSum, i.nsiz, p, i.plst, i.koly)
  BY NumberedIs DEF Work, Numbered
<1>2. /\ ImageIs(j) /\ j.fork = i.fork /\ j.sum = i.sum /\ j.blkx = i.blkx /\ j.pNum = p
      /\ j.plst = i.plst /\ j.koly = i.koly
  BY <1>1, ImageFields
<1>3. QED
  BY <1>2 DEF Work

LEMMA WorkSums ==
  ASSUME NEW i, Work(i), NEW id, NEW data, NEW nsiz, NEW p \in Id,
         NEW j, j = Numbered(AddSums(i, id, data, nsiz), p)
  PROVE  /\ Work(j) /\ j.fork = i.fork /\ j.blkx = i.blkx /\ j.plst = i.plst
         /\ j.pNum = p
<1>1. PICK c : AddSums(i, id, data, nsiz) =
                 Image(i.fork, i.sum, i.blkx, c, nsiz, i.pNum, i.plst, i.koly)
  BY AddSumsIs DEF Work
<1>2. PICK x : x = AddSums(i, id, data, nsiz)
  OBVIOUS
<1>3. /\ ImageIs(x) /\ x.fork = i.fork /\ x.sum = i.sum /\ x.blkx = i.blkx
      /\ x.plst = i.plst /\ x.koly = i.koly /\ x.pNum = i.pNum
  BY <1>1, <1>2, ImageFields
<1>4. Work(x)
  BY <1>3 DEF Work
<1>5. j = Numbered(x, p)
  BY <1>2
<1>6. QED
  BY <1>3, <1>4, <1>5, WorkNumbered

LEMMA NextId ==
  ASSUME NEW p \in Id
  PROVE  p + 1 \in Id /\ p + 1 \in Nat
  BY DEF Id
-----------------------------------------------------------------------------
(* A partition and a free one before the volume.                           *)

LEMMA PreludePartition ==
  ASSUME NEW i, Prelude(i), NEW data \in Seq(Sector), NEW first \in Nat, NEW id \in Id,
         NEW name \in Name, name \notin HFSNames, NEW kept,
         id = i.pNum, NEW j, j = AddPartition(i, data, first, id, name, kept)
  PROVE  Uncounted(j) /\ j.pNum = i.pNum
<1>1. Work(i)
  BY DEF Prelude
<1>2. PICK t : /\ t = TableOf(data, first, id, name, kept, Len(i.fork))
               /\ Added(i, j, data, kept, t)
  BY <1>1, WorkPartition
<1>3. t.name = name /\ t \in TableType
  BY <1>2 DEF Sound, TableOf, Added
<1>4. i.blkx \in Seq(TableType) /\ Plain(i.blkx)
  BY DEF Prelude, Work, AllSound
<1>5. Plain(j.blkx)
  BY <1>2, <1>3, <1>4, InsertPlain DEF Added
<1>6. Under(i.blkx, id) /\ t.id = id
  BY <1>2 DEF Prelude, TableOf
<1>7. Under(j.blkx, id + 1)
  BY <1>2, <1>3, <1>4, <1>6, InsertUnder DEF Added
<1>8. QED
  BY <1>2, <1>5, <1>7 DEF Prelude, Uncounted, Added

LEMMA PreludeFree ==
  ASSUME NEW i, Prelude(i), NEW first \in Nat, NEW n \in Nat, NEW j, j = AddFree(i, first, n)
  PROVE  Prelude(j)
<1>1. Work(i)
  BY DEF Prelude
<1>2. PICK t : FreeAdded(i, j, t)
  BY <1>1, WorkFree
<1>3. i.blkx \in Seq(TableType) /\ Plain(i.blkx)
  BY DEF Prelude, Work, AllSound
<1>4. Plain(j.blkx)
  BY <1>2, <1>3, InsertPlain DEF FreeAdded
<1>5. PICK p \in Id : p = i.pNum
  BY <1>1 DEF Work
<1>6. Under(i.blkx, p) /\ t.id = p /\ j.pNum = p + 1 /\ t \in TableType
  BY <1>2, <1>5 DEF Prelude, FreeAdded
<1>7. Under(j.blkx, p + 1)
  BY <1>2, <1>3, <1>6, InsertUnder DEF FreeAdded
<1>8. QED
  BY <1>2, <1>4, <1>6, <1>7 DEF Prelude, FreeAdded

LEMMA Names ==
  /\ "DDM" \in Name \ HFSNames /\ "Apple_partition_map" \in Name \ HFSNames
  /\ "Apple_Driver_ATAPI" \in Name \ HFSNames /\ "Apple_Free" \in Name \ HFSNames
  /\ "Apple_HFSX" \in Name \cap HFSNames /\ "whole" \in Name
  BY DEF Name, HFSNames

LEMMA WithDDMPrelude ==
  ASSUME NEW i, Prelude(i), NEW ddm \in Sector, NEW block \in BlockSizes,
         NEW j, j = WithDDM(i, ddm, block)
  PROVE  Prelude(j)
<1>1. <<ddm>> \in Seq(Sector)
  OBVIOUS
<1>2. PICK data \in Seq(Sector) : data = <<ddm>>
  BY <1>1
<1>3. PICK name \in Name : name = "DDM" /\ name \notin HFSNames
  BY Names
<1>4. PICK id \in Id : id = i.pNum
  BY DEF Prelude, Work
<1>5. PICK first \in Nat : first = 0
  OBVIOUS
<1>6. PICK kept : kept = {}
  OBVIOUS
<1>7. PICK x : x = AddPartition(i, data, first, id, name, kept)
  OBVIOUS
<1>8. Uncounted(x) /\ x.pNum = id
  <2>1. data \in Seq(Sector)
    BY <1>2
  <2>2. Uncounted(x) /\ x.pNum = i.pNum
    BY <1>3, <1>4, <1>5, <1>7, <2>1, PreludePartition
  <2>3. QED
    BY <1>4, <2>2
<1>9. PICK p \in Id : p = x.pNum + 1
  BY <1>4, <1>8, NextId
<1>10. PICK y : y = Numbered(x, p)
  OBVIOUS
<1>11. /\ Work(y) /\ y.fork = x.fork /\ y.blkx = x.blkx /\ y.plst = x.plst /\ y.pNum = p
  BY <1>8, <1>9, <1>10, WorkNumbered DEF Uncounted
<1>12. Prelude(y)
  BY <1>8, <1>9, <1>11 DEF Uncounted, Prelude
<1>13. y = [AddPartition(i, <<ddm>>, 0, i.pNum, "DDM", {}) EXCEPT !.pNum = @ + 1]
  BY <1>2, <1>3, <1>4, <1>5, <1>6, <1>7, <1>9, <1>10 DEF Numbered
<1>14. j = IF block > DDM_SIZE THEN AddFree(y, DDM_SIZE, block - DDM_SIZE) ELSE y
  BY <1>13 DEF WithDDM
<1>15. CASE block > DDM_SIZE
  <2>1. PICK n, m \in Nat : n = block - DDM_SIZE /\ m = DDM_SIZE /\ n \in Nat
    BY <1>15 DEF DDM_SIZE, BlockSizes
  <2>2. j = AddFree(y, m, n)
    BY <1>14, <1>15, <2>1
  <2>3. QED
    BY <1>12, <2>1, <2>2, PreludeFree
<1>16. CASE ~(block > DDM_SIZE)
  BY <1>12, <1>14, <1>16
<1>17. QED
  BY <1>15, <1>16

LEMMA EntriesType ==
  ASSUME NEW sectors \in Nat, NEW block \in BlockSizes
  PROVE  /\ DescriptorMap(sectors, block) \in Sector
         /\ Entries(sectors, block) \in Seq(Sector) /\ Len(Entries(sectors, block)) = 4
         /\ MapSectors(block) \in Nat
<1>1. block = 1 \/ block = 4
  BY DEF BlockSizes
<1>2. PICK a \in Nat : a = (sectors + EXTRA_SIZE + block \div 2) \div block
  BY <1>1 DEF EXTRA_SIZE, ATAPI_OFFSET, ATAPI_SIZE, FREE_SIZE
<1>3. PICK b \in Nat : b = PARTITION_SIZE \div block
  BY <1>1 DEF PARTITION_SIZE
<1>4. PICK c \in Nat : c = ATAPI_OFFSET \div block
  BY <1>1 DEF ATAPI_OFFSET
<1>5. PICK d \in Nat : d = IF block = 1 THEN ATAPI_SIZE ELSE 1
  BY DEF ATAPI_SIZE
<1>6. PICK e \in Nat : e = USER_OFFSET \div block
  BY <1>1 DEF USER_OFFSET, ATAPI_OFFSET, ATAPI_SIZE
<1>7. PICK f \in Nat : f = sectors \div block
  BY <1>1
<1>8. PICK g \in Nat : g = (USER_OFFSET + sectors) \div block
  BY <1>1 DEF USER_OFFSET, ATAPI_OFFSET, ATAPI_SIZE
<1>9. PICK h \in Nat : h = (FREE_SIZE + block \div 2) \div block
  BY <1>1 DEF FREE_SIZE
<1>10. PICK o \in Nat : o = PARTITION_OFFSET
  BY DEF PARTITION_OFFSET, DDM_SIZE
<1>11. DescriptorMap(sectors, block) = <<"DDM", block, a>>
  BY <1>2 DEF DescriptorMap
<1>12. ASSUME NEW x \in Nat PROVE <<"DDM", block, x>> \in Sector
  BY DEF Sector
<1>13. ASSUME NEW n \in Name, NEW x \in Nat, NEW y \in Nat PROVE <<"entry", n, x, y>> \in Sector
  BY DEF Sector
<1>14. Entries(sectors, block) =
         << <<"entry", "Apple_partition_map", o, b>>, <<"entry", "Apple_Driver_ATAPI", c, d>>,
            <<"entry", "Apple_HFSX", e, f>>, <<"entry", "Apple_Free", g, h>> >>
  BY <1>3, <1>4, <1>5, <1>6, <1>7, <1>8, <1>9, <1>10 DEF Entries
<1>15. PICK s1 \in Sector : s1 = <<"entry", "Apple_partition_map", o, b>>
  BY <1>3, <1>10, <1>13, Names
<1>16. PICK s2 \in Sector : s2 = <<"entry", "Apple_Driver_ATAPI", c, d>>
  BY <1>4, <1>5, <1>13, Names
<1>17. PICK s3 \in Sector : s3 = <<"entry", "Apple_HFSX", e, f>>
  BY <1>6, <1>7, <1>13, Names
<1>18. PICK s4 \in Sector : s4 = <<"entry", "Apple_Free", g, h>>
  BY <1>8, <1>9, <1>13, Names
<1>19. Entries(sectors, block) = <<s1, s2, s3, s4>>
  BY <1>14, <1>15, <1>16, <1>17, <1>18
<1>20. <<s1, s2, s3, s4>> \in Seq(Sector) /\ Len(<<s1, s2, s3, s4>>) = 4
  BY <1>15, <1>16, <1>17, <1>18
<1>21. MapSectors(block) \in Nat
  <2>1. b * block \in Nat
    BY <1>1, <1>3
  <2>2. QED
    BY <1>3, <2>1 DEF MapSectors
<1>22. DescriptorMap(sectors, block) \in Sector
  BY <1>2, <1>11, <1>12
<1>23. QED
  BY <1>19, <1>20, <1>21, <1>22

LEMMA MapType ==
  ASSUME NEW sectors \in Nat, NEW block \in BlockSizes
  PROVE  PartitionMap(sectors, block) \in Seq(Sector)
<1>1. PICK entries \in Seq(Sector) : entries = Entries(sectors, block) /\ Len(entries) = 4
  BY EntriesType
<1>2. PICK n \in Nat : n = MapSectors(block)
  BY EntriesType
<1>3. block = 1 \/ block = 4
  BY DEF BlockSizes
<1>4. Zero \in Sector
  BY DEF Sector, Content
<1>5. ASSUME NEW s \in 1 .. n
      PROVE (IF (s - 1) % block = 0 /\ (s - 1) \div block < Len(entries)
             THEN entries[(s - 1) \div block + 1] ELSE Zero) \in Sector
  <2>1. CASE (s - 1) % block = 0 /\ (s - 1) \div block < Len(entries)
    <3>1. PICK m \in 1 .. 4 : m = (s - 1) \div block + 1
      BY <1>1, <1>3, <1>5, <2>1
    <3>2. entries[m] \in Sector
      BY <1>1, <3>1, ElementOfSeq
    <3>3. QED
      BY <2>1, <3>1, <3>2
  <2>2. QED
    BY <1>4, <2>1
<1>6. PartitionMap(sectors, block) =
        [s \in 1 .. n |-> IF (s - 1) % block = 0 /\ (s - 1) \div block < Len(entries)
                          THEN entries[(s - 1) \div block + 1] ELSE Zero]
  BY <1>1, <1>2 DEF PartitionMap
<1>7. PICK f : f = [s \in 1 .. n |->
                      IF (s - 1) % block = 0 /\ (s - 1) \div block < Len(entries)
                      THEN entries[(s - 1) \div block + 1] ELSE Zero]
  OBVIOUS
<1>8. f \in [1 .. n -> Sector]
  BY <1>5, <1>7
<1>9. f \in Seq(Sector)
  BY <1>2, <1>8, SeqDef
<1>10. QED
  BY <1>6, <1>7, <1>9

LEMMA WithMapPrelude ==
  ASSUME NEW i, Prelude(i), NEW sectors \in Nat, NEW block \in BlockSizes,
         NEW j, j = WithMap(i, sectors, block)
  PROVE  Prelude(j)
<1>1. PICK data \in Seq(Sector) : data = PartitionMap(sectors, block)
  BY MapType
<1>2. PICK name \in Name : name = "Apple_partition_map" /\ name \notin HFSNames
  BY Names
<1>3. PICK id \in Id : id = i.pNum
  BY DEF Prelude, Work
<1>4. PICK first \in Nat : first = PARTITION_OFFSET * block
  BY DEF PARTITION_OFFSET, DDM_SIZE, BlockSizes
<1>5. PICK kept : kept = {}
  OBVIOUS
<1>6. PICK x : x = AddPartition(i, data, first, id, name, kept)
  OBVIOUS
<1>7. Uncounted(x) /\ x.pNum = id
  BY <1>1, <1>2, <1>3, <1>4, <1>6, PreludePartition
<1>8. PICK p \in Id : p = x.pNum + 1
  BY <1>3, <1>7, NextId
<1>9. PICK nsiz : nsiz = SecondNSiz(x.nsiz, [id |-> 0, sum |-> data])
  OBVIOUS
<1>10. x = AddPartition(i, PartitionMap(sectors, block), PARTITION_OFFSET * block, i.pNum,
                        "Apple_partition_map", {})
  BY <1>1, <1>2, <1>3, <1>4, <1>5, <1>6
<1>11. PICK z : z = AddSums(x, 0, data, nsiz)
  OBVIOUS
<1>12. j = [z EXCEPT !.pNum = @ + 1]
  BY <1>1, <1>9, <1>10, <1>11 DEF WithMap
<1>13. z.pNum = x.pNum
  <2>1. PICK c : z = Image(x.fork, x.sum, x.blkx, c, nsiz, x.pNum, x.plst, x.koly)
    BY <1>7, <1>11, AddSumsIs DEF Uncounted, Work
  <2>2. QED
    BY <2>1, ImageFields
<1>14. j = Numbered(AddSums(x, 0, data, nsiz), p)
  BY <1>8, <1>11, <1>12, <1>13 DEF Numbered
<1>15. Work(x)
  BY <1>7 DEF Uncounted
<1>16. /\ Work(j) /\ j.fork = x.fork /\ j.blkx = x.blkx /\ j.plst = x.plst /\ j.pNum = p
  BY <1>8, <1>14, <1>15, WorkSums
<1>17. QED
  BY <1>7, <1>8, <1>16 DEF Uncounted, Prelude

LEMMA WithATAPIPrelude ==
  ASSUME NEW i, Prelude(i), NEW block \in BlockSizes, NEW j, j = WithATAPI(i, block)
  PROVE  Prelude(j)
<1>1. PICK n \in Nat : n = IF block = 1 THEN ATAPI_SIZE ELSE block
  BY DEF ATAPI_SIZE, BlockSizes
<1>2. PICK data : data = [s \in 1 .. n |-> Driver]
  OBVIOUS
<1>3. data \in Seq(Sector)
  <2>1. Driver \in Sector
    BY DEF Sector, Content
  <2>2. data \in [1 .. n -> Sector]
    BY <1>2, <2>1
  <2>3. QED
    BY <1>1, <2>2, SeqDef
<1>4. PICK name \in Name : name = "Apple_Driver_ATAPI" /\ name \notin HFSNames
  BY Names
<1>5. PICK id \in Id : id = i.pNum
  BY DEF Prelude, Work
<1>6. PICK first \in Nat : first = ATAPI_OFFSET
  BY DEF ATAPI_OFFSET
<1>7. PICK kept : kept = {}
  OBVIOUS
<1>8. PICK x : x = AddPartition(i, data, first, id, name, kept)
  OBVIOUS
<1>9. Uncounted(x) /\ x.pNum = id
  BY <1>3, <1>4, <1>5, <1>6, <1>8, PreludePartition
<1>10. PICK p \in Id : p = x.pNum + 1
  BY <1>5, <1>9, NextId
<1>11. PICK nsiz : nsiz = SecondNSiz(x.nsiz, [id |-> 1, sum |-> data])
  OBVIOUS
<1>12. PICK z : z = AddSums(x, 1, data, nsiz)
  OBVIOUS
<1>13. z.pNum = x.pNum
  <2>1. PICK c : z = Image(x.fork, x.sum, x.blkx, c, nsiz, x.pNum, x.plst, x.koly)
    BY <1>9, <1>12, AddSumsIs DEF Uncounted, Work
  <2>2. QED
    BY <2>1, ImageFields
<1>14. PICK y : y = Numbered(AddSums(x, 1, data, nsiz), p)
  OBVIOUS
<1>15. Work(x)
  BY <1>9 DEF Uncounted
<1>16. /\ Work(y) /\ y.fork = x.fork /\ y.blkx = x.blkx /\ y.plst = x.plst /\ y.pNum = p
  BY <1>10, <1>14, <1>15, WorkSums
<1>17. Prelude(y)
  BY <1>9, <1>10, <1>16 DEF Uncounted, Prelude
<1>18. y = [z EXCEPT !.pNum = @ + 1]
  BY <1>10, <1>12, <1>13, <1>14 DEF Numbered
<1>19. j = IF block # 1 /\ USER_OFFSET > ATAPI_OFFSET + block
           THEN AddFree(y, ATAPI_OFFSET + block, USER_OFFSET - (ATAPI_OFFSET + block))
           ELSE y
  <2>1. data = [s \in 1 .. IF block = 1 THEN ATAPI_SIZE ELSE block |-> Driver]
    BY <1>1, <1>2
  <2>2. x = AddPartition(i, data, ATAPI_OFFSET, i.pNum, "Apple_Driver_ATAPI", {})
    BY <1>4, <1>5, <1>6, <1>7, <1>8
  <2>3. y = [AddSums(x, 1, data, SecondNSiz(x.nsiz, [id |-> 1, sum |-> data]))
             EXCEPT !.pNum = @ + 1]
    BY <1>11, <1>12, <1>18
  <2>4. QED
    BY <2>1, <2>2, <2>3, Zenon DEF WithATAPI
<1>20. CASE block # 1 /\ USER_OFFSET > ATAPI_OFFSET + block
  <2>1. PICK f, m \in Nat : /\ f = ATAPI_OFFSET + block /\ f \in Nat
                            /\ m = USER_OFFSET - (ATAPI_OFFSET + block) /\ m \in Nat
    BY DEF ATAPI_OFFSET, USER_OFFSET, ATAPI_SIZE, BlockSizes
  <2>2. j = AddFree(y, f, m)
    BY <1>19, <1>20, <2>1
  <2>3. QED
    BY <1>17, <2>1, <2>2, PreludeFree
<1>21. CASE ~(block # 1 /\ USER_OFFSET > ATAPI_OFFSET + block)
  BY <1>17, <1>19, <1>21
<1>22. QED
  BY <1>20, <1>21

-----------------------------------------------------------------------------
(* The table of a volume, and the others.                                  *)

HasData(fork, t, d) ==
  /\ t \in TableType /\ Fits(fork, t.runs)
  /\ FlattenSeq(Feeds(fork, t.runs)) = d /\ FlattenSeq(Expands(fork, t.runs)) = d
  /\ t.count = Len(d)

OfVolume(fork, d, list, h) ==
  /\ h \in 1 .. Len(list) /\ list[h].name \in HFSNames /\ HasData(fork, list[h], d)
  /\ \A k \in 1 .. Len(list) : k # h => Sound(fork, list[k]) /\ list[k].name \notin HFSNames

Tables(fork, d, list) == list \in Seq(TableType) /\ \E h : OfVolume(fork, d, list, h)

LEMMA TablesMain ==
  ASSUME NEW pre \in Seq(Cell), NEW fork \in Seq(Cell), Starts(fork, pre),
         NEW list, AllSound(pre, list), Plain(list),
         NEW e, e.name \in HFSNames, NEW d, HasData(fork, e, d)
  PROVE  Tables(fork, d, InsertData(list, e))
<1>1. list \in Seq(TableType) /\ e \in TableType
  BY DEF AllSound, HasData
<1>2. PICK new \in Seq(TableType) : new = InsertData(list, e)
  BY <1>1, InsertDataIs
<1>3. PICK p : Listing(list, e, new, p)
  BY <1>1, <1>2, InsertDataIs
<1>4. AllSound(fork, list)
  BY AllSoundGrown
<1>5. ASSUME NEW k \in 1 .. Len(new), k # p
      PROVE Sound(fork, new[k]) /\ new[k].name \notin HFSNames
  BY <1>3, <1>4, <1>5 DEF Listing, AllSound, Plain
<1>6. p \in 1 .. Len(new) /\ new[p] = e
  BY <1>3 DEF Listing
<1>7. OfVolume(fork, d, new, p)
  BY <1>5, <1>6 DEF OfVolume
<1>8. QED
  BY <1>2, <1>7 DEF Tables

LEMMA TablesFree ==
  ASSUME NEW fork, NEW d, NEW list, Tables(fork, d, list),
         NEW e, Sound(fork, e), e.name \notin HFSNames,
         \A k \in 1 .. Len(list) : list[k].name \in HFSNames => list[k].id # e.id
  PROVE  Tables(fork, d, InsertData(list, e))
<1>1. list \in Seq(TableType) /\ e \in TableType
  BY DEF Tables, Sound
<1>2. PICK new \in Seq(TableType) : new = InsertData(list, e)
  BY <1>1, InsertDataIs
<1>3. PICK p : Listing(list, e, new, p)
  BY <1>1, <1>2, InsertDataIs
<1>4. PICK h : OfVolume(fork, d, list, h)
  BY DEF Tables
<1>5. ASSUME NEW k \in 1 .. Len(new), k # h
      PROVE Sound(fork, new[k]) /\ new[k].name \notin HFSNames
  BY <1>3, <1>4, <1>5 DEF Listing, OfVolume
<1>6. h \in 1 .. Len(new) /\ p # h
  <2>1. PICK n \in Nat : n = Len(list)
    BY <1>1, LenProperties
  <2>2. PICK m \in Nat : m = Len(new)
    BY <1>2, LenProperties
  <2>3. h \in 1 .. n /\ list[h].name \in HFSNames /\ list[h].id # e.id
    BY <1>4, <2>1 DEF OfVolume
  <2>4. CASE \E k \in 1 .. n : list[k].id = e.id
    <3>1. m = n
      BY <1>3, <2>1, <2>2, <2>4 DEF Listing
    <3>2. list[p].id = e.id
      BY <1>3, <2>1, <2>4 DEF Listing
    <3>3. QED
      BY <2>2, <2>3, <3>1, <3>2
  <2>5. CASE ~ \E k \in 1 .. n : list[k].id = e.id
    <3>1. m = n + 1 /\ p = n + 1
      BY <1>3, <2>1, <2>2, <2>5 DEF Listing
    <3>2. QED
      BY <2>2, <2>3, <3>1
  <2>6. QED
    BY <2>4, <2>5
<1>7. new[h] = list[h]
  BY <1>3, <1>6 DEF Listing
<1>8. OfVolume(fork, d, new, h)
  BY <1>4, <1>5, <1>6, <1>7 DEF OfVolume
<1>9. QED
  BY <1>2, <1>8 DEF Tables

-----------------------------------------------------------------------------
(***************************************************************************)
(* Runs that are kept raw can be written over.                             *)
(***************************************************************************)

(* x with r instead of what it has behind s and up to t.                   *)
Patch(x, s, r, t) == SubSeq(x, 1, s) \o r \o SubSeq(x, t + 1, Len(x))

(* z is y and v, of lengths a and b.                                       *)
Joins(z, y, v, a, b) ==
  /\ Len(z) = a + b
  /\ \A j \in 1 .. a : z[j] = y[j]
  /\ \A j \in 1 .. b : z[a + j] = v[j]

LEMMA JoinIs ==
  ASSUME NEW S, NEW y \in Seq(S), NEW v \in Seq(S), NEW a \in Nat, a = Len(y),
         NEW b \in Nat, b = Len(v), NEW z, z = y \o v
  PROVE  z \in Seq(S) /\ Joins(z, y, v, a, b)
<1>1. /\ y \o v \in Seq(S) /\ Len(y \o v) = a + b
      /\ \A j \in 1 .. a + b : (y \o v)[j] = IF j <= a THEN y[j] ELSE v[j - a]
  BY ConcatProperties
<1>2. \A j \in 1 .. a : j \in 1 .. a + b /\ j <= a
  OBVIOUS
<1>3. \A j \in 1 .. b : a + j \in 1 .. a + b /\ ~(a + j <= a) /\ (a + j) - a = j
  OBVIOUS
<1>4. \A j \in 1 .. a : (y \o v)[j] = y[j]
  BY <1>1, <1>2
<1>5. \A j \in 1 .. b : (y \o v)[a + j] = v[j]
  BY <1>1, <1>3
<1>6. QED
  BY <1>1, <1>4, <1>5 DEF Joins

LEMMA SliceIs ==
  ASSUME NEW S, NEW x \in Seq(S), NEW l \in Nat, l = Len(x), NEW a \in Nat, NEW b \in Nat,
         a <= b, b <= l, NEW z, z = SubSeq(x, a + 1, b)
  PROVE  /\ z \in Seq(S) /\ Len(z) = b - a
         /\ \A j \in 1 .. b - a : z[j] = x[a + j]
<1>1. PICK c \in Int : c = a + 1
  OBVIOUS
<1>2. \A j \in c .. b : x[j] \in S
  <2>1. \A j \in c .. b : j \in 1 .. Len(x)
    BY <1>1
  <2>2. QED
    BY <2>1, ElementOfSeq
<1>3. /\ SubSeq(x, c, b) \in Seq(S)
      /\ Len(SubSeq(x, c, b)) = IF c <= b THEN b - c + 1 ELSE 0
      /\ \A j \in 1 .. b - c + 1 : SubSeq(x, c, b)[j] = x[c + j - 1]
  BY <1>1, <1>2, SubSeqProperties
<1>4. b - c + 1 = b - a /\ (c <= b \/ b - a = 0)
  BY <1>1
<1>5. \A j \in 1 .. b - a : j \in 1 .. b - c + 1 /\ c + j - 1 = a + j
  BY <1>1
<1>6. Len(SubSeq(x, c, b)) = b - a
  BY <1>3, <1>4
<1>7. \A j \in 1 .. b - a : SubSeq(x, c, b)[j] = x[a + j]
  BY <1>3, <1>5
<1>8. QED
  BY <1>1, <1>3, <1>6, <1>7

(* z is x, of length l, with r behind s and up to t.                       *)
PutIn(z, x, r, s, t, l) ==
  /\ Len(z) = l
  /\ \A j \in 1 .. s : z[j] = x[j]
  /\ \A j \in 1 .. t - s : z[s + j] = r[j]
  /\ \A j \in t + 1 .. l : z[j] = x[j]

LEMMA PatchIs ==
  ASSUME NEW S, NEW x \in Seq(S), NEW r \in Seq(S), NEW l \in Nat, l = Len(x),
         NEW s \in Nat, NEW t \in Nat, s <= t, t <= l, Len(r) = t - s
  PROVE  Patch(x, s, r, t) \in Seq(S) /\ PutIn(Patch(x, s, r, t), x, r, s, t, l)
<1>1. PICK n \in Nat : n = t - s /\ Len(r) = n
  OBVIOUS
<1>2. PICK u : u = SubSeq(x, 1, s)
  OBVIOUS
<1>3. u \in Seq(S) /\ Len(u) = s /\ \A j \in 1 .. s : u[j] = x[j]
  <2>1. PICK o \in Nat : o = 0
    OBVIOUS
  <2>2. u = SubSeq(x, o + 1, s) /\ o <= s /\ s <= l
    BY <1>2, <2>1
  <2>3. u \in Seq(S) /\ Len(u) = s - o /\ \A j \in 1 .. s - o : u[j] = x[o + j]
    BY <2>1, <2>2, SliceIs
  <2>4. s - o = s /\ \A j \in 1 .. s : o + j = j
    BY <2>1
  <2>5. QED
    BY <2>3, <2>4
<1>4. PICK v : v = SubSeq(x, t + 1, l)
  OBVIOUS
<1>5. PICK m \in Nat : m = l - t
  <2>1. l - t \in Nat
    OBVIOUS
  <2>2. QED
    BY <2>1
<1>6. v \in Seq(S) /\ Len(v) = m /\ \A j \in 1 .. m : v[j] = x[t + j]
  <2>1. l <= l
    OBVIOUS
  <2>2. v \in Seq(S) /\ Len(v) = l - t /\ \A j \in 1 .. l - t : v[j] = x[t + j]
    BY <1>4, <2>1, SliceIs
  <2>3. QED
    BY <1>5, <2>2
<1>7. PICK y : y = u \o r
  OBVIOUS
<1>8. /\ y \in Seq(S) /\ Len(y) = t
      /\ \A j \in 1 .. s : y[j] = u[j]
      /\ \A j \in 1 .. n : y[s + j] = r[j]
  <2>1. s = Len(u) /\ n = Len(r) /\ n \in Nat
    BY <1>1, <1>3
  <2>2. y \in Seq(S) /\ Joins(y, u, r, s, n)
    BY <1>3, <1>7, <2>1, JoinIs
  <2>3. s + n = t
    BY <1>1
  <2>4. QED
    BY <2>2, <2>3 DEF Joins
<1>9. PICK z : z = y \o v
  OBVIOUS
<1>10. /\ z \in Seq(S) /\ Len(z) = l
       /\ \A j \in 1 .. t : z[j] = y[j]
       /\ \A j \in 1 .. m : z[t + j] = v[j]
  <2>1. t = Len(y) /\ m = Len(v) /\ m \in Nat
    BY <1>5, <1>6, <1>8
  <2>2. z \in Seq(S) /\ Joins(z, y, v, t, m)
    BY <1>6, <1>8, <1>9, <2>1, JoinIs
  <2>3. t + m = l
    BY <1>5
  <2>4. QED
    BY <2>2, <2>3 DEF Joins
<1>11. Patch(x, s, r, t) = z
  BY <1>2, <1>4, <1>7, <1>9 DEF Patch
<1>12. \A j \in 1 .. s : z[j] = x[j]
  <2>1. \A j \in 1 .. s : j \in 1 .. t
    OBVIOUS
  <2>2. QED
    BY <1>3, <1>8, <1>10, <2>1
<1>13. \A j \in 1 .. n : z[s + j] = r[j]
  <2>1. \A j \in 1 .. n : s + j \in 1 .. t
    BY <1>1
  <2>2. QED
    BY <1>8, <1>10, <2>1
<1>14. \A j \in t + 1 .. l : z[j] = x[j]
  <2>1. \A j \in t + 1 .. l : j - t \in 1 .. m /\ t + (j - t) = j
    BY <1>5
  <2>2. \A k \in 1 .. m : z[t + k] = x[t + k]
    BY ONLY <1>6, <1>10
  <2>3. QED
    BY <2>1, <2>2
<1>15. QED
  BY <1>1, <1>10, <1>11, <1>12, <1>13, <1>14 DEF PutIn

LEMMA UptoGrows ==
  ASSUME NEW S, NEW s \in Seq(Seq(S)), NEW k \in 0 .. Len(s), NEW n \in k .. Len(s)
  PROVE  /\ Len(Upto(s, k)) <= Len(Upto(s, n))
         /\ Len(Upto(s, k)) \in Nat /\ Len(Upto(s, n)) \in Nat
<1>1. PICK l \in Nat : l = Len(s)
  BY LenProperties
<1>2. n \in 0 .. Len(s)
  BY <1>1
<1>3. QED
  BY <1>2, UptoStarts, UptoType DEF Starts

(* Other pieces of the same lengths for those behind a and up to b.        *)
Changed(e, f, a, b) ==
  \A k \in 1 .. Len(e) : IF k <= a \/ b < k THEN f[k] = e[k] ELSE Len(f[k]) = Len(e[k])

LEMMA UptoChanged ==
  ASSUME NEW S, NEW e \in Seq(Seq(S)), NEW f \in Seq(Seq(S)), NEW n \in Nat,
         n = Len(e), n = Len(f), NEW a \in Nat, NEW b \in Nat, a <= b, b <= n,
         Changed(e, f, a, b),
         NEW p \in Nat, p = Len(Upto(e, a)), NEW q \in Nat, q = Len(Upto(e, b)),
         NEW m \in 0 .. n
  PROVE  /\ Len(Upto(f, m)) = Len(Upto(e, m))
         /\ \A j \in 1 .. Len(Upto(e, m)) : j <= p \/ q < j => Upto(f, m)[j] = Upto(e, m)[j]
<1> DEFINE Good(k) == /\ Len(Upto(f, k)) = Len(Upto(e, k))
                      /\ \A j \in 1 .. Len(Upto(e, k)) :
                           j <= p \/ q < j => Upto(f, k)[j] = Upto(e, k)[j]
<1>1. DEFINE Bad == {k \in 0 .. n : ~Good(k)}
<1>2. SUFFICES ASSUME Bad # {} PROVE FALSE
  BY <1>2
<1>3. PICK k \in Bad : \A j \in Bad : k <= j
  <2>1. Bad \subseteq Nat
    OBVIOUS
  <2>2. QED
    BY <1>2, <2>1, LeastNat
<1>4. k \in 0 .. n /\ ~Good(k)
  BY <1>3
<1>5. k # 0
  <2>1. Upto(e, 0) = <<>> /\ Upto(f, 0) = <<>>
    BY UptoEnds
  <2>2. Good(0)
    BY <2>1
  <2>3. QED
    BY <1>4, <2>2
<1>6. k - 1 \in 0 .. n /\ k \in 1 .. n /\ ~(k <= k - 1)
  BY <1>4, <1>5
<1>7. Good(k - 1)
  BY <1>3, <1>6
<1>8. PICK u \in Seq(S) : u = Upto(e, k - 1)
  BY <1>6, UptoType
<1>9. PICK v \in Seq(S) : v = Upto(f, k - 1)
  BY <1>6, UptoType
<1>10. PICK x \in Seq(S) : x = e[k] /\ Upto(e, k) = u \o x
  BY <1>6, <1>8, UptoStep
<1>11. PICK y \in Seq(S) : y = f[k] /\ Upto(f, k) = v \o y
  BY <1>6, <1>9, UptoStep
<1>12. PICK c \in Nat : c = Len(u)
  BY LenProperties
<1>13. PICK d \in Nat : d = Len(x)
  BY LenProperties
<1>14. /\ Len(v) = c /\ \A j \in 1 .. c : j <= p \/ q < j => v[j] = u[j]
  BY <1>7, <1>8, <1>9, <1>12
<1>15. Len(y) = d
  BY <1>6, <1>10, <1>11, <1>13 DEF Changed
<1>16. PICK ux : ux = u \o x
  OBVIOUS
<1>17. PICK vy : vy = v \o y
  OBVIOUS
<1>18. Len(ux) = c + d /\ (\A j \in 1 .. c : ux[j] = u[j]) /\ \A j \in 1 .. d : ux[c + j] = x[j]
  <2>1. Joins(ux, u, x, c, d)
    BY <1>8, <1>10, <1>12, <1>13, <1>16, JoinIs
  <2>2. QED
    BY <2>1 DEF Joins
<1>19. Len(vy) = c + d /\ (\A j \in 1 .. c : vy[j] = v[j]) /\ \A j \in 1 .. d : vy[c + j] = y[j]
  <2>1. c = Len(v) /\ d = Len(y) /\ c \in Nat /\ d \in Nat
    BY <1>12, <1>13, <1>14, <1>15
  <2>2. Joins(vy, v, y, c, d)
    BY <1>9, <1>11, <1>17, <2>1, JoinIs
  <2>3. QED
    BY <2>2 DEF Joins
<1>20. ASSUME NEW j \in 1 .. c + d, j <= p \/ q < j PROVE vy[j] = ux[j]
  <2>1. c \in Nat /\ d \in Nat /\ j \in Nat
    BY <1>12, <1>13
  <2>2. CASE j <= c
    <3>1. j \in 1 .. c
      BY <2>2
    <3>2. v[j] = u[j]
      BY <1>14, <1>20, <3>1
    <3>3. QED
      BY <1>18, <1>19, <3>1, <3>2
  <2>3. CASE ~(j <= c)
    <3>1. CASE k <= a \/ b < k
      <4>1. y = x
        BY <1>6, <1>10, <1>11, <3>1 DEF Changed
      <4>2. j - c \in 1 .. d /\ c + (j - c) = j
        BY <2>1, <2>3
      <4>3. QED
        BY <1>18, <1>19, <4>1, <4>2
    <3>2. CASE a < k /\ k <= b
      <4>1. p <= c
        <5>1. a \in 0 .. Len(e) /\ k - 1 \in a .. Len(e)
          BY <1>6, <3>2
        <5>2. QED
          BY <1>8, <1>12, <5>1, UptoGrows
      <4>2. c + d <= q
        <5>1. k \in 0 .. Len(e) /\ b \in k .. Len(e)
          BY <1>6, <3>2
        <5>2. Len(Upto(e, k)) <= Len(Upto(e, b))
          BY <5>1, UptoGrows
        <5>3. QED
          BY <1>10, <1>16, <1>18, <5>2
      <4>3. QED
        BY <1>20, <2>1, <2>3, <4>1, <4>2
    <3>3. k \in Nat
      BY <1>6
    <3>4. QED
      BY <3>1, <3>2, <3>3
  <2>4. QED
    BY <2>1, <2>2, <2>3
<1>21. Good(k)
  BY <1>10, <1>11, <1>16, <1>17, <1>18, <1>19, <1>20
<1>22. QED
  BY <1>4, <1>21

LEMMA CutGrows ==
  ASSUME NEW l \in Nat, NEW i \in Nat, NEW k \in Nat, i <= k
  PROVE  Cut(l, i) <= Cut(l, k) /\ Cut(l, i) \in Nat /\ Cut(l, k) <= l
<1>1. PICK R \in Nat : R = RunSectors
  BY SizesAssumption
<1>2. PICK x \in Nat : x = i * R
  BY <1>1
<1>3. PICK y \in Nat : y = k * R
  BY <1>1
<1>4. x <= y
  <2>1. PICK d \in Nat : k = i + d
    OBVIOUS
  <2>2. PICK z \in Nat : z = d * R
    BY <1>1, <2>1
  <2>3. y = x + z
    BY <1>1, <1>2, <1>3, <2>1, <2>2
  <2>4. QED
    BY <1>2, <1>3, <2>2, <2>3
<1>5. Cut(l, i) = (IF x <= l THEN x ELSE l) /\ Cut(l, k) = IF y <= l THEN y ELSE l
  BY <1>1, <1>2, <1>3 DEF Cut
<1>6. QED
  BY <1>2, <1>3, <1>4, <1>5

Spans(p, s, t, v, c, d) == s <= t /\ t <= v /\ c = p + (t - s) /\ d = v - t

(* The pieces behind a and up to b are raw.                                *)
AllKept(kept, a, b) == \A k \in a .. b - 1 : k \in kept

(* u is p elements, and then what data has behind s and up to t.           *)
Shows(u, data, p, s, t) ==
  Len(u) = p + (t - s) /\ \A j \in 1 .. t - s : u[p + j] = data[s + j]

LEMMA RawPart ==
  ASSUME NEW data \in Seq(Sector), NEW l \in Nat, l = Len(data), NEW kept,
         NEW a \in Nat, NEW b \in Nat, a <= b, b <= Runs(data), AllKept(kept, a, b),
         NEW e, e = Parts(data, kept), NEW p \in Nat, p = Len(Upto(e, a)),
         NEW k \in a .. b
  PROVE  Shows(Upto(e, k), data, p, Cut(l, a), Cut(l, k))
<1>1. PICK n \in Nat : n = Runs(data)
  BY PartsType
<1>2. e \in Seq(Seq(Cell)) /\ Len(e) = n /\ \A x \in 1 .. n : e[x] = Cells(data, x - 1, kept)
  BY <1>1, PartsType
<1>3. DEFINE Bad == {x \in a .. b : ~Shows(Upto(e, x), data, p, Cut(l, a), Cut(l, x))}
<1>4. SUFFICES ASSUME Bad # {} PROVE FALSE
  BY <1>4
<1>5. PICK m \in Bad : \A j \in Bad : m <= j
  <2>1. Bad \subseteq Nat
    OBVIOUS
  <2>2. QED
    BY <1>4, <2>1, LeastNat
<1>6. m \in a .. b /\ ~Shows(Upto(e, m), data, p, Cut(l, a), Cut(l, m)) /\ m \in Nat
  BY <1>5
<1>7. PICK s \in Nat : s = Cut(l, a)
  <2>1. a <= a
    OBVIOUS
  <2>2. QED
    BY <2>1, CutGrows
<1>8. m # a
  <2>1. \A j \in 1 .. s - s : FALSE
    BY <1>7
  <2>2. p = p + (s - s)
    BY <1>7
  <2>3. Shows(Upto(e, a), data, p, s, s)
    BY <2>1, <2>2 DEF Shows
  <2>4. QED
    BY <1>6, <1>7, <2>3
<1>9. m - 1 \in a .. b /\ m - 1 \in Nat /\ m \in 1 .. n /\ m - 1 \in 0 .. n /\ ~(m <= m - 1)
  BY <1>1, <1>6, <1>8
<1>10. Shows(Upto(e, m - 1), data, p, s, Cut(l, m - 1))
  BY <1>5, <1>7, <1>9
<1>11. PICK t \in Nat : t = Cut(l, m - 1) /\ s <= t
  <2>1. a <= m - 1
    BY <1>9
  <2>2. Cut(l, a) <= Cut(l, m - 1)
    BY <1>9, <2>1, CutGrows
  <2>3. Cut(l, m - 1) \in Nat
    <3>1. m - 1 <= m - 1
      BY <1>9
    <3>2. QED
      BY <1>9, <3>1, CutGrows
  <2>4. QED
    BY <1>7, <2>2, <2>3
<1>12. PICK v \in Nat : v = Cut(l, m) /\ t <= v
  <2>1. m - 1 <= m
    BY <1>6
  <2>2. Cut(l, m - 1) <= Cut(l, m)
    BY <1>6, <1>9, <2>1, CutGrows
  <2>3. Cut(l, m) \in Nat
    <3>1. m <= m
      BY <1>6
    <3>2. QED
      BY <1>6, <3>1, CutGrows
  <2>4. QED
    BY <1>11, <2>2, <2>3
<1>13. PICK u \in Seq(Cell) : u = Upto(e, m - 1)
  BY <1>2, <1>9, UptoType
<1>14. Upto(e, m) = u \o e[m] /\ e[m] \in Seq(Cell)
  BY <1>2, <1>9, <1>13, UptoStep
<1>15. PICK x \in Seq(Cell) : x = e[m]
  BY <1>14
<1>16. x = RunOf(data, m - 1)
  <2>1. m - 1 \in kept
    BY <1>6, <1>9 DEF AllKept
  <2>2. QED
    BY <1>2, <1>9, <1>15, <2>1, CellsPiece
<1>17. PICK d \in Nat : d = v - t
  BY <1>12
<1>18. Len(x) = d /\ \A j \in 1 .. d : x[j] = data[t + j]
  <2>1. m \in 1 .. Runs(data)
    BY <1>1, <1>9
  <2>2. /\ Len(RunOf(data, m - 1)) = Cut(l, m) - Cut(l, m - 1)
        /\ \A j \in 1 .. Len(RunOf(data, m - 1)) : RunOf(data, m - 1)[j] = data[Cut(l, m - 1) + j]
    BY <2>1, RunSlice
  <2>3. QED
    BY <1>11, <1>12, <1>16, <1>17, <2>2
<1>19. PICK c \in Nat : c = p + (t - s)
  BY <1>11
<1>20. PICK P \in Nat : P = p
  OBVIOUS
<1>21. Spans(P, s, t, v, c, d)
  BY <1>11, <1>12, <1>17, <1>19, <1>20 DEF Spans
<1>22. P \in Nat /\ s \in Nat /\ t \in Nat /\ v \in Nat /\ c \in Nat /\ d \in Nat
  BY <1>7, <1>11, <1>12, <1>17, <1>19, <1>20
<1>23. Len(u) = c /\ \A j \in 1 .. t - s : u[p + j] = data[s + j]
  BY <1>10, <1>11, <1>13, <1>19 DEF Shows
<1>24. PICK z : z = u \o x
  OBVIOUS
<1>25. Joins(z, u, x, c, d)
  <2>1. c = Len(u) /\ d = Len(x)
    BY <1>18, <1>23
  <2>2. QED
    BY <1>13, <1>15, <1>17, <1>19, <1>24, <2>1, JoinIs
<1>26. Len(z) = p + (v - s)
  <2>1. c + d = P + (v - s)
    BY <1>21, <1>22 DEF Spans
  <2>2. QED
    BY <1>20, <1>25, <2>1 DEF Joins
<1>27. ASSUME NEW j \in 1 .. v - s PROVE z[p + j] = data[s + j]
  <2>1. CASE j <= t - s
    <3>1. p + j \in 1 .. c /\ j \in 1 .. t - s
      BY <1>11, <1>19, <2>1
    <3>2. QED
      BY <1>23, <1>25, <3>1 DEF Joins
  <2>2. CASE ~(j <= t - s)
    <3>1. /\ j - (t - s) \in 1 .. d
          /\ P + j = c + (j - (t - s)) /\ s + j = t + (j - (t - s))
      BY <1>21, <1>22, <2>2 DEF Spans
    <3>2. PICK i \in 1 .. d : i = j - (t - s)
      BY <3>1
    <3>3. p + j = c + i /\ s + j = t + i
      BY <1>20, <3>1, <3>2
    <3>4. z[c + i] = x[i] /\ x[i] = data[t + i]
      BY <1>18, <1>25, <3>2 DEF Joins
    <3>5. QED
      BY <3>3, <3>4
  <2>3. QED
    BY <2>1, <2>2
<1>28. Shows(z, data, p, s, v)
  BY <1>26, <1>27 DEF Shows
<1>29. QED
  BY <1>6, <1>7, <1>12, <1>14, <1>15, <1>24, <1>28

(* The raw part of data: the pieces behind a and up to b, which are behind *)
(* p and up to q in the cells, behind s and up to t in the data.           *)
RawPiece(data, kept, a, b, p, q, s, t) ==
  /\ a \in Nat /\ b \in Nat /\ a <= b /\ b <= Runs(data) /\ AllKept(kept, a, b)
  /\ p = Len(Upto(Parts(data, kept), a)) /\ q = Len(Upto(Parts(data, kept), b))
  /\ s = Cut(Len(data), a) /\ t = Cut(Len(data), b)

InPlace(cells, data, p, s, t) == \A j \in 1 .. t - s : cells[p + j] = data[s + j]

LEMMA RawPieceIs ==
  ASSUME NEW data \in Seq(Sector), NEW kept, NEW a, NEW b, NEW p, NEW q, NEW s, NEW t,
         RawPiece(data, kept, a, b, p, q, s, t)
  PROVE  /\ p \in Nat /\ q \in Nat /\ s \in Nat /\ t \in Nat
         /\ p <= q /\ s <= t /\ q - p = t - s /\ t <= Len(data)
         /\ q <= Len(FlattenSeq(Parts(data, kept)))
         /\ InPlace(FlattenSeq(Parts(data, kept)), data, p, s, t)
<1>1. PICK e \in Seq(Seq(Cell)) : e = Parts(data, kept) /\ Len(e) = Runs(data)
  BY PartsType
<1>2. PICK n \in Nat : n = Len(e)
  BY LenProperties, <1>1
<1>3. PICK l \in Nat : l = Len(data)
  BY LenProperties
<1>4. /\ a \in Nat /\ b \in Nat /\ a <= b /\ b <= n /\ AllKept(kept, a, b)
      /\ p = Len(Upto(e, a)) /\ q = Len(Upto(e, b)) /\ s = Cut(l, a) /\ t = Cut(l, b)
  BY <1>1, <1>2, <1>3 DEF RawPiece
<1>5. s \in Nat /\ s <= t /\ t <= l
  BY <1>4, CutGrows
<1>6. t \in Nat
  <2>1. b <= b
    BY <1>4
  <2>2. QED
    BY <1>4, <2>1, CutGrows
<1>7. p \in Nat /\ q \in Nat /\ p <= q
  <2>1. a \in 0 .. Len(e) /\ b \in a .. Len(e)
    BY <1>2, <1>4
  <2>2. QED
    BY <1>1, <1>4, <2>1, UptoGrows
<1>8. Shows(Upto(e, b), data, p, s, t)
  <2>1. b \in a .. b /\ b <= Runs(data)
    BY <1>1, <1>2, <1>4
  <2>2. QED
    BY <1>1, <1>3, <1>4, <1>7, <2>1, RawPart
<1>9. PICK cells : cells = FlattenSeq(e)
  OBVIOUS
<1>10. Starts(cells, Upto(e, b))
  <2>1. b \in 0 .. Len(e) /\ n \in b .. Len(e)
    BY <1>2, <1>4
  <2>2. Upto(e, n) = cells
    BY <1>1, <1>2, <1>9, UptoEnds
  <2>3. QED
    BY <1>1, <2>1, <2>2, UptoStarts
<1>11. q = p + (t - s)
  BY <1>4, <1>8 DEF Shows
<1>12. q <= Len(cells)
  BY <1>4, <1>10 DEF Starts
<1>13. ASSUME NEW j \in 1 .. t - s PROVE cells[p + j] = data[s + j]
  <2>1. PICK u : u = Upto(e, b) /\ Len(u) = q
    BY <1>4
  <2>2. u[p + j] = data[s + j]
    BY <1>8, <2>1 DEF Shows
  <2>3. PICK x \in 1 .. q : x = p + j
    BY <1>5, <1>6, <1>7, <1>11
  <2>4. cells[x] = u[x]
    BY <1>10, <2>1, <2>3 DEF Starts
  <2>5. QED
    BY <2>2, <2>3, <2>4
<1>14. q - p = t - s
  BY <1>5, <1>6, <1>7, <1>11
<1>15. QED
  BY <1>1, <1>3, <1>5, <1>6, <1>7, <1>9, <1>12, <1>13, <1>14 DEF InPlace

(* With other data for the raw part, the other runs are the same.          *)
Elsewhere(d, data, s, t) ==
  /\ Len(d) = Len(data)
  /\ \A j \in 1 .. s : d[j] = data[j]
  /\ \A j \in t + 1 .. Len(data) : d[j] = data[j]

SameRun(d, data, a, b, k) ==
  /\ k <= a \/ b < k => RunOf(d, k - 1) = RunOf(data, k - 1)
  /\ Len(RunOf(d, k - 1)) = Len(RunOf(data, k - 1))

LEMMA PatchedRuns ==
  ASSUME NEW data \in Seq(Sector), NEW kept, NEW a, NEW b, NEW p, NEW q, NEW s, NEW t,
         RawPiece(data, kept, a, b, p, q, s, t),
         NEW d \in Seq(Sector), Elsewhere(d, data, s, t), NEW k \in 1 .. Runs(data)
  PROVE  SameRun(d, data, a, b, k)
<1>1. PICK l \in Nat : l = Len(data)
  BY LenProperties
<1>2. PICK n \in Nat : n = Runs(data)
  BY PartsType
<1>3. /\ Len(d) = l /\ \A j \in 1 .. s : d[j] = data[j]
      /\ \A j \in t + 1 .. l : d[j] = data[j]
  BY <1>1 DEF Elsewhere
<1>4. Runs(d) = Runs(data)
  BY DEF Runs, Elsewhere
<1>5. /\ s \in Nat /\ t \in Nat /\ s = Cut(l, a) /\ t = Cut(l, b) /\ a \in Nat /\ b \in Nat
      /\ a <= b /\ b <= n /\ t <= l
  <2>1. s \in Nat /\ t \in Nat /\ t <= Len(data)
    BY RawPieceIs
  <2>2. QED
    BY <1>1, <1>2, <2>1 DEF RawPiece
<1>6. PICK y \in Seq(Sector) : y = RunOf(data, k - 1)
  BY RunSlice
<1>7. PICK z \in Seq(Sector) : z = RunOf(d, k - 1)
  BY <1>4, RunSlice
<1>8. PICK u \in Nat : u = Cut(l, k - 1)
  <2>1. k - 1 \in Nat /\ k - 1 <= k - 1
    BY <1>2
  <2>2. QED
    BY <1>1, <2>1, CutGrows
<1>9. PICK v \in Nat : v = Cut(l, k) /\ v <= l
  <2>1. k \in Nat /\ k <= k
    BY <1>2
  <2>2. QED
    BY <1>1, <2>1, CutGrows
<1>10. Len(y) = v - u /\ \A j \in 1 .. Len(y) : y[j] = data[u + j]
  BY <1>1, <1>6, <1>8, <1>9, RunSlice
<1>11. Len(z) = v - u /\ \A j \in 1 .. Len(z) : z[j] = d[u + j]
  <2>1. k \in 1 .. Runs(d) /\ l = Len(d)
    BY <1>1, <1>3, <1>4
  <2>2. QED
    BY <1>1, <1>7, <1>8, <1>9, <2>1, RunSlice
<1>12. ASSUME k <= a \/ b < k PROVE z = y
  <2>1. CASE k <= a
    <3>1. v <= s
      BY <1>1, <1>2, <1>5, <1>9, <2>1, CutGrows
    <3>2. ASSUME NEW j \in 1 .. v - u PROVE z[j] = y[j]
      <4>1. u \in Nat /\ v \in Nat /\ s \in Nat /\ t \in Nat /\ l \in Nat /\ v <= l
        BY <1>1, <1>5, <1>8, <1>9
      <4>2. PICK x \in 1 .. s : x = u + j
        BY <3>1, <4>1
      <4>3. d[x] = data[x]
        BY <1>3, <4>2
      <4>4. z[j] = d[u + j] /\ y[j] = data[u + j]
        BY <1>10, <1>11
      <4>5. QED
        BY <4>2, <4>3, <4>4
    <3>3. QED
      BY <1>6, <1>7, <1>10, <1>11, <3>2, SeqEqual
  <2>2. CASE b < k
    <3>1. t <= u
      <4>1. k - 1 \in Nat /\ b <= k - 1
        BY <1>2, <1>5, <2>2
      <4>2. QED
        BY <1>1, <1>5, <1>8, <4>1, CutGrows
    <3>2. ASSUME NEW j \in 1 .. v - u PROVE z[j] = y[j]
      <4>1. u \in Nat /\ v \in Nat /\ s \in Nat /\ t \in Nat /\ l \in Nat /\ v <= l
        BY <1>1, <1>5, <1>8, <1>9
      <4>2. PICK x \in t + 1 .. l : x = u + j
        BY <3>1, <4>1
      <4>3. d[x] = data[x]
        BY <1>3, <4>2
      <4>4. z[j] = d[u + j] /\ y[j] = data[u + j]
        BY <1>10, <1>11
      <4>5. QED
        BY <4>2, <4>3, <4>4
    <3>3. QED
      BY <1>6, <1>7, <1>10, <1>11, <3>2, SeqEqual
  <2>3. QED
    BY <1>12, <2>1, <2>2
<1>13. QED
  BY <1>6, <1>7, <1>10, <1>11, <1>12 DEF SameRun

SameParts(d, data, kept, a, b) ==
  /\ Runs(d) = Runs(data)
  /\ Changed(Parts(data, kept), Parts(d, kept), a, b)
  /\ \A k \in 1 .. Runs(data) :
       /\ Parts(d, kept)[k] = RunOf(d, k - 1) <=> Parts(data, kept)[k] = RunOf(data, k - 1)
       /\ Len(RunOf(d, k - 1)) = Len(RunOf(data, k - 1))
       /\ Len(Parts(d, kept)[k]) = Len(Parts(data, kept)[k])

LEMMA PatchedParts ==
  ASSUME NEW data \in Seq(Sector), NEW kept, NEW a, NEW b, NEW p, NEW q, NEW s, NEW t,
         RawPiece(data, kept, a, b, p, q, s, t),
         NEW d \in Seq(Sector), Elsewhere(d, data, s, t)
  PROVE  SameParts(d, data, kept, a, b)
<1>1. Runs(d) = Runs(data)
  BY DEF Runs, Elsewhere
<1>2. PICK n \in Nat : n = Runs(data)
  BY PartsType
<1>3. PICK e \in Seq(Seq(Cell)) : /\ e = Parts(data, kept) /\ Len(e) = n
                                  /\ \A k \in 1 .. n : e[k] = Cells(data, k - 1, kept)
  BY <1>2, PartsType
<1>4. PICK f \in Seq(Seq(Cell)) : /\ f = Parts(d, kept) /\ Len(f) = n
                                  /\ \A k \in 1 .. n : f[k] = Cells(d, k - 1, kept)
  <2>1. /\ Parts(d, kept) \in Seq(Seq(Cell)) /\ Len(Parts(d, kept)) = Runs(d)
        /\ \A k \in 1 .. Runs(d) : /\ Parts(d, kept)[k] = Cells(d, k - 1, kept)
                                    /\ Len(Parts(d, kept)[k]) \in Nat \ {0}
    BY PartsType
  <2>2. Runs(d) = n
    BY <1>1, <1>2
  <2>3. QED
    BY <2>1, <2>2
<1>5. PICK l \in Nat : l = Len(data)
  BY LenProperties
<1>6. ASSUME NEW k \in 1 .. n
      PROVE /\ k <= a \/ b < k => RunOf(d, k - 1) = RunOf(data, k - 1)
            /\ Len(RunOf(d, k - 1)) = Len(RunOf(data, k - 1))
  <2>1. SameRun(d, data, a, b, k)
    BY <1>2, PatchedRuns
  <2>2. QED
    BY <2>1 DEF SameRun
<1>7. a \in Nat /\ b \in Nat /\ a <= b /\ b <= n /\ AllKept(kept, a, b)
  BY <1>2 DEF RawPiece
<1>8. ASSUME NEW k \in 1 .. n
      PROVE /\ IF k <= a \/ b < k THEN f[k] = e[k] ELSE Len(f[k]) = Len(e[k])
            /\ f[k] = RunOf(d, k - 1) <=> e[k] = RunOf(data, k - 1)
            /\ Len(f[k]) = Len(e[k])
  <2>1. CASE k <= a \/ b < k
    <3>1. RunOf(d, k - 1) = RunOf(data, k - 1)
      BY <1>6, <2>1
    <3>2. Cells(d, k - 1, kept) = Cells(data, k - 1, kept)
      BY <3>1, Zenon DEF Cells
    <3>3. f[k] = e[k]
      BY <1>3, <1>4, <3>2
    <3>4. QED
      BY <2>1, <3>1, <3>3
  <2>2. CASE ~(k <= a \/ b < k)
    <3>1. k - 1 \in kept
      BY <1>7, <2>2 DEF AllKept
    <3>2. f[k] = RunOf(d, k - 1) /\ e[k] = RunOf(data, k - 1)
      BY <1>3, <1>4, <3>1, CellsPiece
    <3>3. QED
      BY <1>6, <2>2, <3>2
  <2>3. QED
    BY <2>1, <2>2
<1>9. Changed(e, f, a, b)
  BY <1>3, <1>8 DEF Changed
<1>10. QED
  BY <1>1, <1>2, <1>3, <1>4, <1>6, <1>8, <1>9 DEF SameParts

LEMMA Patched ==
  ASSUME NEW data \in Seq(Sector), NEW kept, NEW a, NEW b, NEW p, NEW q, NEW s, NEW t,
         RawPiece(data, kept, a, b, p, q, s, t),
         NEW r \in Seq(Sector), Len(r) = t - s, NEW d, d = Patch(data, s, r, t),
         NEW off \in Nat
  PROVE  /\ d \in Seq(Sector)
         /\ RunList(d, kept, off) = RunList(data, kept, off)
         /\ FlattenSeq(Parts(d, kept)) = Patch(FlattenSeq(Parts(data, kept)), p, r, q)
<1>1. PICK n \in Nat : n = Runs(data)
  BY PartsType
<1>2. PICK e \in Seq(Seq(Cell)) : e = Parts(data, kept) /\ Len(e) = n
  BY <1>1, PartsType
<1>3. PICK l \in Nat : l = Len(data)
  BY LenProperties
<1>4. /\ p \in Nat /\ q \in Nat /\ s \in Nat /\ t \in Nat
      /\ p <= q /\ s <= t /\ q - p = t - s /\ t <= Len(data)
      /\ q <= Len(FlattenSeq(Parts(data, kept)))
  BY RawPieceIs
<1>5. PICK m \in Nat : m = t - s
  BY <1>4
<1>6. /\ d \in Seq(Sector) /\ Len(d) = l
      /\ \A j \in 1 .. s : d[j] = data[j]
      /\ \A j \in 1 .. m : d[s + j] = r[j]
      /\ \A j \in t + 1 .. l : d[j] = data[j]
  <2>1. t <= l
    BY <1>3, <1>4
  <2>2. d \in Seq(Sector) /\ PutIn(d, data, r, s, t, l)
    BY <1>3, <1>4, <2>1, PatchIs
  <2>3. QED
    BY <1>5, <2>2 DEF PutIn
<1>7. /\ Runs(d) = Runs(data)
      /\ Changed(Parts(data, kept), Parts(d, kept), a, b)
      /\ \A k \in 1 .. Runs(data) :
           /\ Parts(d, kept)[k] = RunOf(d, k - 1) <=> Parts(data, kept)[k] = RunOf(data, k - 1)
           /\ Len(RunOf(d, k - 1)) = Len(RunOf(data, k - 1))
           /\ Len(Parts(d, kept)[k]) = Len(Parts(data, kept)[k])
  <2>1. Elsewhere(d, data, s, t)
    BY <1>3, <1>6 DEF Elsewhere
  <2>2. SameParts(d, data, kept, a, b)
    BY <1>6, <2>1, PatchedParts
  <2>3. QED
    BY <2>2 DEF SameParts
<1>8. PICK f \in Seq(Seq(Cell)) : f = Parts(d, kept) /\ Len(f) = n
  BY <1>1, <1>6, <1>7, PartsType
<1>9. a \in Nat /\ b \in Nat /\ a <= b /\ b <= n /\ p = Len(Upto(e, a)) /\ q = Len(Upto(e, b))
  BY <1>1, <1>2 DEF RawPiece
<1>10. ASSUME NEW k \in 0 .. n
       PROVE /\ Len(Upto(f, k)) = Len(Upto(e, k))
             /\ \A j \in 1 .. Len(Upto(e, k)) : j <= p \/ q < j => Upto(f, k)[j] = Upto(e, k)[j]
  <2>1. Changed(e, f, a, b)
    BY <1>2, <1>7, <1>8
  <2>2. n = Len(e) /\ n = Len(f)
    BY <1>2, <1>8
  <2>3. QED
    BY <1>2, <1>4, <1>8, <1>9, <2>1, <2>2, UptoChanged
<1>11. RunList(d, kept, off) = RunList(data, kept, off)
  <2>1. ASSUME NEW k \in 1 .. n PROVE TheRun(d, kept, off, k) = TheRun(data, kept, off, k)
    <3>1. Len(Upto(f, k - 1)) = Len(Upto(e, k - 1))
      BY <1>10
    <3>2. (f[k] = RunOf(d, k - 1)) = (e[k] = RunOf(data, k - 1))
      BY <1>1, <1>2, <1>7, <1>8
    <3>3. Len(RunOf(d, k - 1)) = Len(RunOf(data, k - 1)) /\ Len(f[k]) = Len(e[k])
      BY <1>1, <1>2, <1>7, <1>8
    <3>4. QED
      BY <1>2, <1>8, <3>1, <3>2, <3>3 DEF TheRun
  <2>2. TheEnd(d, kept, off) = TheEnd(data, kept, off)
    <3>1. (n + 1) - 1 \in 0 .. n
      OBVIOUS
    <3>2. Len(Upto(f, (n + 1) - 1)) = Len(Upto(e, (n + 1) - 1))
      BY <1>10, <3>1
    <3>3. QED
      BY <1>1, <1>2, <1>3, <1>6, <1>7, <1>8, <3>2 DEF TheEnd
  <2>3. [k \in 1 .. Runs(d) |-> TheRun(d, kept, off, k)]
          = [k \in 1 .. Runs(data) |-> TheRun(data, kept, off, k)]
    BY <1>1, <1>7, <2>1
  <2>4. QED
    BY <2>2, <2>3, Zenon DEF RunList
<1>12. PICK x \in Seq(Cell) : x = FlattenSeq(e)
  BY FlattenType
<1>13. PICK y \in Seq(Cell) : y = FlattenSeq(f)
  BY FlattenType
<1>14. PICK c \in Nat : c = Len(x) /\ q <= c
  BY <1>2, <1>4, <1>12, LenProperties
<1>15. Upto(e, n) = x /\ Upto(f, n) = y
  BY <1>2, <1>8, <1>12, <1>13, UptoEnds
<1>16. Len(y) = c /\ \A j \in 1 .. c : j <= p \/ q < j => y[j] = x[j]
  <2>1. n \in 0 .. n
    OBVIOUS
  <2>2. QED
    BY <1>10, <1>14, <1>15, <2>1
<1>17. ASSUME NEW j \in 1 .. m PROVE y[p + j] = r[j]
  <2>1. RawPiece(d, kept, a, b, p, q, s, t)
    <3>1. Len(Upto(f, a)) = Len(Upto(e, a)) /\ Len(Upto(f, b)) = Len(Upto(e, b))
      <4>1. a \in 0 .. n /\ b \in 0 .. n
        BY <1>9
      <4>2. QED
        BY <1>10, <4>1
    <3>2. QED
      BY <1>1, <1>2, <1>3, <1>6, <1>7, <1>8, <1>9, <3>1 DEF RawPiece
  <2>2. y[p + j] = d[s + j]
    <3>1. \A i \in 1 .. t - s : FlattenSeq(Parts(d, kept))[p + i] = d[s + i]
      <4>1. InPlace(FlattenSeq(Parts(d, kept)), d, p, s, t)
        BY <1>6, <2>1, RawPieceIs
      <4>2. QED
        BY <4>1 DEF InPlace
    <3>2. QED
      BY <1>5, <1>8, <1>13, <3>1
  <2>3. QED
    BY <1>6, <2>2
<1>18. PICK z \in Seq(Cell) : /\ z = Patch(x, p, r, q) /\ Len(z) = c
                              /\ \A j \in 1 .. p : z[j] = x[j]
                              /\ \A j \in 1 .. m : z[p + j] = r[j]
                              /\ \A j \in q + 1 .. c : z[j] = x[j]
  <2>1. r \in Seq(Cell)
    <3>1. Sector \subseteq Cell
      BY DEF Cell
    <3>2. QED
      BY <3>1, SeqMonotonic
  <2>2. m = q - p /\ Len(r) = q - p
    BY <1>4, <1>5
  <2>3. PICK z : z = Patch(x, p, r, q)
    OBVIOUS
  <2>4. z \in Seq(Cell) /\ PutIn(z, x, r, p, q, c)
    BY <1>4, <1>12, <1>14, <2>1, <2>2, <2>3, PatchIs
  <2>5. QED
    BY <2>2, <2>3, <2>4 DEF PutIn
<1>19. ASSUME NEW j \in 1 .. c PROVE y[j] = z[j]
  <2>1. p \in Nat /\ q \in Nat /\ c \in Nat /\ m \in Nat /\ m = q - p /\ p <= q
    BY <1>4, <1>5, <1>14
  <2>2. CASE j <= p
    <3>1. j \in 1 .. p
      BY <2>1, <2>2
    <3>2. QED
      BY <1>16, <1>18, <2>2, <3>1
  <2>3. CASE q < j
    <3>1. j \in q + 1 .. c
      BY <2>1, <2>3
    <3>2. QED
      BY <1>16, <1>18, <2>3, <3>1
  <2>4. CASE p < j /\ j <= q
    <3>1. PICK i \in 1 .. m : p + i = j
      <4>1. j - p \in 1 .. m /\ p + (j - p) = j
        BY <2>1, <2>4
      <4>2. QED
        BY <4>1
    <3>2. y[p + i] = r[i] /\ z[p + i] = r[i]
      BY <1>17, <1>18
    <3>3. QED
      BY <3>1, <3>2
  <2>5. QED
    BY <2>1, <2>2, <2>3, <2>4
<1>20. y = z
  BY <1>13, <1>16, <1>18, <1>19, SeqEqual
<1>21. QED
  BY <1>2, <1>6, <1>8, <1>11, <1>12, <1>13, <1>18, <1>20

-----------------------------------------------------------------------------
(***************************************************************************)
(* The attribution of an image.                                            *)
(***************************************************************************)

(* The runs that are kept raw are one or two that follow each other.       *)
LEMMA KeptIs ==
  ASSUME NEW data \in Seq(Sector), Kept(data) # {}
  PROVE  \E lo \in 0 .. Runs(data) - 1, hi \in 0 .. Runs(data) - 1 :
           lo <= hi /\ Kept(data) = lo .. hi
<1>1. PICK n \in Nat : n = Runs(data)
  BY PartsType
<1>2. PICK i \in 0 .. n - 1 : i \in Kept(data)
  BY <1>1 DEF Kept
<1>3. DEFINE Sight(k) == Pipeline(data)!FirstSight(k)
<1>4. ASSUME NEW j \in Nat, NEW k \in Nat, Sight(j), Sight(k) PROVE j = k
  <2>1. /\ Pipeline(data)!Within(j, 2) /\ \A x \in 0 .. j - 1 : ~Pipeline(data)!Within(x, 2)
        /\ Pipeline(data)!Within(k, 2) /\ \A x \in 0 .. k - 1 : ~Pipeline(data)!Within(x, 2)
    BY <1>4 DEF Pipeline!FirstSight
  <2>2. CASE j < k
    <3>1. j \in 0 .. k - 1
      BY <2>2
    <3>2. QED
      BY <2>1, <3>1
  <2>3. CASE k < j
    <3>1. k \in 0 .. j - 1
      BY <2>3
    <3>2. QED
      BY <2>1, <3>1
  <2>4. QED
    BY <2>2, <2>3
<1>5. ASSUME NEW k \in Kept(data)
      PROVE k \in 0 .. n - 1 /\ (Sight(k) \/ (k > 0 /\ Sight(k - 1)))
  <2>1. k \in 0 .. Runs(data) - 1 /\ Pipeline(data)!Raw(k)
    BY DEF Kept
  <2>2. Sight(k) \/ (k > 0 /\ Sight(k - 1))
    BY <2>1 DEF Pipeline!Raw
  <2>3. QED
    BY <1>1, <2>1, <2>2
<1>6. HIDE DEF Sight
<1>7. PICK f \in Nat : Sight(f) /\ (i = f \/ i = f + 1)
  <2>1. CASE Sight(i)
    <3>1. i \in Nat
      BY <1>2
    <3>2. QED
      BY <2>1, <3>1
  <2>2. CASE i > 0 /\ Sight(i - 1)
    <3>1. i - 1 \in Nat /\ i = (i - 1) + 1
      BY <1>2, <2>2
    <3>2. QED
      BY <2>2, <3>1
  <2>3. QED
    BY <1>2, <1>5, <2>1, <2>2
<1>8. ASSUME NEW k \in Kept(data) PROVE k \in 0 .. n - 1 /\ (k = f \/ k = f + 1)
  <2>1. k \in 0 .. n - 1 /\ (Sight(k) \/ (k > 0 /\ Sight(k - 1)))
    BY <1>5
  <2>2. CASE Sight(k)
    BY <1>4, <1>7, <2>1, <2>2
  <2>3. CASE k > 0 /\ Sight(k - 1)
    <3>1. k - 1 \in Nat
      BY <2>1, <2>3
    <3>2. k - 1 = f
      BY <1>4, <1>7, <2>3, <3>1
    <3>3. QED
      BY <2>1, <3>2
  <2>4. QED
    BY <2>1, <2>2, <2>3
<1>9. CASE f \in Kept(data) /\ f + 1 \in Kept(data)
  <2>1. f \in 0 .. n - 1 /\ f + 1 \in 0 .. n - 1 /\ f <= f + 1
    BY <1>7, <1>8, <1>9
  <2>2. \A k : k \in f .. f + 1 <=> k = f \/ k = f + 1
    BY <1>7
  <2>3. Kept(data) = f .. f + 1
    BY <1>8, <1>9, <2>2
  <2>4. QED
    BY <1>1, <2>1, <2>3
<1>10. CASE f \in Kept(data) /\ f + 1 \notin Kept(data)
  <2>1. f \in 0 .. n - 1 /\ f <= f
    BY <1>7, <1>8, <1>10
  <2>2. \A k : k \in f .. f <=> k = f
    BY <1>7
  <2>3. Kept(data) = f .. f
    BY <1>8, <1>10, <2>2
  <2>4. QED
    BY <1>1, <2>1, <2>3
<1>11. CASE f \notin Kept(data)
  <2>1. i = f + 1
    BY <1>2, <1>7, <1>11
  <2>2. i <= i
    BY <1>2
  <2>3. \A k : k \in i .. i <=> k = i
    BY <1>2
  <2>4. Kept(data) = i .. i
    <3>1. \A k \in Kept(data) : k = i
      BY <1>8, <1>11, <2>1
    <3>2. i \in Kept(data)
      BY <1>2
    <3>3. ASSUME NEW k PROVE k \in Kept(data) <=> k \in i .. i
      <4>1. k \in Kept(data) => k = i
        BY <3>1
      <4>2. k = i => k \in Kept(data)
        BY <3>2
      <4>3. k \in i .. i <=> k = i
        BY <2>3
      <4>4. QED
        BY <4>1, <4>2, <4>3
    <3>4. QED
      BY <3>3
  <2>5. QED
    BY <1>1, <1>2, <2>2, <2>4
<1>12. QED
  BY <1>9, <1>10, <1>11

(* Where a run and the end of a table are.                                 *)
LEMMA RunAt ==
  ASSUME NEW data \in Seq(Sector), NEW kept, NEW off \in Nat, NEW k \in 0 .. Runs(data)
  PROVE  /\ RunList(data, kept, off)[k + 1].off = off + Len(Upto(Parts(data, kept), k))
         /\ RunList(data, kept, off)[k + 1].start = Cut(Len(data), k)
<1>1. PICK runs : runs = RunList(data, kept, off)
  OBVIOUS
<1>2. PICK n \in Nat : n = Runs(data)
  BY PartsType
<1>3. PICK l \in Nat : l = Len(data)
  BY LenProperties
<1>4. /\ \A j \in 1 .. n : runs[j] = TheRun(data, kept, off, j)
      /\ runs[n + 1] = TheEnd(data, kept, off)
  BY <1>1, <1>2, InsertType
<1>5. /\ Cut(l, n) = l /\ \A j \in 0 .. n - 1 : Cut(l, j) = j * RunSectors
  <2>1. n = (l + RunSectors - 1) \div RunSectors
    BY <1>2, <1>3 DEF Runs
  <2>2. QED
    BY <2>1, RunNumbers
<1>6. CASE k = n
  <2>1. runs[k + 1] = TheEnd(data, kept, off)
    BY <1>4, <1>6
  <2>2. (Runs(data) + 1) - 1 = k
    BY <1>2, <1>6
  <2>3. TheEnd(data, kept, off).off = off + Len(Upto(Parts(data, kept), (Runs(data) + 1) - 1))
    BY DEF TheEnd
  <2>4. TheEnd(data, kept, off).start = Len(data)
    BY DEF TheEnd
  <2>5. QED
    BY <1>1, <1>3, <1>5, <1>6, <2>1, <2>2, <2>3, <2>4
<1>7. CASE k # n
  <2>1. PICK j \in 1 .. n : j = k + 1 /\ k = j - 1 /\ k \in 0 .. n - 1
    <3>1. k + 1 \in 1 .. n /\ k = (k + 1) - 1 /\ k \in 0 .. n - 1
      BY <1>2, <1>7
    <3>2. QED
      BY <3>1
  <2>2. runs[j] = TheRun(data, kept, off, j)
    BY <1>4, <2>1
  <2>3. TheRun(data, kept, off, j).off = off + Len(Upto(Parts(data, kept), j - 1))
    BY DEF TheRun
  <2>4. TheRun(data, kept, off, j).start = (j - 1) * RunSectors
    BY DEF TheRun
  <2>5. QED
    BY <1>1, <1>3, <1>5, <2>1, <2>2, <2>3, <2>4
<1>8. QED
  BY <1>6, <1>7

(* An attribution resource.                                                *)
AttributionIs(a) ==
  a = [before |-> a.before, beforeU |-> a.beforeU, rawPos |-> a.rawPos,
       raw |-> a.raw, rawLen |-> a.rawLen, after |-> a.after, afterLen |-> a.afterLen,
       afterU |-> a.afterU, afterULen |-> a.afterULen]

AttributionType(a) ==
  /\ AttributionIs(a)
  /\ a.before \in Seq(Cell) /\ a.raw \in Seq(Sector) /\ a.after \in Seq(Cell)
  /\ a.beforeU \in Seq(Sector) /\ a.afterU \in Seq(Sector)
  /\ a.rawPos = Len(a.before) /\ a.rawLen = Len(a.raw)
  /\ a.afterLen = Len(a.after) /\ a.afterULen = Len(a.afterU)

ForkWith(a, r)   == (a.before \o r) \o a.after
VolumeWithRaw(a, r) == (a.beforeU \o r) \o a.afterU

(* Whatever the raw runs hold, the tables fit.                             *)
Writable(a, list) ==
  \A r \in Seq(Sector) : Len(r) = Len(a.raw) => Tables(ForkWith(a, r), VolumeWithRaw(a, r), list)

Describes(a, fork, data, list) ==
  /\ AttributionType(a) /\ Writable(a, list)
  /\ fork = ForkWith(a, a.raw) /\ data = VolumeWithRaw(a, a.raw)

(* Without raw runs.                                                       *)
LEMMA NoRaw ==
  ASSUME NEW fork \in Seq(Cell), NEW data \in Seq(Sector), NEW ins, NEW off,
         NEW list, Tables(fork, data, list),
         NEW a, a = AttributionOf(fork, data, {}, ins, off)
  PROVE  Describes(a, fork, data, list)
<1>1. PICK e : e = <<>> /\ e \in Seq(Cell) /\ e \in Seq(Sector)
  BY EmptySeq
<1>2. PICK o \in Nat : o = 0 /\ Len(e) = o
  BY <1>1, EmptySeq
<1>3. a = [before |-> fork, beforeU |-> data, rawPos |-> Len(fork), raw |-> e, rawLen |-> o,
           after |-> e, afterLen |-> o, afterU |-> e, afterULen |-> o]
  BY <1>1, <1>2 DEF AttributionOf
<1>4. /\ a.before = fork /\ a.beforeU = data /\ a.rawPos = Len(fork) /\ a.raw = e
      /\ a.rawLen = o /\ a.after = e /\ a.afterLen = o /\ a.afterU = e /\ a.afterULen = o
  BY <1>3
<1>5. AttributionType(a)
  <2>1. AttributionIs(a)
    BY <1>3, <1>4 DEF AttributionIs
  <2>2. QED
    BY <1>1, <1>2, <1>4, <2>1 DEF AttributionType
<1>6. ASSUME NEW r \in Seq(Sector), Len(r) = Len(a.raw)
      PROVE ForkWith(a, r) = fork /\ VolumeWithRaw(a, r) = data
  <2>1. r = e
    <3>1. Len(r) = 0
      BY <1>2, <1>4, <1>6
    <3>2. \A j \in 1 .. Len(r) : r[j] = e[j]
      BY <3>1
    <3>3. QED
      BY <1>1, <1>2, <3>1, <3>2, SeqEqual
  <2>2. fork \o e = fork /\ data \o e = data
    BY <1>1, ConcatEmptySeq
  <2>3. QED
    BY <1>4, <2>1, <2>2 DEF ForkWith, VolumeWithRaw
<1>7. Writable(a, list)
  BY <1>6 DEF Writable
<1>8. a.raw \in Seq(Sector) /\ Len(a.raw) = Len(a.raw)
  BY <1>1, <1>4
<1>9. QED
  BY <1>5, <1>6, <1>7, <1>8 DEF Describes

PatchedSame(x, s, r, t) == Patch(x, s, r, t) = x

LEMMA PatchSame ==
  ASSUME NEW S, NEW x \in Seq(S), NEW s \in Nat, NEW t \in Nat, s <= t, t <= Len(x),
         NEW r, r = SubSeq(x, s + 1, t)
  PROVE  PatchedSame(x, s, r, t)
<1>1. PICK l \in Nat : l = Len(x)
  BY LenProperties
<1>2. t <= l
  BY <1>1
<1>3. r \in Seq(S) /\ Len(r) = t - s /\ \A j \in 1 .. t - s : r[j] = x[s + j]
  BY <1>1, <1>2, SliceIs
<1>4. PICK z : z = Patch(x, s, r, t)
  OBVIOUS
<1>5. z \in Seq(S) /\ PutIn(z, x, r, s, t, l)
  BY <1>1, <1>2, <1>3, <1>4, PatchIs
<1>6. ASSUME NEW j \in 1 .. l PROVE z[j] = x[j]
  <2>1. CASE j <= s
    <3>1. j \in 1 .. s
      BY <2>1
    <3>2. QED
      BY <1>5, <3>1 DEF PutIn
  <2>2. CASE t < j
    <3>1. j \in t + 1 .. l
      BY <2>2
    <3>2. QED
      BY <1>5, <3>1 DEF PutIn
  <2>3. CASE s < j /\ j <= t
    <3>1. j - s \in 1 .. t - s /\ s + (j - s) = j
      BY <2>3
    <3>2. z[s + (j - s)] = r[j - s] /\ r[j - s] = x[s + (j - s)]
      BY <1>3, <1>5, <3>1 DEF PutIn
    <3>3. QED
      BY <3>1, <3>2
  <2>4. QED
    BY <2>1, <2>2, <2>3
<1>7. Len(z) = Len(x)
  BY <1>1, <1>5 DEF PutIn
<1>8. z = x
  BY <1>1, <1>5, <1>6, <1>7, SeqEqual
<1>9. QED
  BY <1>4, <1>8 DEF PatchedSame

LEMMA FirstAndLast ==
  ASSUME NEW lo \in Nat, NEW hi \in Nat, lo <= hi, NEW kept, kept = lo .. hi
  PROVE  FirstKept(kept) = lo /\ LastKept(kept) = hi /\ kept # {}
<1>1. PICK K : K = lo .. hi
  OBVIOUS
<1>2. K \subseteq Nat /\ K # {} /\ lo \in K /\ hi \in K /\ \A y \in K : lo <= y /\ y <= hi
  <2>1. lo \in K /\ hi \in K
    BY <1>1
  <2>2. \A y \in K : y \in Nat /\ lo <= y /\ y <= hi
    BY <1>1
  <2>3. QED
    BY <2>1, <2>2
<1>3. Min(K) \in K /\ \A y \in K : Min(K) <= y
  BY <1>2, MinIs
<1>4. Max(K) \in K /\ \A y \in K : Max(K) >= y
  BY <1>2, MaxIs
<1>5. Min(K) = lo
  <2>1. PICK m \in K : m = Min(K)
    BY <1>3
  <2>2. m <= lo /\ lo <= m /\ m \in Nat
    BY <1>2, <1>3, <2>1
  <2>3. m = lo
    BY <2>2
  <2>4. QED
    BY <2>1, <2>3
<1>6. Max(K) = hi
  <2>1. PICK m \in K : m = Max(K)
    BY <1>4
  <2>2. m <= hi /\ hi <= m /\ m \in Nat
    BY <1>2, <1>4, <2>1
  <2>3. m = hi
    BY <2>2
  <2>4. QED
    BY <2>1, <2>3
<1>7. QED
  BY <1>1, <1>2, <1>5, <1>6 DEF FirstKept, LastKept

Attribution(fork, data, cells, off, p, q, s, t) ==
  [before |-> SubSeq(fork, 1, off + p), beforeU |-> SubSeq(data, 1, s),
   rawPos |-> off + p, raw |-> SubSeq(cells, p + 1, q), rawLen |-> q - p,
   after |-> SubSeq(cells, q + 1, Len(cells)),
   afterLen |-> Len(SubSeq(cells, q + 1, Len(cells))),
   afterU |-> SubSeq(data, t + 1, Len(data)),
   afterULen |-> Len(SubSeq(data, t + 1, Len(data)))]

RawAttribution(a, fork, data, cells, kept, off, lo, hi) ==
  \E p, q, s, t : /\ RawPiece(data, kept, lo, hi + 1, p, q, s, t)
                  /\ a = Attribution(fork, data, cells, off, p, q, s, t)

LEMMA AttributionRaw ==
  ASSUME NEW pre \in Seq(Cell), NEW data \in Seq(Sector), NEW kept,
         NEW lo \in Nat, NEW hi \in Nat, lo <= hi, hi + 1 <= Runs(data), kept = lo .. hi,
         NEW cells \in Seq(Cell), cells = FlattenSeq(Parts(data, kept)),
         NEW first, NEW off \in Nat, off = Len(pre),
         NEW ins, ins = Insert(data, first, off, kept),
         NEW fork, fork = pre \o cells,
         NEW a, a = AttributionOf(fork, data, kept, ins, off)
  PROVE  RawAttribution(a, fork, data, cells, kept, off, lo, hi)
<1>1. PICK e : e = Parts(data, kept)
  OBVIOUS
<1>2. PICK p : p = Len(Upto(e, lo))
  OBVIOUS
<1>3. PICK q : q = Len(Upto(e, hi + 1))
  OBVIOUS
<1>4. PICK s : s = Cut(Len(data), lo)
  OBVIOUS
<1>5. PICK t : t = Cut(Len(data), hi + 1)
  OBVIOUS
<1>6. RawPiece(data, kept, lo, hi + 1, p, q, s, t)
  <2>1. hi + 1 \in Nat /\ lo <= hi + 1 /\ \A k \in lo .. (hi + 1) - 1 : k \in lo .. hi
    OBVIOUS
  <2>2. AllKept(kept, lo, hi + 1)
    BY <2>1 DEF AllKept
  <2>3. QED
    BY <1>1, <1>2, <1>3, <1>4, <1>5, <2>1, <2>2 DEF RawPiece
<1>7. p \in Nat /\ q \in Nat
  BY <1>6, RawPieceIs
<1>8. PICK runs : runs = RunList(data, kept, off)
  OBVIOUS
<1>9. ins.cells = cells /\ ins.table.runs = runs
  <2>1. ins = [cells |-> cells,
               table |-> [first |-> first, count |-> Len(data), sum |-> data, runs |-> runs]]
    BY <1>8, InsertIs
  <2>2. QED
    BY <2>1
<1>10. runs[lo + 1].off = off + p /\ runs[lo + 1].start = s
  <2>1. lo \in 0 .. Runs(data)
    BY PartsType
  <2>2. QED
    BY <1>1, <1>2, <1>4, <1>8, <2>1, RunAt
<1>11. runs[hi + 2].off = off + q /\ runs[hi + 2].start = t
  <2>1. PICK k : k = hi + 1
    OBVIOUS
  <2>2. k \in 0 .. Runs(data) /\ k + 1 = hi + 2
    BY <2>1, PartsType
  <2>3. runs[k + 1].off = off + Len(Upto(Parts(data, kept), k))
        /\ runs[k + 1].start = Cut(Len(data), k)
    BY <1>8, <2>2, RunAt
  <2>4. QED
    BY <1>1, <1>3, <1>5, <2>1, <2>2, <2>3
<1>12. FirstKept(kept) = lo /\ LastKept(kept) = hi /\ kept # {}
  BY FirstAndLast
<1>13. (off + p) - off = p /\ (off + q) - off = q
  BY <1>7
<1>14. a = Attribution(fork, data, cells, off, p, q, s, t)
  <2>1. /\ ins.table.runs[FirstKept(kept) + 1].off - off = p
        /\ ins.table.runs[LastKept(kept) + 2].off - off = q
        /\ ins.table.runs[FirstKept(kept) + 1].start = s
        /\ ins.table.runs[LastKept(kept) + 2].start = t
    BY <1>9, <1>10, <1>11, <1>12, <1>13, Zenon
  <2>2. AttributionOf(fork, data, kept, ins, off) =
          Attribution(fork, data, ins.cells, off,
                      ins.table.runs[FirstKept(kept) + 1].off - off,
                      ins.table.runs[LastKept(kept) + 2].off - off,
                      ins.table.runs[FirstKept(kept) + 1].start,
                      ins.table.runs[LastKept(kept) + 2].start)
    BY <1>12, Zenon DEF AttributionOf, Attribution
  <2>3. QED
    BY <1>9, <2>1, <2>2, Zenon
<1>15. QED
  BY ONLY <1>6, <1>14 DEF RawAttribution

LEMMA JoinStarts ==
  ASSUME NEW S, NEW pre \in Seq(S), NEW cells \in Seq(S), NEW fork, fork = pre \o cells
  PROVE  fork \in Seq(S) /\ Starts(fork, pre) /\ Starts(fork, pre \o cells)
<1>1. PICK m \in Nat : m = Len(pre)
  BY LenProperties
<1>2. PICK n \in Nat : n = Len(cells)
  BY LenProperties
<1>3. fork \in Seq(S) /\ Joins(fork, pre, cells, m, n)
  BY <1>1, <1>2, JoinIs
<1>4. m <= m + n
  OBVIOUS
<1>5. Starts(fork, pre)
  BY <1>1, <1>3, <1>4 DEF Starts, Joins
<1>6. Starts(fork, fork)
  <2>1. PICK l \in Nat : l = Len(fork)
    BY <1>3, LenProperties
  <2>2. l <= l
    OBVIOUS
  <2>3. QED
    BY <2>1, <2>2 DEF Starts
<1>7. QED
  BY <1>3, <1>5, <1>6

(* A prefix that ends in the second of two pieces.                         *)
LEMMA JoinPrefix ==
  ASSUME NEW S, NEW pre \in Seq(S), NEW cells \in Seq(S), NEW fork, fork = pre \o cells,
         NEW off \in Nat, off = Len(pre), NEW p \in Nat, p <= Len(cells)
  PROVE  SubSeq(fork, 1, off + p) = pre \o SubSeq(cells, 1, p)
<1>1. PICK n \in Nat : n = Len(cells)
  BY LenProperties
<1>2. fork \in Seq(S) /\ Joins(fork, pre, cells, off, n)
  BY <1>1, JoinIs
<1>3. PICK l \in Nat : l = Len(fork) /\ l = off + n
  BY <1>1, <1>2 DEF Joins
<1>4. PICK o \in Nat : o = 0 /\ o + 1 = 1
  OBVIOUS
<1>5. PICK c : c = SubSeq(cells, o + 1, p)
  OBVIOUS
<1>6. c \in Seq(S) /\ Len(c) = p /\ \A j \in 1 .. p : c[j] = cells[j]
  <2>1. o <= p /\ p <= n
    BY <1>1, <1>4
  <2>2. c \in Seq(S) /\ Len(c) = p - o /\ \A j \in 1 .. p - o : c[j] = cells[o + j]
    BY <1>1, <1>4, <1>5, <2>1, SliceIs
  <2>3. p - o = p /\ \A j \in 1 .. p : o + j = j
    BY <1>4
  <2>4. QED
    BY <2>2, <2>3
<1>7. PICK q \in Nat : q = off + p /\ q <= l
  BY <1>1, <1>3
<1>8. PICK u : u = SubSeq(fork, o + 1, q)
  OBVIOUS
<1>9. u \in Seq(S) /\ Len(u) = q /\ \A j \in 1 .. q : u[j] = fork[j]
  <2>1. o <= q
    BY <1>4
  <2>2. u \in Seq(S) /\ Len(u) = q - o /\ \A j \in 1 .. q - o : u[j] = fork[o + j]
    BY <1>2, <1>3, <1>4, <1>7, <1>8, <2>1, SliceIs
  <2>3. q - o = q /\ \A j \in 1 .. q : o + j = j
    BY <1>4
  <2>4. QED
    BY <2>2, <2>3
<1>10. PICK v : v = pre \o c
  OBVIOUS
<1>11. v \in Seq(S) /\ Joins(v, pre, c, off, p)
  BY <1>6, <1>10, JoinIs
<1>12. ASSUME NEW j \in 1 .. q PROVE u[j] = v[j]
  <2>1. CASE j <= off
    <3>1. j \in 1 .. off
      BY <2>1
    <3>2. QED
      BY <1>2, <1>9, <1>11, <1>12, <3>1 DEF Joins
  <2>2. CASE ~(j <= off)
    <3>1. PICK k \in 1 .. p : off + k = j
      <4>1. j - off \in 1 .. p /\ off + (j - off) = j
        BY <1>7, <2>2
      <4>2. QED
        BY <4>1
    <3>2. k \in 1 .. n
      BY <1>1
    <3>3. u[j] = cells[k]
      BY <1>2, <1>9, <1>12, <3>1, <3>2 DEF Joins
    <3>4. v[j] = c[k]
      BY <1>11, <3>1 DEF Joins
    <3>5. QED
      BY <1>6, <3>1, <3>3, <3>4
  <2>3. QED
    BY <2>1, <2>2
<1>13. Len(u) = Len(v)
  BY <1>7, <1>9, <1>11 DEF Joins
<1>14. u = v
  BY <1>9, <1>11, <1>12, <1>13, SeqEqual
<1>15. QED
  BY <1>4, <1>5, <1>7, <1>8, <1>10, <1>14

(* Data of that many sectors, written over the raw runs.                   *)
LEMMA TableHas ==
  ASSUME NEW pre \in Seq(Cell), NEW data \in Seq(Sector), NEW kept,
         NEW a, NEW b, NEW p, NEW q, NEW s, NEW t,
         RawPiece(data, kept, a, b, p, q, s, t),
         NEW r \in Seq(Sector), Len(r) = t - s, NEW d, d = Patch(data, s, r, t),
         NEW cells, cells = Patch(FlattenSeq(Parts(data, kept)), p, r, q),
         NEW fork, fork = pre \o cells,
         NEW first \in Nat, NEW id \in Id, NEW name \in Name,
         NEW e, e = TableOf(data, first, id, name, kept, Len(pre))
  PROVE  fork \in Seq(Cell) /\ Starts(fork, pre) /\ HasData(fork, e, d)
<1>1. PICK off \in Nat : off = Len(pre)
  BY LenProperties
<1>2. /\ d \in Seq(Sector)
      /\ RunList(d, kept, off) = RunList(data, kept, off)
      /\ FlattenSeq(Parts(d, kept)) = cells
  BY Patched
<1>3. PICK runs : runs = RunList(d, kept, Len(pre))
  OBVIOUS
<1>4. cells \in Seq(Cell)
  BY <1>1, <1>2, InsertType
<1>5. /\ fork \in Seq(Cell) /\ Starts(fork, pre)
      /\ runs \in Seq(RunType) /\ Fits(fork, runs)
      /\ FlattenSeq(Expands(fork, runs)) = d /\ FlattenSeq(Feeds(fork, runs)) = d
  <2>1. cells = FlattenSeq(Parts(d, kept)) /\ d \in Seq(Sector)
    BY <1>2
  <2>2. d \in Seq(Sector)
    BY <2>1
  <2>3. QED
    <3>1. fork \in Seq(Cell) /\ Starts(fork, pre) /\ Starts(fork, pre \o cells)
      BY <1>4, JoinStarts
    <3>2. Starts(fork, pre \o FlattenSeq(Parts(d, kept)))
      BY <2>1, <3>1
    <3>3. fork \in Seq(Cell)
      BY <3>1
    <3>4. /\ runs \in Seq(RunType) /\ Fits(fork, runs)
          /\ FlattenSeq(Expands(fork, runs)) = d /\ FlattenSeq(Feeds(fork, runs)) = d
      BY ONLY <1>3, <2>2, <3>2, <3>3, Inserted, pre \in Seq(Cell)
    <3>5. QED
      BY <3>1, <3>4
<1>6. PICK n \in Nat : n = Len(data)
  BY LenProperties
<1>7. e = [id |-> id, name |-> name, first |-> first, count |-> n, sum |-> data, runs |-> runs]
  BY <1>1, <1>2, <1>3, <1>6 DEF TableOf
<1>8. e \in TableType /\ e.runs = runs /\ e.count = n
  BY <1>5, <1>7 DEF TableType
<1>9. n = Len(d)
  <2>1. s \in Nat /\ t \in Nat /\ s <= t /\ t <= n
    BY <1>6, RawPieceIs
  <2>2. r \in Seq(Sector) /\ Len(r) = t - s
    OBVIOUS
  <2>3. PutIn(Patch(data, s, r, t), data, r, s, t, n)
    BY <1>6, <2>1, <2>2, PatchIs
  <2>4. QED
    BY <2>3 DEF PutIn
<1>10. QED
  BY <1>5, <1>8, <1>9 DEF HasData

Regrouped(pre, x, r, y) == ((pre \o x) \o r) \o y = pre \o ((x \o r) \o y)

LEMMA Regroup ==
  ASSUME NEW S, NEW pre \in Seq(S), NEW x \in Seq(S), NEW r \in Seq(S), NEW y \in Seq(S)
  PROVE  Regrouped(pre, x, r, y)
<1>1. (pre \o x) \o r = pre \o (x \o r)
  BY ConcatAssociative
<1>2. PICK z \in Seq(S) : z = x \o r
  BY ConcatProperties
<1>3. (pre \o z) \o y = pre \o (z \o y)
  BY ConcatAssociative
<1>4. QED
  BY <1>1, <1>2, <1>3 DEF Regrouped

(* What is in place is what the data has there.                            *)
SliceOf(x, data, s, t) == x = SubSeq(data, s + 1, t)

LEMMA RawIsData ==
  ASSUME NEW cells \in Seq(Cell), NEW data \in Seq(Sector),
         NEW p \in Nat, NEW q \in Nat, NEW s \in Nat, NEW t \in Nat,
         p <= q, s <= t, q - p = t - s, q <= Len(cells), t <= Len(data),
         InPlace(cells, data, p, s, t), NEW x, x = SubSeq(cells, p + 1, q)
  PROVE  SliceOf(x, data, s, t)
<1>1. x = SubSeq(cells, p + 1, q)
  OBVIOUS
<1>2. PICK l \in Nat : l = Len(cells)
  BY LenProperties
<1>3. x \in Seq(Cell) /\ Len(x) = q - p /\ \A j \in 1 .. q - p : x[j] = cells[p + j]
  BY ONLY <1>1, <1>2, p \in Nat, q \in Nat, p <= q, q <= Len(cells), cells \in Seq(Cell), SliceIs
<1>4. PICK y : y = SubSeq(data, s + 1, t)
  OBVIOUS
<1>5. PICK m \in Nat : m = Len(data)
  BY LenProperties
<1>6. y \in Seq(Sector) /\ Len(y) = t - s /\ \A j \in 1 .. t - s : y[j] = data[s + j]
  BY <1>4, <1>5, SliceIs
<1>7. Sector \subseteq Cell
  BY DEF Cell
<1>8. y \in Seq(Cell)
  BY <1>6, <1>7, SeqMonotonic
<1>9. PICK n \in Nat : n = t - s
  OBVIOUS
<1>10. Len(x) = n /\ Len(y) = n /\ q - p = n
  BY <1>3, <1>6, <1>9
<1>11. \A j \in 1 .. n : x[j] = y[j]
  BY <1>3, <1>6, <1>9, <1>10 DEF InPlace
<1>12. x = y
  BY <1>3, <1>8, <1>10, <1>11, SeqEqual
<1>13. QED
  BY <1>4, <1>12 DEF SliceOf

(* What an attribution resource with raw runs says.                        *)
Says(a, pre, cells, data, p, q, s, t) ==
  /\ AttributionIs(a)
  /\ a.before = pre \o SubSeq(cells, 1, p) /\ a.raw = SubSeq(cells, p + 1, q)
  /\ a.after = SubSeq(cells, q + 1, Len(cells))
  /\ a.beforeU = SubSeq(data, 1, s) /\ a.afterU = SubSeq(data, t + 1, Len(data))
  /\ a.rawPos = Len(pre) + p /\ a.rawLen = q - p
  /\ a.afterLen = Len(a.after) /\ a.afterULen = Len(a.afterU)

LEMMA AttributionSays ==
  ASSUME NEW pre \in Seq(Cell), NEW cells \in Seq(Cell), NEW data,
         NEW off \in Nat, off = Len(pre), NEW fork, fork = pre \o cells,
         NEW p \in Nat, NEW q, NEW s, NEW t, p <= Len(cells),
         NEW a, a = Attribution(fork, data, cells, off, p, q, s, t)
  PROVE  Says(a, pre, cells, data, p, q, s, t)
<1>1. SubSeq(fork, 1, off + p) = pre \o SubSeq(cells, 1, p)
  BY JoinPrefix
<1>2. PICK b : b = pre \o SubSeq(cells, 1, p)
  OBVIOUS
<1>3. PICK bU : bU = SubSeq(data, 1, s)
  OBVIOUS
<1>4. PICK raw : raw = SubSeq(cells, p + 1, q)
  OBVIOUS
<1>5. PICK after : after = SubSeq(cells, q + 1, Len(cells))
  OBVIOUS
<1>6. PICK afterU : afterU = SubSeq(data, t + 1, Len(data))
  OBVIOUS
<1>7. a = [before |-> b, beforeU |-> bU, rawPos |-> off + p, raw |-> raw, rawLen |-> q - p,
           after |-> after, afterLen |-> Len(after), afterU |-> afterU,
           afterULen |-> Len(afterU)]
  BY ONLY <1>1, <1>2, <1>3, <1>4, <1>5, <1>6,
          a = Attribution(fork, data, cells, off, p, q, s, t) DEF Attribution
<1>8. /\ a.before = b /\ a.beforeU = bU /\ a.rawPos = off + p /\ a.raw = raw
      /\ a.rawLen = q - p /\ a.after = after /\ a.afterLen = Len(after)
      /\ a.afterU = afterU /\ a.afterULen = Len(afterU)
  BY ONLY <1>7
<1>9. AttributionIs(a)
  BY ONLY <1>7, <1>8 DEF AttributionIs
<1>10. a.rawPos = Len(pre) + p
  BY <1>8
<1>11. QED
  BY ONLY <1>2, <1>3, <1>4, <1>5, <1>6, <1>8, <1>9, <1>10 DEF Says

Suits(a, pre, cells, data, p, q, s, t) ==
  /\ AttributionType(a) /\ Len(a.raw) = t - s
  /\ pre \o cells = ForkWith(a, a.raw) /\ data = VolumeWithRaw(a, a.raw)
  /\ \A r \in Seq(Sector) : Len(r) = Len(a.raw) =>
       /\ ForkWith(a, r) = pre \o Patch(cells, p, r, q)
       /\ VolumeWithRaw(a, r) = Patch(data, s, r, t)

LEMMA SaysType ==
  ASSUME NEW pre \in Seq(Cell), NEW cells \in Seq(Cell), NEW data \in Seq(Sector),
         NEW p \in Nat, NEW q \in Nat, NEW s \in Nat, NEW t \in Nat,
         p <= q, s <= t, q - p = t - s, q <= Len(cells), t <= Len(data),
         InPlace(cells, data, p, s, t),
         NEW a, Says(a, pre, cells, data, p, q, s, t)
  PROVE  Suits(a, pre, cells, data, p, q, s, t)
<1>1. PICK l \in Nat : l = Len(cells)
  BY LenProperties
<1>2. PICK m \in Nat : m = Len(data)
  BY LenProperties
<1>3. PICK x : x = SubSeq(cells, 1, p)
  OBVIOUS
<1>4. x \in Seq(Cell) /\ Len(x) = p
  <2>1. PICK o \in Nat : o = 0 /\ o + 1 = 1 /\ o <= p /\ p <= l /\ p - o = p
    BY <1>1
  <2>2. x = SubSeq(cells, o + 1, p)
    BY <1>3, <2>1
  <2>3. x \in Seq(Cell) /\ Len(x) = p - o
    BY <1>1, <2>1, <2>2, SliceIs
  <2>4. QED
    BY <2>1, <2>3
<1>5. PICK y : y = SubSeq(cells, q + 1, l)
  OBVIOUS
<1>6. y \in Seq(Cell)
  <2>1. l <= l /\ q <= l
    BY <1>1
  <2>2. QED
    BY <1>1, <1>5, <2>1, SliceIs
<1>7. PICK xU : xU = SubSeq(data, 1, s)
  OBVIOUS
<1>8. xU \in Seq(Sector)
  <2>1. PICK o \in Nat : o = 0 /\ o + 1 = 1 /\ o <= s /\ s <= m
    BY <1>2
  <2>2. xU = SubSeq(data, o + 1, s)
    BY <1>7, <2>1
  <2>3. QED
    BY <1>2, <2>1, <2>2, SliceIs
<1>9. PICK yU : yU = SubSeq(data, t + 1, m)
  OBVIOUS
<1>10. yU \in Seq(Sector)
  <2>1. m <= m /\ t <= m
    BY <1>2
  <2>2. QED
    BY <1>2, <1>9, <2>1, SliceIs
<1>11. PICK raw : raw = SubSeq(cells, p + 1, q)
  OBVIOUS
<1>12. raw = SubSeq(data, s + 1, t)
  <2>1. SliceOf(raw, data, s, t)
    BY <1>11, RawIsData
  <2>2. QED
    BY <2>1 DEF SliceOf
<1>13. raw \in Seq(Sector) /\ Len(raw) = t - s /\ Patch(data, s, raw, t) = data
  <2>1. raw \in Seq(Sector) /\ Len(raw) = t - s
    BY <1>2, <1>12, SliceIs
  <2>2. PatchedSame(data, s, raw, t)
    BY <1>12, PatchSame
  <2>3. QED
    BY <2>1, <2>2 DEF PatchedSame
<1>14. Patch(cells, p, raw, q) = cells
  BY <1>11, PatchSame DEF PatchedSame
<1>15. PICK b : b = pre \o x
  OBVIOUS
<1>16. b \in Seq(Cell) /\ Len(b) = Len(pre) + p
  BY ONLY <1>4, <1>15, ConcatProperties, pre \in Seq(Cell)
<1>17. /\ AttributionIs(a) /\ a.before = b /\ a.raw = raw /\ a.after = y
       /\ a.beforeU = xU /\ a.afterU = yU
       /\ a.rawPos = Len(pre) + p /\ a.rawLen = q - p
       /\ a.afterLen = Len(a.after) /\ a.afterULen = Len(a.afterU)
  BY ONLY <1>1, <1>2, <1>3, <1>5, <1>7, <1>9, <1>11, <1>15,
          Says(a, pre, cells, data, p, q, s, t) DEF Says
<1>18. a.rawLen = Len(a.raw) /\ a.rawPos = Len(a.before)
  BY <1>13, <1>16, <1>17
<1>19. AttributionType(a)
  BY <1>6, <1>8, <1>10, <1>13, <1>16, <1>17, <1>18 DEF AttributionType
<1>20. ASSUME NEW r \in Seq(Sector)
       PROVE  /\ ForkWith(a, r) = pre \o Patch(cells, p, r, q)
              /\ VolumeWithRaw(a, r) = Patch(data, s, r, t)
  <2>1. r \in Seq(Cell)
    <3>1. Sector \subseteq Cell
      BY DEF Cell
    <3>2. QED
      BY <3>1, SeqMonotonic
  <2>2. ForkWith(a, r) = ((pre \o x) \o r) \o y
    BY ONLY <1>15, <1>17 DEF ForkWith
  <2>3. ((pre \o x) \o r) \o y = pre \o ((x \o r) \o y)
    <3>1. Regrouped(pre, x, r, y)
      BY <1>4, <1>6, <2>1, Regroup
    <3>2. QED
      BY ONLY <3>1 DEF Regrouped
  <2>4. Patch(cells, p, r, q) = (x \o r) \o y
    BY ONLY <1>1, <1>3, <1>5 DEF Patch
  <2>5. Patch(data, s, r, t) = (xU \o r) \o yU
    BY ONLY <1>2, <1>7, <1>9 DEF Patch
  <2>6. VolumeWithRaw(a, r) = (xU \o r) \o yU
    BY ONLY <1>17 DEF VolumeWithRaw
  <2>7. QED
    BY ONLY <2>2, <2>3, <2>4, <2>5, <2>6
<1>21. ForkWith(a, a.raw) = pre \o cells /\ VolumeWithRaw(a, a.raw) = data
  BY <1>13, <1>14, <1>17, <1>20
<1>22. QED
  BY <1>13, <1>17, <1>19, <1>20, <1>21 DEF Suits

(* With raw runs.                                                          *)
LEMMA SomeRaw ==
  ASSUME NEW pre \in Seq(Cell), NEW data \in Seq(Sector), NEW kept,
         NEW lo \in Nat, NEW hi \in Nat, lo <= hi, hi + 1 <= Runs(data), kept = lo .. hi,
         NEW cells \in Seq(Cell), cells = FlattenSeq(Parts(data, kept)),
         NEW first \in Nat, NEW id \in Id, NEW name \in Name, name \in HFSNames,
         NEW off \in Nat, off = Len(pre),
         NEW ins, ins = Insert(data, first, off, kept),
         NEW fork, fork = pre \o cells,
         NEW list, AllSound(pre, list), Plain(list),
         NEW e, e = TableOf(data, first, id, name, kept, Len(pre)),
         NEW a, a = AttributionOf(fork, data, kept, ins, off)
  PROVE  Describes(a, fork, data, InsertData(list, e))
<1>1. RawAttribution(a, fork, data, cells, kept, off, lo, hi)
  BY AttributionRaw
<1>2. PICK p, q, s, t : /\ RawPiece(data, kept, lo, hi + 1, p, q, s, t)
                        /\ a = Attribution(fork, data, cells, off, p, q, s, t)
  BY ONLY <1>1 DEF RawAttribution
<1>3. /\ p \in Nat /\ q \in Nat /\ s \in Nat /\ t \in Nat
      /\ p <= q /\ s <= t /\ q - p = t - s /\ t <= Len(data)
  BY <1>2, RawPieceIs
<1>4. /\ q <= Len(FlattenSeq(Parts(data, kept)))
      /\ InPlace(FlattenSeq(Parts(data, kept)), data, p, s, t)
  BY <1>2, RawPieceIs
<1>5. q <= Len(cells) /\ InPlace(cells, data, p, s, t)
  BY <1>4
<1>6. p <= Len(cells)
  <2>1. PICK l \in Nat : l = Len(cells)
    BY LenProperties
  <2>2. QED
    BY <1>3, <1>5, <2>1
<1>7. Says(a, pre, cells, data, p, q, s, t)
  BY ONLY <1>2, <1>3, <1>6, AttributionSays, pre \in Seq(Cell), cells \in Seq(Cell),
          off \in Nat, off = Len(pre), fork = pre \o cells
<1>8. Suits(a, pre, cells, data, p, q, s, t)
  BY ONLY <1>3, <1>5, <1>7, SaysType, pre \in Seq(Cell), cells \in Seq(Cell),
          data \in Seq(Sector)
<1>9. /\ AttributionType(a) /\ Len(a.raw) = t - s
      /\ pre \o cells = ForkWith(a, a.raw) /\ data = VolumeWithRaw(a, a.raw)
  BY ONLY <1>8 DEF Suits
<1>10. PICK new : new = InsertData(list, e)
  OBVIOUS
<1>11. ASSUME NEW r \in Seq(Sector), Len(r) = Len(a.raw)
       PROVE  Tables(ForkWith(a, r), VolumeWithRaw(a, r), new)
  <2>1. PICK d : d = Patch(data, s, r, t)
    OBVIOUS
  <2>2. PICK c : c = Patch(FlattenSeq(Parts(data, kept)), p, r, q)
    OBVIOUS
  <2>3. PICK f : f = pre \o c
    OBVIOUS
  <2>4. Len(r) = t - s
    BY <1>9, <1>11
  <2>5. f \in Seq(Cell) /\ Starts(f, pre) /\ HasData(f, e, d)
    BY ONLY <1>2, <2>1, <2>2, <2>3, <2>4, TableHas, pre \in Seq(Cell), data \in Seq(Sector),
            r \in Seq(Sector), first \in Nat, id \in Id, name \in Name,
            e = TableOf(data, first, id, name, kept, Len(pre))
  <2>6. e.name \in HFSNames
    <3>1. e.name = name
      BY DEF TableOf
    <3>2. QED
      BY <3>1
  <2>7. Tables(f, d, new)
    BY ONLY <1>10, <2>5, <2>6, TablesMain, pre \in Seq(Cell), AllSound(pre, list), Plain(list)
  <2>8. ForkWith(a, r) = pre \o Patch(cells, p, r, q) /\ VolumeWithRaw(a, r) = d
    BY ONLY <1>8, <1>11, <2>1 DEF Suits
  <2>9. f = pre \o Patch(cells, p, r, q)
    BY ONLY <2>2, <2>3, cells = FlattenSeq(Parts(data, kept))
  <2>10. QED
    BY ONLY <2>7, <2>8, <2>9
<1>12. Writable(a, new)
  BY ONLY <1>11 DEF Writable
<1>13. fork = ForkWith(a, a.raw)
  BY ONLY <1>9, fork = pre \o cells
<1>14. QED
  BY ONLY <1>9, <1>10, <1>12, <1>13 DEF Describes

(* The attribution resource that an insertion makes.                       *)
LEMMA InsertionDescribes ==
  ASSUME NEW pre \in Seq(Cell), NEW data \in Seq(Sector), NEW kept, kept = Kept(data),
         NEW first \in Nat, NEW id \in Id, NEW name \in Name, name \in HFSNames,
         NEW off \in Nat, off = Len(pre),
         NEW ins, ins = Insert(data, first, off, kept),
         NEW fork \in Seq(Cell), fork = pre \o FlattenSeq(Parts(data, kept)),
         NEW list, AllSound(pre, list), Plain(list),
         NEW e, e = TableOf(data, first, id, name, kept, Len(pre)),
         Tables(fork, data, InsertData(list, e)),
         NEW a, a = AttributionOf(fork, data, kept, ins, off)
  PROVE  Describes(a, fork, data, InsertData(list, e))
<1>1. PICK new : new = InsertData(list, e)
  OBVIOUS
<1>2. Tables(fork, data, new)
  BY <1>1
<1>3. CASE kept = {}
  <2>1. a = AttributionOf(fork, data, {}, ins, off)
    BY ONLY <1>3, a = AttributionOf(fork, data, kept, ins, off)
  <2>2. Describes(a, fork, data, new)
    BY ONLY <1>2, <2>1, NoRaw, fork \in Seq(Cell), data \in Seq(Sector)
  <2>3. QED
    BY <1>1, <2>2
<1>4. CASE kept # {}
  <2>1. Kept(data) # {}
    BY <1>4
  <2>2. PICK lo \in 0 .. Runs(data) - 1, hi \in 0 .. Runs(data) - 1 :
           lo <= hi /\ Kept(data) = lo .. hi
    BY <2>1, KeptIs
  <2>3. Runs(data) \in Nat
    BY PartsType
  <2>4. lo \in Nat /\ hi \in Nat /\ lo <= hi /\ hi + 1 <= Runs(data)
    BY <2>2, <2>3
  <2>5. kept = lo .. hi
    BY <2>2
  <2>6. PICK cells \in Seq(Cell) : cells = FlattenSeq(Parts(data, kept))
    <3>1. PICK runs : runs = RunList(data, kept, off)
      OBVIOUS
    <3>2. QED
      BY <3>1, InsertType
  <2>7. fork = pre \o cells
    BY ONLY <2>6, fork = pre \o FlattenSeq(Parts(data, kept))
  <2>8. QED
    BY ONLY <2>4, <2>5, <2>6, <2>7, SomeRaw,
       pre \in Seq(Cell), data \in Seq(Sector), first \in Nat, id \in Id, name \in Name,
       name \in HFSNames, off \in Nat, off = Len(pre),
       ins = Insert(data, first, off, kept), AllSound(pre, list), Plain(list),
       e = TableOf(data, first, id, name, kept, Len(pre)),
       a = AttributionOf(fork, data, kept, ins, off)
<1>5. QED
  BY <1>3, <1>4

-----------------------------------------------------------------------------
(* The image has the volume, and the attribution resource describes it.    *)
Attributed(i, data) ==
  \/ i.plst = <<>>
  \/ \E a : i.plst = <<a>> /\ Describes(a, i.fork, data, i.blkx)

Main(i, data) ==
  /\ Work(i) /\ Tables(i.fork, data, i.blkx) /\ Attributed(i, data)
  /\ Under(i.blkx, i.pNum)

(* The next ID is not that of the volume.                                  *)
Fresh(i) == \A k \in 1 .. Len(i.blkx) : i.blkx[k].name \in HFSNames => i.blkx[k].id # i.pNum

WithResource(i, p, plst) == [i EXCEPT !.pNum = p, !.plst = plst]

LEMMA WithResourceIs ==
  ASSUME NEW i, Work(i), NEW p \in Id, NEW plst, NEW j, j = WithResource(i, p, plst)
  PROVE  /\ Work(j) /\ j.fork = i.fork /\ j.blkx = i.blkx /\ j.pNum = p /\ j.plst = plst
<1>1. PICK x : x = Numbered(i, p)
  OBVIOUS
<1>2. /\ Work(x) /\ x.fork = i.fork /\ x.blkx = i.blkx /\ x.pNum = p
  BY <1>1, WorkNumbered
<1>3. j = [x EXCEPT !.plst = plst]
  BY <1>1, Zenon DEF WithResource, Numbered
<1>4. ImageIs(x)
  BY <1>2 DEF Work
<1>5. j = Image(x.fork, x.sum, x.blkx, x.cSum, x.nsiz, x.pNum, plst, x.koly)
  BY ONLY <1>3, <1>4 DEF ImageIs, Image
<1>6. /\ ImageIs(j) /\ j.fork = x.fork /\ j.sum = x.sum /\ j.blkx = x.blkx
      /\ j.pNum = x.pNum /\ j.plst = plst /\ j.koly = x.koly
  BY ONLY <1>5, ImageFields
<1>7. Work(j)
  BY ONLY <1>2, <1>6 DEF Work
<1>8. QED
  BY ONLY <1>2, <1>6, <1>7

(* Any table of a volume is the new one.                                   *)
LEMMA MainIsLast ==
  ASSUME NEW list \in Seq(TableType), Plain(list), NEW e \in TableType,
         NEW new, new = InsertData(list, e)
  PROVE  \A k \in 1 .. Len(new) : new[k].name \in HFSNames => new[k].id = e.id
<1>1. PICK p : Listing(list, e, InsertData(list, e), p)
  BY InsertDataIs
<1>2. Listing(list, e, new, p)
  BY <1>1
<1>3. QED
  BY ONLY <1>2, Plain(list) DEF Listing, Plain

LEMMA WithMainMain ==
  ASSUME NEW i, Prelude(i), NEW volume, NEW sentinel \in BOOLEAN,
         NEW data \in Seq(Sector), data = SubSeq(volume, 1, SectorsIn(volume)),
         NEW j, j = WithMain(i, volume, sentinel)
  PROVE  Main(j, data) /\ Fresh(j) /\ (~sentinel => j.plst = <<>>)
<1>1. PICK kept : kept = IF sentinel THEN Kept(data) ELSE {}
  OBVIOUS
<1>2. PICK pre \in Seq(Cell) : pre = i.fork
  BY DEF Prelude, Work
<1>3. PICK off \in Nat : off = Len(pre)
  BY LenProperties
<1>4. PICK first \in Nat : first = USER_OFFSET
  BY DEF USER_OFFSET, ATAPI_OFFSET, ATAPI_SIZE
<1>5. PICK ins : ins = Insert(data, first, off, kept)
  OBVIOUS
<1>6. PICK id \in Id : id = i.pNum
  BY DEF Prelude, Work
<1>7. PICK name \in Name : name = "Apple_HFSX" /\ name \in HFSNames
  BY Names
<1>8. PICK part : part = AddPartition(i, data, first, id, name, kept)
  OBVIOUS
<1>9. PICK nsiz : nsiz = Append(part.nsiz, [id |-> 2, sum |-> data])
  OBVIOUS
<1>10. PICK a : a = AttributionOf(part.fork, data, kept, ins, off)
  OBVIOUS
<1>11. PICK plst : plst = IF sentinel THEN <<a>> ELSE <<>>
  OBVIOUS
<1>12. PICK x : x = AddSums(part, 2, data, nsiz)
  OBVIOUS
<1>13. j = [x EXCEPT !.pNum = @ + 1, !.plst = plst]
  <2>1. WithMain(i, volume, sentinel) =
          [AddSums(part, 2, data, nsiz) EXCEPT !.pNum = @ + 1, !.plst = plst]
    BY ONLY <1>1, <1>2, <1>3, <1>4, <1>5, <1>6, <1>7, <1>8, <1>9, <1>10, <1>11, Zenon,
            data = SubSeq(volume, 1, SectorsIn(volume)) DEF WithMain
  <2>2. QED
    BY ONLY <1>12, <2>1, j = WithMain(i, volume, sentinel)
<1>14. Work(i)
  BY ONLY Prelude(i) DEF Prelude
<1>15. PICK t : /\ t = TableOf(data, first, id, name, kept, Len(i.fork))
                /\ Added(i, part, data, kept, t)
  BY ONLY <1>8, <1>14, WorkPartition, data \in Seq(Sector), first \in Nat, id \in Id,
          name \in Name
<1>16. PICK cells : cells = FlattenSeq(Parts(data, kept))
  OBVIOUS
<1>17. /\ Work(part) /\ part.fork = pre \o cells /\ part.blkx = InsertData(i.blkx, t)
       /\ Sound(part.fork, t) /\ FlattenSeq(Expands(part.fork, t.runs)) = data
       /\ part.pNum = i.pNum
  BY ONLY <1>2, <1>15, <1>16 DEF Added
<1>18. PICK fork \in Seq(Cell) : fork = part.fork
  BY <1>17 DEF Work
<1>19. t = TableOf(data, first, id, name, kept, Len(pre))
  BY ONLY <1>2, <1>15
<1>20. AllSound(pre, i.blkx) /\ Plain(i.blkx)
  BY ONLY <1>2, Prelude(i) DEF Prelude, Work
<1>21. t.name \in HFSNames /\ t.id = i.pNum /\ t \in TableType /\ t.sum = data
  BY ONLY <1>6, <1>7, <1>17, <1>19 DEF TableOf, Sound
<1>22. HasData(fork, t, data)
  <2>1. FlattenSeq(Feeds(fork, t.runs)) = data /\ Fits(fork, t.runs)
    BY ONLY <1>17, <1>18, <1>21 DEF Sound
  <2>2. t.count = Len(data)
    BY ONLY <1>19 DEF TableOf
  <2>3. QED
    BY ONLY <1>17, <1>18, <1>21, <2>1, <2>2 DEF HasData
<1>23. Starts(fork, pre)
  <2>1. PICK runs : runs = RunList(data, kept, off)
    OBVIOUS
  <2>2. cells \in Seq(Cell)
    BY <1>3, <1>16, <2>1, InsertType
  <2>3. fork = pre \o cells
    BY ONLY <1>17, <1>18
  <2>4. QED
    BY ONLY <2>2, <2>3, JoinStarts, pre \in Seq(Cell)
<1>24. PICK list : list = i.blkx
  OBVIOUS
<1>25. PICK new : new = InsertData(list, t)
  OBVIOUS
<1>26. AllSound(pre, list) /\ Plain(list)
  BY ONLY <1>20, <1>24
<1>27. Tables(fork, data, InsertData(list, t))
  BY ONLY <1>21, <1>22, <1>23, <1>26, TablesMain, pre \in Seq(Cell), fork \in Seq(Cell)
<1>28. PICK p \in Id : p = part.pNum + 1
  BY <1>6, <1>17, NextId
<1>29. x.pNum = part.pNum
  <2>1. ImageIs(part)
    BY ONLY <1>17 DEF Work
  <2>2. PICK c : x = Image(part.fork, part.sum, part.blkx, c, nsiz, part.pNum, part.plst,
                           part.koly)
    BY ONLY <1>12, <2>1, AddSumsIs
  <2>3. QED
    BY ONLY <2>2, ImageFields
<1>30. PICK y : y = Numbered(x, p)
  OBVIOUS
<1>31. Work(y) /\ y.fork = fork /\ y.blkx = part.blkx /\ y.pNum = p
  <2>1. y = Numbered(AddSums(part, 2, data, nsiz), p)
    BY ONLY <1>12, <1>30
  <2>2. Work(part)
    BY ONLY <1>17
  <2>3. /\ Work(y) /\ y.fork = part.fork /\ y.blkx = part.blkx /\ y.plst = part.plst
        /\ y.pNum = p
    BY ONLY <2>1, <2>2, WorkSums, p \in Id
  <2>4. QED
    BY ONLY <1>18, <2>3
<1>32. j = WithResource(y, p, plst)
  BY ONLY <1>13, <1>28, <1>29, <1>30, Zenon DEF WithResource, Numbered
<1>33. Work(j) /\ j.fork = y.fork /\ j.blkx = y.blkx /\ j.pNum = p /\ j.plst = plst
  BY ONLY <1>31, <1>32, WithResourceIs, p \in Id
<1>34. j.fork = fork /\ j.blkx = new
  BY ONLY <1>17, <1>24, <1>25, <1>31, <1>33
<1>35. Tables(j.fork, data, j.blkx)
  BY ONLY <1>25, <1>27, <1>34
<1>36. Fresh(j)
  <2>1. list \in Seq(TableType)
    BY ONLY <1>26 DEF AllSound
  <2>2. \A k \in 1 .. Len(new) : new[k].name \in HFSNames => new[k].id = t.id
    BY ONLY <1>21, <1>25, <1>26, <2>1, MainIsLast
  <2>3. id # p
    BY <1>6, <1>17, <1>28 DEF Id
  <2>4. QED
    BY ONLY <1>6, <1>21, <1>33, <1>34, <2>2, <2>3 DEF Fresh
<1>37. Attributed(j, data)
  <2>1. CASE ~sentinel
    BY ONLY <1>11, <1>33, <2>1 DEF Attributed
  <2>2. CASE sentinel
    <3>1. kept = Kept(data)
      BY ONLY <1>1, <2>2
    <3>2. fork = pre \o FlattenSeq(Parts(data, kept))
      BY ONLY <1>16, <1>17, <1>18
    <3>3. a = AttributionOf(fork, data, kept, ins, off)
      BY ONLY <1>10, <1>18
    <3>4. Describes(a, fork, data, InsertData(list, t))
      BY ONLY <1>3, <1>5, <1>7, <1>19, <1>26, <1>27, <3>1, <3>2, <3>3, InsertionDescribes,
              pre \in Seq(Cell), data \in Seq(Sector), first \in Nat, id \in Id,
              name \in Name, fork \in Seq(Cell), off \in Nat
    <3>5. j.plst = <<a>> /\ Describes(a, j.fork, data, j.blkx)
      BY ONLY <1>11, <1>25, <1>33, <1>34, <2>2, <3>4
    <3>6. QED
      BY ONLY <3>5 DEF Attributed
  <2>3. QED
    BY <2>1, <2>2
<1>38. Under(j.blkx, j.pNum)
  <2>1. list \in Seq(TableType)
    BY ONLY <1>26 DEF AllSound
  <2>2. Under(list, id) /\ t.id = id /\ t \in TableType
    BY ONLY <1>6, <1>21, <1>24, Prelude(i) DEF Prelude
  <2>3. Under(InsertData(list, t), id + 1)
    BY ONLY <2>1, <2>2, InsertUnder, id \in Id
  <2>4. j.pNum = id + 1
    BY ONLY <1>6, <1>17, <1>28, <1>33
  <2>5. QED
    BY ONLY <1>25, <1>34, <2>3, <2>4
<1>39. QED
  BY ONLY <1>11, <1>33, <1>35, <1>36, <1>37, <1>38 DEF Main

LEMMA ForkType ==
  ASSUME NEW a, AttributionType(a), NEW r \in Seq(Sector)
  PROVE  ForkWith(a, r) \in Seq(Cell) /\ VolumeWithRaw(a, r) \in Seq(Sector)
<1>1. /\ a.before \in Seq(Cell) /\ a.after \in Seq(Cell)
      /\ a.beforeU \in Seq(Sector) /\ a.afterU \in Seq(Sector)
  BY DEF AttributionType
<1>2. r \in Seq(Cell)
  <2>1. Sector \subseteq Cell
    BY DEF Cell
  <2>2. QED
    BY <2>1, SeqMonotonic
<1>3. PICK x \in Seq(Cell) : x = a.before \o r
  BY <1>1, <1>2, ConcatProperties
<1>4. x \o a.after \in Seq(Cell)
  BY <1>1, <1>3, ConcatProperties
<1>5. PICK y \in Seq(Sector) : y = a.beforeU \o r
  BY <1>1, ConcatProperties
<1>6. y \o a.afterU \in Seq(Sector)
  BY <1>1, <1>5, ConcatProperties
<1>7. QED
  BY <1>3, <1>4, <1>5, <1>6 DEF ForkWith, VolumeWithRaw

(* The table of a free partition, behind that of the volume.               *)
LEMMA WithFreeMain ==
  ASSUME NEW i, NEW data, Main(i, data), Fresh(i),
         NEW first \in Nat, NEW n \in Nat, NEW j, j = AddFree(i, first, n)
  PROVE  Main(j, data)
<1>1. Work(i) /\ Tables(i.fork, data, i.blkx) /\ Attributed(i, data)
  BY DEF Main
<1>2. PICK t : FreeAdded(i, j, t)
  BY ONLY <1>1, WorkFree, first \in Nat, n \in Nat, j = AddFree(i, first, n)
<1>3. /\ Work(j) /\ j.fork = i.fork /\ j.blkx = InsertData(i.blkx, t) /\ j.plst = i.plst
  BY ONLY <1>2 DEF FreeAdded
<1>4. /\ \A fork \in Seq(Cell) : Sound(fork, t)
      /\ t \in TableType /\ t.name \notin HFSNames
  BY ONLY <1>2 DEF FreeAdded
<1>5. PICK list : list = i.blkx
  OBVIOUS
<1>6. PICK new : new = InsertData(list, t)
  OBVIOUS
<1>7. \A k \in 1 .. Len(list) : list[k].name \in HFSNames => list[k].id # t.id
  <2>1. t.id = i.pNum
    BY ONLY <1>2 DEF FreeAdded
  <2>2. QED
    BY ONLY <1>5, <2>1, Fresh(i) DEF Fresh
<1>8. ASSUME NEW fork \in Seq(Cell), NEW d, Tables(fork, d, list) PROVE Tables(fork, d, new)
  <2>1. Sound(fork, t)
    BY ONLY <1>4, fork \in Seq(Cell)
  <2>2. Tables(fork, d, InsertData(list, t))
    BY ONLY <1>4, <1>7, <1>8, <2>1, TablesFree
  <2>3. QED
    BY ONLY <1>6, <2>2
<1>9. i.fork \in Seq(Cell)
  BY ONLY <1>1 DEF Work
<1>10. Tables(j.fork, data, j.blkx)
  BY ONLY <1>1, <1>3, <1>5, <1>6, <1>8, <1>9
<1>11. ASSUME NEW a, Describes(a, i.fork, data, i.blkx) PROVE Describes(a, j.fork, data, j.blkx)
  <2>1. AttributionType(a) /\ Writable(a, list)
    BY ONLY <1>5, <1>11 DEF Describes
  <2>2. ASSUME NEW r \in Seq(Sector), Len(r) = Len(a.raw)
        PROVE Tables(ForkWith(a, r), VolumeWithRaw(a, r), new)
    <3>1. ForkWith(a, r) \in Seq(Cell)
      BY ONLY <2>1, ForkType, r \in Seq(Sector)
    <3>2. Tables(ForkWith(a, r), VolumeWithRaw(a, r), list)
      BY ONLY <2>1, <2>2 DEF Writable
    <3>3. QED
      BY ONLY <1>8, <3>1, <3>2
  <2>3. Writable(a, new)
    BY ONLY <2>2 DEF Writable
  <2>4. QED
    BY ONLY <1>3, <1>5, <1>6, <1>11, <2>3 DEF Describes
<1>12. Attributed(j, data)
  BY ONLY <1>1, <1>3, <1>11 DEF Attributed
<1>13. Under(j.blkx, j.pNum)
  <2>1. PICK p \in Id : p = i.pNum
    BY <1>1 DEF Work
  <2>2. list \in Seq(TableType)
    BY ONLY <1>1, <1>5 DEF Work, AllSound
  <2>3. t.id = p /\ t \in TableType /\ j.pNum = p + 1
    BY ONLY <1>2, <2>1 DEF FreeAdded
  <2>4. Under(list, p)
    BY ONLY <1>5, <2>1, Main(i, data) DEF Main
  <2>5. Under(InsertData(list, t), p + 1)
    BY ONLY <2>2, <2>3, <2>4, InsertUnder, p \in Id
  <2>6. QED
    BY ONLY <1>3, <1>5, <2>3, <2>5
<1>14. QED
  BY ONLY <1>3, <1>10, <1>12, <1>13 DEF Main

-----------------------------------------------------------------------------
(* A finished image.                                                       *)

Koly(l, sum, master, n) ==
  [forkLength |-> l, forkSum |-> sum, masterSum |-> master, sectorCount |-> n]

Trailed(i) == \E n : i.koly = <<Koly(Len(i.fork), i.fork, MasterSum(i.blkx), n)>>

(* Its attribution resource, if any, fits it.                              *)
Signature(i, a) ==
  /\ i.plst = <<a>> /\ AttributionType(a) /\ i.fork = ForkWith(a, a.raw)
  /\ Writable(a, i.blkx)

Signed(i) == i.plst = <<>> \/ \E a : Signature(i, a)

Complete(i) ==
  /\ ImageIs(i) /\ i.fork \in Seq(Cell) /\ AllSound(i.fork, i.blkx) /\ i.pNum \in Id
  /\ Trailed(i) /\ Signed(i)

LEMMA TrailerComplete ==
  ASSUME NEW i, Work(i), Signed(i), NEW n, NEW j, j = Trailer(i, n)
  PROVE  Complete(j) /\ j.fork = i.fork /\ j.blkx = i.blkx
<1>1. PICK k : k = <<Koly(Len(i.fork), i.sum, MasterSum(i.blkx), n)>>
  OBVIOUS
<1>2. ImageIs(i)
  BY DEF Work
<1>3. j = Image(i.fork, i.sum, i.blkx, i.cSum, i.nsiz, i.pNum, i.plst, k)
  BY ONLY <1>1, <1>2, TrailerIs, j = Trailer(i, n) DEF Koly
<1>4. /\ ImageIs(j) /\ j.fork = i.fork /\ j.sum = i.sum /\ j.blkx = i.blkx
      /\ j.pNum = i.pNum /\ j.plst = i.plst /\ j.koly = k
  BY ONLY <1>3, ImageFields
<1>5. i.sum = i.fork /\ i.fork \in Seq(Cell) /\ AllSound(i.fork, i.blkx) /\ i.pNum \in Id
  BY DEF Work
<1>6. Trailed(j)
  BY ONLY <1>1, <1>4, <1>5 DEF Trailed
<1>7. Signed(j)
  BY ONLY <1>4, Signed(i), Zenon DEF Signed, Signature
<1>8. QED
  BY ONLY <1>4, <1>5, <1>6, <1>7 DEF Complete

LEMMA AttributedSigned ==
  ASSUME NEW i, NEW data, Attributed(i, data)
  PROVE  Signed(i)
  BY Zenon DEF Attributed, Describes, Signed, Signature

-----------------------------------------------------------------------------
(* Three pieces, and each of them again.                                   *)

ThreePieces(f, x, r, y, b, c) ==
  /\ Len(f) = b + c + Len(y)
  /\ SubSeq(f, 1, b) = x /\ SubSeq(f, b + 1, b + c) = r /\ SubSeq(f, b + c + 1, Len(f)) = y

LEMMA PiecesAgain ==
  ASSUME NEW S, NEW x \in Seq(S), NEW r \in Seq(S), NEW y \in Seq(S),
         NEW b \in Nat, b = Len(x), NEW c \in Nat, c = Len(r),
         NEW f, f = (x \o r) \o y
  PROVE  ThreePieces(f, x, r, y, b, c)
<1>1. PICK m \in Nat : m = Len(y)
  BY LenProperties
<1>2. PICK z : z = x \o r
  OBVIOUS
<1>3. z \in Seq(S) /\ Joins(z, x, r, b, c)
  BY <1>2, JoinIs
<1>4. PICK q \in Nat : q = b + c
  OBVIOUS
<1>5. q = Len(z) /\ f = z \o y
  BY <1>2, <1>3, <1>4 DEF Joins
<1>6. f \in Seq(S) /\ Joins(f, z, y, q, m)
  BY ONLY <1>1, <1>3, <1>4, <1>5, JoinIs, y \in Seq(S)
<1>7. PICK l \in Nat : l = Len(f)
  BY <1>6, LenProperties
<1>8. l = q + m
  BY <1>6, <1>7 DEF Joins
<1>9. f \in Seq(S)
  BY <1>6
<1>10. PICK o \in Nat : o = 0 /\ o + 1 = 1
  OBVIOUS
<1>11. PICK u : u = SubSeq(f, o + 1, b)
  OBVIOUS
<1>12. u = x
  <2>1. o <= b /\ b <= l
    BY ONLY <1>4, <1>8, <1>10, <1>1, <1>7, b \in Nat, c \in Nat
  <2>2. b - o = b /\ \A j \in 1 .. b : o + j = j /\ j \in 1 .. q
    BY ONLY <1>4, <1>10, b \in Nat, c \in Nat
  <2>3. u \in Seq(S) /\ Len(u) = b - o /\ \A j \in 1 .. b - o : u[j] = f[o + j]
    BY ONLY <1>9, <1>7, <1>10, <1>11, <2>1, SliceIs, b \in Nat
  <2>4. \A j \in 1 .. b : u[j] = x[j]
    BY ONLY <1>3, <1>6, <2>2, <2>3 DEF Joins
  <2>5. QED
    BY <2>2, <2>3, <2>4, SeqEqual
<1>13. PICK v : v = SubSeq(f, b + 1, q)
  OBVIOUS
<1>14. v = r
  <2>1. b <= q /\ q <= l
    BY ONLY <1>1, <1>4, <1>7, <1>8, b \in Nat, c \in Nat
  <2>2. q - b = c /\ \A j \in 1 .. c : b + j \in 1 .. q
    BY ONLY <1>4, b \in Nat, c \in Nat
  <2>3. v \in Seq(S) /\ Len(v) = q - b /\ \A j \in 1 .. q - b : v[j] = f[b + j]
    BY ONLY <1>9, <1>7, <1>13, <2>1, SliceIs, b \in Nat, q \in Nat
  <2>4. \A j \in 1 .. c : v[j] = r[j]
    BY ONLY <1>3, <1>6, <2>2, <2>3 DEF Joins
  <2>5. QED
    BY <2>2, <2>3, <2>4, SeqEqual
<1>15. PICK t : t = SubSeq(f, q + 1, l)
  OBVIOUS
<1>16. t = y
  <2>1. q <= l /\ l <= l
    BY ONLY <1>1, <1>4, <1>7, <1>8
  <2>2. l - q = m
    BY ONLY <1>1, <1>4, <1>7, <1>8
  <2>3. t \in Seq(S) /\ Len(t) = l - q /\ \A j \in 1 .. l - q : t[j] = f[q + j]
    BY ONLY <1>9, <1>7, <1>15, <2>1, SliceIs, q \in Nat
  <2>4. \A j \in 1 .. m : t[j] = y[j]
    BY ONLY <1>6, <2>2, <2>3 DEF Joins
  <2>5. QED
    BY <1>1, <2>2, <2>3, <2>4, SeqEqual
<1>17. SubSeq(f, 1, b) = x
  BY ONLY <1>10, <1>11, <1>12
<1>18. SubSeq(f, b + 1, b + c) = r
  BY ONLY <1>4, <1>13, <1>14
<1>19. SubSeq(f, b + c + 1, Len(f)) = y
  BY ONLY <1>4, <1>7, <1>15, <1>16
<1>20. Len(f) = b + c + Len(y)
  BY ONLY <1>1, <1>4, <1>7, <1>8
<1>21. QED
  BY ONLY <1>17, <1>18, <1>19, <1>20 DEF ThreePieces

LEMMA JoinedIs ==
  ASSUME NEW a, AttributionType(a)
  PROVE  Joined(a) = ForkWith(a, a.raw) /\ JoinedVolume(a) = VolumeWithRaw(a, a.raw)
  BY Zenon DEF AttributionType, Joined, JoinedVolume, ForkWith, VolumeWithRaw, Combine

(* The raw region of an image.                                             *)
LEMMA RegionIs ==
  ASSUME NEW i, NEW a, Signature(i, a)
  PROVE  i.plst # <<>> /\ i.plst[1] = a /\ Len(i.plst) = 1 /\ RawRegion(i) = a.raw
<1>1. i.plst = <<a>>
  BY DEF Signature
<1>2. i.plst # <<>> /\ i.plst[1] = a /\ Len(i.plst) = 1
  BY ONLY <1>1
<1>3. PICK b \in Nat : b = Len(a.before) /\ b = a.rawPos
  BY LenProperties DEF Signature, AttributionType
<1>4. PICK c \in Nat : c = Len(a.raw) /\ c = a.rawLen
  BY LenProperties DEF Signature, AttributionType
<1>5. /\ a.before \in Seq(Cell) /\ a.raw \in Seq(Cell) /\ a.after \in Seq(Cell)
      /\ i.fork = (a.before \o a.raw) \o a.after
  <2>1. Sector \subseteq Cell
    BY DEF Cell
  <2>2. a.raw \in Seq(Cell)
    BY <2>1, SeqMonotonic DEF Signature, AttributionType
  <2>3. QED
    BY ONLY <2>2, Signature(i, a) DEF Signature, AttributionType, ForkWith
<1>6. ThreePieces(i.fork, a.before, a.raw, a.after, b, c)
  BY ONLY <1>3, <1>4, <1>5, PiecesAgain
<1>7. RawRegion(i) = SubSeq(i.fork, b + 1, b + c)
  BY ONLY <1>2, <1>3, <1>4 DEF RawRegion
<1>8. RawRegion(i) = a.raw
  BY ONLY <1>6, <1>7 DEF ThreePieces
<1>9. QED
  BY ONLY <1>2, <1>8

LEMMA MarksAre ==
  ASSUME NEW s, NEW raw \in Seq(Sector), Len(s) \in Nat
  PROVE  Marks(s, raw) \subseteq Nat
<1>1. PICK n \in Nat : n = Len(raw)
  BY LenProperties
<1>2. PICK m \in Nat : m = Len(s)
  OBVIOUS
<1>3. 0 .. n - m \subseteq Nat
  OBVIOUS
<1>4. QED
  BY <1>1, <1>2, <1>3 DEF Marks

(* The raw region keeps its size, and its sectors are sectors.             *)
LEMMA OverwrittenIs ==
  ASSUME NEW raw \in Seq(Sector), NEW at \in Nat, NEW data \in Seq(Sector),
         NEW new, new = Overwritten(raw, at, data)
  PROVE  new \in Seq(Sector) /\ Len(new) = Len(raw)
<1>1. PICK n \in Nat : n = Len(raw)
  BY LenProperties
<1>2. PICK m \in Nat : m = Len(data)
  BY LenProperties
<1>3. PICK nul : nul = Min({s \in at + 1 .. Len(raw) : raw[s] = Zero})
  OBVIOUS
<1>4. DEFINE Put(s) == IF s > at /\ s <= at + m THEN data[s - at]
                       ELSE IF s > at /\ s < nul THEN Zero ELSE raw[s]
<1>5. DOMAIN raw = 1 .. n
  BY <1>1, LenProperties
<1>6. new = [s \in 1 .. n |-> Put(s)]
  BY <1>2, <1>3, <1>5 DEF Overwritten
<1>7. Zero \in Sector
  BY DEF Sector, Content
<1>8. ASSUME NEW s \in 1 .. n PROVE Put(s) \in Sector
  <2>1. CASE s > at /\ s <= at + m
    <3>1. s - at \in 1 .. m
      BY <2>1
    <3>2. data[s - at] \in Sector
      BY <1>2, <3>1, ElementOfSeq
    <3>3. QED
      BY <2>1, <3>2
  <2>2. CASE ~(s > at /\ s <= at + m)
    <3>1. raw[s] \in Sector
      BY <1>1, ElementOfSeq
    <3>2. QED
      BY <1>7, <2>2, <3>1, Zenon
  <2>3. QED
    BY <2>1, <2>2
<1>9. new \in [1 .. n -> Sector]
  BY <1>6, <1>8
<1>10. new \in Seq(Sector)
  BY <1>9, SeqDef
<1>11. Len(new) = n
  BY <1>9, <1>10, LenProperties
<1>12. QED
  BY <1>1, <1>10, <1>11

(* An attribution that is being written: all but the checksums.            *)
Trailing(i) == \E sum, master, n : i.koly = <<Koly(Len(i.fork), sum, master, n)>>

Rewriting(i, a) ==
  /\ ImageIs(i) /\ i.fork \in Seq(Cell) /\ i.pNum \in Id /\ Trailing(i) /\ Signature(i, a)

WithRawOf(a, raw) == [a EXCEPT !.raw = raw]

LEMMA WithRawOfIs ==
  ASSUME NEW a, AttributionType(a), NEW raw \in Seq(Sector), Len(raw) = Len(a.raw),
         NEW z, z = WithRawOf(a, raw)
  PROVE  /\ AttributionType(z) /\ z.raw = raw
         /\ \A r : ForkWith(z, r) = ForkWith(a, r) /\ VolumeWithRaw(z, r) = VolumeWithRaw(a, r)
<1>1. AttributionIs(a)
  BY DEF AttributionType
<1>2. z = [before |-> a.before, beforeU |-> a.beforeU, rawPos |-> a.rawPos,
           raw |-> raw, rawLen |-> a.rawLen, after |-> a.after, afterLen |-> a.afterLen,
           afterU |-> a.afterU, afterULen |-> a.afterULen]
  BY ONLY <1>1, z = WithRawOf(a, raw) DEF AttributionIs, WithRawOf
<1>3. /\ AttributionIs(z) /\ z.before = a.before /\ z.beforeU = a.beforeU
      /\ z.rawPos = a.rawPos /\ z.raw = raw /\ z.rawLen = a.rawLen /\ z.after = a.after
      /\ z.afterLen = a.afterLen /\ z.afterU = a.afterU /\ z.afterULen = a.afterULen
  BY ONLY <1>2 DEF AttributionIs
<1>4. AttributionType(z)
  BY ONLY <1>3, AttributionType(a), raw \in Seq(Sector), Len(raw) = Len(a.raw)
     DEF AttributionType
<1>5. \A r : ForkWith(z, r) = ForkWith(a, r) /\ VolumeWithRaw(z, r) = VolumeWithRaw(a, r)
  BY ONLY <1>3 DEF ForkWith, VolumeWithRaw
<1>6. QED
  BY ONLY <1>3, <1>4, <1>5

LEMMA WithRawIs ==
  ASSUME NEW i, NEW a, Complete(i), Signature(i, a),
         NEW raw \in Seq(Sector), Len(raw) = Len(a.raw), NEW j, j = WithRaw(i, raw)
  PROVE  Rewriting(j, WithRawOf(a, raw))
<1>1. i.plst[1] = a
  BY RegionIs
<1>2. AttributionType(a) /\ i.fork = ForkWith(a, a.raw) /\ Writable(a, i.blkx)
  BY DEF Signature
<1>3. PICK b \in Nat : b = Len(a.before) /\ b = a.rawPos
  BY ONLY <1>2, LenProperties DEF AttributionType
<1>4. PICK c \in Nat : c = Len(a.raw) /\ c = a.rawLen
  BY ONLY <1>2, LenProperties DEF AttributionType
<1>5. /\ a.before \in Seq(Cell) /\ a.raw \in Seq(Cell) /\ a.after \in Seq(Cell)
      /\ i.fork = (a.before \o a.raw) \o a.after
  <2>1. Sector \subseteq Cell
    BY DEF Cell
  <2>2. a.raw \in Seq(Cell)
    BY ONLY <1>2, <2>1, SeqMonotonic DEF AttributionType
  <2>3. QED
    BY ONLY <1>2, <2>2 DEF AttributionType, ForkWith
<1>6. ThreePieces(i.fork, a.before, a.raw, a.after, b, c)
  BY ONLY <1>3, <1>4, <1>5, PiecesAgain
<1>7. PICK f : f = SubSeq(i.fork, 1, b) \o raw \o SubSeq(i.fork, b + c + 1, Len(i.fork))
  OBVIOUS
<1>8. f = ForkWith(a, raw)
  BY ONLY <1>6, <1>7 DEF ThreePieces, ForkWith
<1>9. PICK z : z = WithRawOf(a, raw)
  OBVIOUS
<1>10. /\ AttributionType(z) /\ z.raw = raw
       /\ \A r : ForkWith(z, r) = ForkWith(a, r) /\ VolumeWithRaw(z, r) = VolumeWithRaw(a, r)
  BY ONLY <1>2, <1>9, WithRawOfIs, raw \in Seq(Sector), Len(raw) = Len(a.raw)
<1>11. ImageIs(i) /\ i.pNum \in Id /\ i.fork \in Seq(Cell)
  BY ONLY Complete(i) DEF Complete
<1>12. j = Image(f, i.sum, i.blkx, i.cSum, i.nsiz, i.pNum, <<z>>, i.koly)
  <2>1. WithRaw(i, raw) = [i EXCEPT !.fork = f, !.plst = <<z>>]
    <3>1. i.plst[1].rawPos = b /\ Len(raw) = c
      BY <1>1, <1>3, <1>4
    <3>2. /\ SubSeq(i.fork, 1, i.plst[1].rawPos) \o raw
             \o SubSeq(i.fork, i.plst[1].rawPos + Len(raw) + 1, Len(i.fork)) = f
          /\ [i.plst[1] EXCEPT !.raw = raw] = z
      BY ONLY <1>1, <1>7, <1>9, <3>1 DEF WithRawOf
    <3>3. QED
      BY ONLY <3>2, Zenon DEF WithRaw
  <2>2. PICK x : x = [i EXCEPT !.fork = f]
    OBVIOUS
  <2>3. x = Image(f, i.sum, i.blkx, i.cSum, i.nsiz, i.pNum, i.plst, i.koly)
    BY ONLY <1>11, <2>2 DEF ImageIs, Image
  <2>4. PICK p : p = <<z>>
    OBVIOUS
  <2>5. [x EXCEPT !.plst = p] = Image(f, i.sum, i.blkx, i.cSum, i.nsiz, i.pNum, p, i.koly)
    BY ONLY <2>3 DEF Image
  <2>6. QED
    BY ONLY <2>1, <2>2, <2>4, <2>5, j = WithRaw(i, raw), Zenon
<1>13. /\ ImageIs(j) /\ j.fork = f /\ j.blkx = i.blkx /\ j.pNum = i.pNum
       /\ j.plst = <<z>> /\ j.koly = i.koly
  BY ONLY <1>12, ImageFields
<1>14. f \in Seq(Cell)
  BY ONLY <1>2, <1>8, ForkType, raw \in Seq(Sector)
<1>15. Len(f) = Len(i.fork)
  <2>1. raw \in Seq(Cell)
    <3>1. Sector \subseteq Cell
      BY DEF Cell
    <3>2. QED
      BY <3>1, SeqMonotonic
  <2>2. f = (a.before \o raw) \o a.after /\ c = Len(raw)
    BY <1>4, <1>8 DEF ForkWith
  <2>3. ThreePieces(f, a.before, raw, a.after, b, c)
    BY ONLY <1>3, <1>4, <1>5, <2>1, <2>2, PiecesAgain
  <2>4. QED
    BY ONLY <1>6, <2>3 DEF ThreePieces
<1>16. Trailing(j)
  <2>1. \E n : i.koly = <<Koly(Len(i.fork), i.fork, MasterSum(i.blkx), n)>>
    BY ONLY Complete(i) DEF Complete, Trailed
  <2>2. QED
    BY ONLY <1>13, <1>15, <2>1 DEF Trailing
<1>17. Writable(z, i.blkx)
  BY ONLY <1>2, <1>10, Len(raw) = Len(a.raw) DEF Writable
<1>18. j.fork = ForkWith(z, z.raw)
  BY ONLY <1>8, <1>10, <1>13
<1>19. Signature(j, z)
  BY ONLY <1>10, <1>13, <1>17, <1>18 DEF Signature
<1>20. QED
  BY ONLY <1>9, <1>11, <1>13, <1>14, <1>16, <1>19 DEF Rewriting

(* A table with another checksum.                                          *)
Summed(t, sum) == [t EXCEPT !.sum = sum]

LEMMA SummedIs ==
  ASSUME NEW t \in TableType, NEW sum \in Seq(Sector), NEW e, e = Summed(t, sum)
  PROVE  /\ e \in TableType /\ e.sum = sum
         /\ e.name = t.name /\ e.runs = t.runs /\ e.count = t.count
  BY DEF TableType, Summed

(* The list with another checksum for its table of a volume.               *)
Resum(list, h, sum) == [list EXCEPT ![h].sum = sum]

LEMMA ResumIs ==
  ASSUME NEW list \in Seq(TableType), NEW h \in 1 .. Len(list), NEW sum \in Seq(Sector),
         NEW new, new = Resum(list, h, sum)
  PROVE  /\ new \in Seq(TableType) /\ Len(new) = Len(list)
         /\ new[h] = Summed(list[h], sum)
         /\ \A k \in 1 .. Len(list) : k # h => new[k] = list[k]
<1>1. PICK e : e = Summed(list[h], sum)
  OBVIOUS
<1>2. list[h] \in TableType
  BY ElementOfSeq
<1>3. e \in TableType
  BY ONLY <1>1, <1>2, SummedIs, sum \in Seq(Sector)
<1>4. new = [list EXCEPT ![h] = e]
  BY ONLY <1>1, new = Resum(list, h, sum) DEF Resum, Summed
<1>5. /\ [list EXCEPT ![h] = e] \in Seq(TableType) /\ Len([list EXCEPT ![h] = e]) = Len(list)
      /\ \A k \in 1 .. Len(list) : [list EXCEPT ![h] = e][k] = IF k = h THEN e ELSE list[k]
  BY ONLY <1>3, ExceptSeq, list \in Seq(TableType), h \in 1 .. Len(list)
<1>6. QED
  BY ONLY <1>1, <1>4, <1>5, h \in 1 .. Len(list)

LEMMA TablesResum ==
  ASSUME NEW fork, NEW d, NEW list \in Seq(TableType), Tables(fork, d, list),
         NEW h \in 1 .. Len(list), list[h].name \in HFSNames, NEW sum \in Seq(Sector),
         NEW new, new = Resum(list, h, sum)
  PROVE  Tables(fork, d, new)
<1>1. PICK g : OfVolume(fork, d, list, g)
  BY DEF Tables
<1>2. g = h
  BY <1>1 DEF OfVolume
<1>3. /\ new \in Seq(TableType) /\ Len(new) = Len(list)
      /\ new[h] = Summed(list[h], sum)
      /\ \A k \in 1 .. Len(list) : k # h => new[k] = list[k]
  BY ResumIs
<1>4. PICK t : t = list[h]
  OBVIOUS
<1>5. t \in TableType /\ HasData(fork, t, d) /\ t.name \in HFSNames
  BY ONLY <1>1, <1>2, <1>4 DEF OfVolume, HasData
<1>6. PICK e : e = Summed(t, sum)
  OBVIOUS
<1>7. /\ e \in TableType /\ e.name = t.name /\ e.runs = t.runs /\ e.count = t.count
  BY ONLY <1>5, <1>6, SummedIs, sum \in Seq(Sector)
<1>8. HasData(fork, e, d)
  BY ONLY <1>5, <1>7 DEF HasData
<1>9. new[h] = e
  BY ONLY <1>3, <1>4, <1>6
<1>10. OfVolume(fork, d, new, h)
  BY ONLY <1>1, <1>2, <1>3, <1>5, <1>7, <1>8, <1>9 DEF OfVolume
<1>11. QED
  BY ONLY <1>3, <1>10 DEF Tables

Resummed(i) == [i EXCEPT !.blkx[HFSTable(i)].sum = JoinedVolume(i.plst[1])]

LEMMA HFSTableIs ==
  ASSUME NEW i, NEW fork, NEW d, NEW h, i.blkx \in Seq(TableType), OfVolume(fork, d, i.blkx, h)
  PROVE  HFSTable(i) = h
<1>1. PICK T : T = {k \in DOMAIN i.blkx : i.blkx[k].name \in HFSNames}
  OBVIOUS
<1>2. DOMAIN i.blkx = 1 .. Len(i.blkx)
  BY LenProperties
<1>3. T = {h}
  BY ONLY <1>1, <1>2, OfVolume(fork, d, i.blkx, h) DEF OfVolume
<1>4. h \in Nat
  <2>1. PICK n \in Nat : n = Len(i.blkx)
    BY LenProperties
  <2>2. QED
    BY <2>1 DEF OfVolume
<1>5. T \subseteq Nat /\ T # {}
  BY <1>3, <1>4
<1>6. Min(T) \in T
  BY ONLY <1>5, MinIs
<1>7. Min(T) = h
  BY ONLY <1>3, <1>6
<1>8. QED
  BY ONLY <1>1, <1>7 DEF HFSTable

LEMMA ResummedIs ==
  ASSUME NEW i, NEW a, Rewriting(i, a), NEW j, j = Resummed(i)
  PROVE  Rewriting(j, a) /\ AllSound(j.fork, j.blkx)
<1>1. Signature(i, a) /\ ImageIs(i) /\ i.fork \in Seq(Cell) /\ i.pNum \in Id /\ Trailing(i)
  BY DEF Rewriting
<1>2. AttributionType(a) /\ i.fork = ForkWith(a, a.raw) /\ Writable(a, i.blkx)
  BY ONLY <1>1 DEF Signature
<1>3. a.raw \in Seq(Sector)
  BY ONLY <1>2 DEF AttributionType
<1>4. PICK d \in Seq(Sector) : d = VolumeWithRaw(a, a.raw)
  BY ONLY <1>2, <1>3, ForkType
<1>5. PICK list : list = i.blkx
  OBVIOUS
<1>6. Tables(i.fork, d, list)
  BY ONLY <1>2, <1>3, <1>4, <1>5 DEF Writable
<1>7. list \in Seq(TableType)
  BY ONLY <1>6 DEF Tables
<1>8. PICK h : OfVolume(i.fork, d, list, h)
  BY ONLY <1>6 DEF Tables
<1>9. h \in 1 .. Len(list) /\ list[h].name \in HFSNames /\ HasData(i.fork, list[h], d)
  BY ONLY <1>8 DEF OfVolume
<1>10. HFSTable(i) = h
  BY ONLY <1>5, <1>7, <1>8, HFSTableIs
<1>11. JoinedVolume(i.plst[1]) = d
  <2>1. i.plst[1] = a
    BY ONLY <1>1, RegionIs
  <2>2. JoinedVolume(a) = VolumeWithRaw(a, a.raw)
    BY ONLY <1>2, JoinedIs
  <2>3. QED
    BY ONLY <1>4, <2>1, <2>2
<1>12. PICK new : new = Resum(list, h, d)
  OBVIOUS
<1>13. j = Image(i.fork, i.sum, new, i.cSum, i.nsiz, i.pNum, i.plst, i.koly)
  <2>1. j = [i EXCEPT !.blkx[h].sum = d]
    BY ONLY <1>10, <1>11, j = Resummed(i), Zenon DEF Resummed
  <2>2. j = [i EXCEPT !.blkx = new]
    BY ONLY <1>5, <1>12, <2>1, Zenon DEF Resum
  <2>3. QED
    BY ONLY <1>1, <2>2 DEF ImageIs, Image
<1>14. /\ ImageIs(j) /\ j.fork = i.fork /\ j.blkx = new /\ j.pNum = i.pNum
       /\ j.plst = i.plst /\ j.koly = i.koly
  BY ONLY <1>13, ImageFields
<1>15. /\ new \in Seq(TableType) /\ Len(new) = Len(list)
       /\ new[h] = Summed(list[h], d)
       /\ \A k \in 1 .. Len(list) : k # h => new[k] = list[k]
  BY ONLY <1>7, <1>9, <1>12, ResumIs, d \in Seq(Sector)
<1>16. ASSUME NEW r \in Seq(Sector), Len(r) = Len(a.raw)
       PROVE  Tables(ForkWith(a, r), VolumeWithRaw(a, r), new)
  <2>1. Tables(ForkWith(a, r), VolumeWithRaw(a, r), list)
    BY ONLY <1>2, <1>5, <1>16 DEF Writable
  <2>2. QED
    BY ONLY <1>7, <1>9, <1>12, <2>1, TablesResum, d \in Seq(Sector)
<1>17. Writable(a, new)
  BY ONLY <1>16 DEF Writable
<1>18. Signature(j, a)
  BY ONLY <1>1, <1>14, <1>17 DEF Signature
<1>19. Rewriting(j, a)
  BY ONLY <1>1, <1>14, <1>18 DEF Rewriting, Trailing
<1>20. AllSound(j.fork, new)
  <2>1. PICK t : t = list[h]
    OBVIOUS
  <2>2. t \in TableType /\ HasData(i.fork, t, d)
    BY ONLY <1>9, <2>1 DEF HasData
  <2>3. PICK e : e = Summed(t, d)
    OBVIOUS
  <2>4. /\ e \in TableType /\ e.sum = d /\ e.runs = t.runs /\ e.count = t.count
    BY ONLY <2>2, <2>3, SummedIs, d \in Seq(Sector)
  <2>5. Sound(i.fork, e)
    BY ONLY <2>2, <2>4 DEF Sound, HasData
  <2>6. new[h] = e
    BY ONLY <1>15, <2>1, <2>3
  <2>7. \A k \in 1 .. Len(new) : Sound(i.fork, new[k])
    BY ONLY <1>8, <1>15, <2>5, <2>6 DEF OfVolume
  <2>8. QED
    BY ONLY <1>14, <1>15, <2>7 DEF AllSound
<1>21. QED
  BY ONLY <1>14, <1>19, <1>20

Resigned(i) ==
  [i EXCEPT !.koly = <<[@[1] EXCEPT !.forkSum = Joined(i.plst[1]),
                                    !.masterSum = MasterSum(i.blkx)]>>]

LEMMA ResignedIs ==
  ASSUME NEW i, NEW a, Rewriting(i, a), AllSound(i.fork, i.blkx), NEW j, j = Resigned(i)
  PROVE  Complete(j) /\ Signature(j, a)
<1>1. Signature(i, a) /\ ImageIs(i) /\ i.fork \in Seq(Cell) /\ i.pNum \in Id /\ Trailing(i)
  BY DEF Rewriting
<1>2. AttributionType(a) /\ i.fork = ForkWith(a, a.raw)
  BY ONLY <1>1 DEF Signature
<1>3. Joined(i.plst[1]) = i.fork
  <2>1. i.plst[1] = a
    BY ONLY <1>1, RegionIs
  <2>2. Joined(a) = ForkWith(a, a.raw)
    BY ONLY <1>2, JoinedIs
  <2>3. QED
    BY ONLY <1>2, <2>1, <2>2
<1>4. PICK sum, master, n : i.koly = <<Koly(Len(i.fork), sum, master, n)>>
  BY ONLY <1>1 DEF Trailing
<1>5. PICK l : l = Len(i.fork)
  OBVIOUS
<1>6. PICK m : m = MasterSum(i.blkx)
  OBVIOUS
<1>7. PICK f : f = i.fork
  OBVIOUS
<1>8. PICK z : z = Koly(l, sum, master, n)
  OBVIOUS
<1>9. i.koly[1] = z
  BY ONLY <1>4, <1>5, <1>8
<1>10. [z EXCEPT !.forkSum = f, !.masterSum = m] = Koly(l, f, m, n)
  <2>1. PICK y : y = [z EXCEPT !.forkSum = f]
    OBVIOUS
  <2>2. y = Koly(l, f, master, n)
    BY ONLY <1>8, <2>1 DEF Koly
  <2>3. [y EXCEPT !.masterSum = m] = Koly(l, f, m, n)
    BY ONLY <2>2 DEF Koly
  <2>4. QED
    BY ONLY <2>1, <2>3, Zenon
<1>11. PICK k : k = <<Koly(l, f, m, n)>>
  OBVIOUS
<1>12. j = [i EXCEPT !.koly = k]
  BY ONLY <1>3, <1>6, <1>7, <1>9, <1>10, <1>11, j = Resigned(i), Zenon DEF Resigned
<1>13. j = Image(i.fork, i.sum, i.blkx, i.cSum, i.nsiz, i.pNum, i.plst, k)
  BY ONLY <1>1, <1>12 DEF ImageIs, Image
<1>14. /\ ImageIs(j) /\ j.fork = i.fork /\ j.blkx = i.blkx /\ j.pNum = i.pNum
       /\ j.plst = i.plst /\ j.koly = k
  BY ONLY <1>13, ImageFields
<1>15. Trailed(j)
  BY ONLY <1>5, <1>6, <1>7, <1>11, <1>14 DEF Trailed
<1>16. Signature(j, a)
  BY ONLY <1>1, <1>14, Zenon DEF Signature
<1>17. Signed(j)
  BY ONLY <1>16, Zenon DEF Signed
<1>18. QED
  BY ONLY <1>1, <1>14, <1>15, <1>17, <1>16, AllSound(i.fork, i.blkx) DEF Complete

-----------------------------------------------------------------------------
(* What is read of an image.                                               *)

LEMMA SectorOf ==
  ASSUME NEW s \in Seq(Sector), NEW k \in 1 .. Len(s)
  PROVE  s[k] \in Sector
  BY ElementOfSeq

LEMMA ExtractType ==
  ASSUME NEW fork \in Seq(Cell), NEW t, Sound(fork, t)
  PROVE  Extract(fork, t) \in Seq(Sector) /\ Len(Extract(fork, t)) = t.count
<1>1. t.runs \in Seq(RunType) /\ Fits(fork, t.runs)
  BY DEF Sound, TableType
<1>2. PICK x : x = Expands(fork, t.runs)
  OBVIOUS
<1>3. x \in Seq(Seq(Sector))
  BY <1>1, <1>2, ListsType
<1>4. FlattenSeq(x) \in Seq(Sector)
  BY ONLY <1>3, FlattenType
<1>5. Len(FlattenSeq(x)) = t.count
  BY ONLY <1>2, Sound(fork, t) DEF Sound
<1>6. Extract(fork, t) = FlattenSeq(x)
  BY ONLY <1>2, ExtractIs
<1>7. QED
  BY ONLY <1>4, <1>5, <1>6

LEMMA VolumeType ==
  ASSUME NEW i, i.fork \in Seq(Cell), AllSound(i.fork, i.blkx), HasHFS(i)
  PROVE  VolumeOf(i) \in Seq(Sector)
<1>1. PICK T : T = {k \in DOMAIN i.blkx : i.blkx[k].name \in HFSNames}
  OBVIOUS
<1>2. DOMAIN i.blkx = 1 .. Len(i.blkx)
  BY LenProperties DEF AllSound
<1>3. T \subseteq Nat /\ T # {}
  <2>1. T # {}
    BY ONLY <1>1, HasHFS(i) DEF HasHFS
  <2>2. PICK n \in Nat : n = Len(i.blkx)
    BY LenProperties DEF AllSound
  <2>3. 1 .. n \subseteq Nat
    OBVIOUS
  <2>4. QED
    BY ONLY <1>1, <1>2, <2>1, <2>2, <2>3
<1>4. Min(T) \in T
  BY ONLY <1>3, MinIs
<1>5. PICK h \in 1 .. Len(i.blkx) : h = HFSTable(i)
  BY ONLY <1>1, <1>2, <1>4 DEF HFSTable
<1>6. Sound(i.fork, i.blkx[h])
  BY <1>5 DEF AllSound
<1>7. QED
  BY ONLY <1>5, <1>6, ExtractType, i.fork \in Seq(Cell) DEF VolumeOf

LEMMA DeviceType ==
  ASSUME NEW i, i.fork \in Seq(Cell), AllSound(i.fork, i.blkx)
  PROVE  Device(i) \in Seq(Sector)
<1>1. PICK n \in Nat : n = Len(i.blkx)
  BY LenProperties DEF AllSound
<1>2. DOMAIN i.blkx = 1 .. n
  BY <1>1, LenProperties DEF AllSound
<1>3. \A k \in 1 .. n : Sound(i.fork, i.blkx[k])
  BY <1>1 DEF AllSound
<1>4. \A k \in 1 .. n : i.blkx[k].first \in Nat /\ i.blkx[k].count \in Nat
  BY ONLY <1>3 DEF Sound, TableType
<1>5. PICK f : f = [k \in 1 .. n |-> i.blkx[k].first + i.blkx[k].count]
  OBVIOUS
<1>6. \A k \in 1 .. n : f[k] = i.blkx[k].first + i.blkx[k].count /\ f[k] \in Nat
  BY <1>4, <1>5
<1>7. PICK b \in Nat : \A k \in 1 .. n : f[k] <= b
  BY ONLY <1>1, <1>6, SomeBound
<1>8. PICK T : T = {0} \cup {i.blkx[k].first + i.blkx[k].count : k \in DOMAIN i.blkx}
  OBVIOUS
<1>9. T \subseteq Nat /\ T # {} /\ \A y \in T : y <= b
  <2>1. 0 \in T /\ 0 <= b /\ 0 \in Nat
    BY <1>7, <1>8
  <2>2. \A y \in T : y = 0 \/ \E k \in 1 .. n : y = f[k]
    BY ONLY <1>2, <1>6, <1>8
  <2>3. QED
    BY ONLY <1>6, <1>7, <2>1, <2>2
<1>10. PICK end : end = Max(T)
  OBVIOUS
<1>11. end \in Nat
  BY ONLY <1>7, <1>9, <1>10, MaxIs
<1>12. DEFINE H(s) == {k \in DOMAIN i.blkx : /\ i.blkx[k].first <= s
                                             /\ s < i.blkx[k].first + i.blkx[k].count}
              D == [k \in DOMAIN i.blkx |-> Extract(i.fork, i.blkx[k])]
              S(s) == IF H(s - 1) = {} THEN Zero
                      ELSE LET k == Max(H(s - 1)) IN D[k][s - i.blkx[k].first]
<1>13. Device(i) = [s \in 1 .. end |-> S(s)]
  BY ONLY <1>8, <1>10 DEF Device
<1>14. Zero \in Sector
  BY DEF Sector, Content
<1>15. ASSUME NEW s \in 1 .. end PROVE S(s) \in Sector
  <2>1. CASE H(s - 1) = {}
    BY ONLY <1>14, <2>1
  <2>2. CASE H(s - 1) # {}
    <3>1. PICK G : G = H(s - 1)
      OBVIOUS
    <3>2. G \subseteq Nat /\ G # {} /\ \A y \in G : y <= n
      <4>1. \A y \in G : y \in 1 .. n
        BY ONLY <1>2, <3>1
      <4>2. QED
        BY ONLY <1>1, <2>2, <3>1, <4>1
    <3>3. Max(G) \in G
      BY ONLY <1>1, <3>2, MaxIs
    <3>4. PICK k : k = Max(G)
      OBVIOUS
    <3>5. /\ k \in 1 .. n /\ i.blkx[k].first <= s - 1
          /\ s - 1 < i.blkx[k].first + i.blkx[k].count
      BY ONLY <1>2, <3>1, <3>3, <3>4
    <3>6. PICK x \in Seq(Sector) : x = Extract(i.fork, i.blkx[k]) /\ Len(x) = i.blkx[k].count
      <4>1. Sound(i.fork, i.blkx[k])
        BY ONLY <1>3, <3>5
      <4>2. QED
        BY ONLY <4>1, ExtractType, i.fork \in Seq(Cell)
    <3>7. PICK a \in Nat, c \in Nat : a = i.blkx[k].first /\ c = i.blkx[k].count
      BY ONLY <1>4, <3>5
    <3>8. s - a \in 1 .. c
      <4>1. s \in Int /\ a <= s - 1 /\ s - 1 < a + c
        BY <1>11, <3>5, <3>7
      <4>2. QED
        BY ONLY <3>7, <4>1
    <3>9. x[s - a] \in Sector
      BY ONLY <3>6, <3>7, <3>8, SectorOf
    <3>10. D[k] = x
      BY ONLY <1>2, <3>5, <3>6
    <3>11. S(s) = x[s - a]
      BY ONLY <2>2, <3>1, <3>4, <3>7, <3>10
    <3>12. QED
      BY ONLY <3>9, <3>11
  <2>3. QED
    BY ONLY <2>1, <2>2
<1>16. Device(i) \in [1 .. end -> Sector]
  BY ONLY <1>13, <1>15
<1>17. QED
  BY ONLY <1>11, <1>16, SeqDef

-----------------------------------------------------------------------------
(* What a conversion reads.                                                *)

LEMMA Marked ==
  ASSUME NEW s \in Sector
  PROVE  /\ s[1] = "DDM" => s[2] \in BlockSizes
         /\ s[1] = "entry" => s[2] \in Name /\ s[3] \in Nat /\ s[4] \in Nat
<1>1. CASE s \in Content
  <2>1. s[1] \notin {"DDM", "entry"}
    BY <1>1, ContentAssumption
  <2>2. QED
    BY <2>1
<1>2. CASE s \in {"DDM"} \X BlockSizes \X Nat
  <2>1. s[1] = "DDM" /\ s[2] \in BlockSizes
    BY <1>2
  <2>2. QED
    BY <2>1
<1>3. CASE s \in {"entry"} \X Name \X Nat \X Nat
  <2>1. s[1] = "entry" /\ s[2] \in Name /\ s[3] \in Nat /\ s[4] \in Nat
    BY <1>3
  <2>2. QED
    BY <2>1
<1>4. QED
  BY <1>1, <1>2, <1>3 DEF Sector

LEMMA DDMIs ==
  ASSUME NEW input \in Seq(Sector), HasDDM(input)
  PROVE  input[1] \in Sector /\ BlockOf(input) \in BlockSizes
<1>1. PICK n \in Nat : n = Len(input)
  BY LenProperties
<1>2. n # 0
  <2>1. input # <<>>
    BY DEF HasDDM
  <2>2. QED
    BY <1>1, <2>1, EmptySeq
<1>3. 1 \in 1 .. Len(input)
  BY <1>1, <1>2
<1>4. input[1] \in Sector
  BY ONLY <1>3, SectorOf, input \in Seq(Sector)
<1>5. input[1][2] \in BlockSizes
  BY ONLY <1>4, Marked, HasDDM(input) DEF HasDDM
<1>6. QED
  BY ONLY <1>4, <1>5 DEF BlockOf

LEMMA EntryIs ==
  ASSUME NEW input \in Seq(Sector), HasDDM(input), NEW i \in Nat, i < pmMapBlkCnt,
         BlockOf(input) * (1 + pmMapBlkCnt) <= Len(input),
         NEW e, e = EntryAt(input, i), e[1] = "entry"
  PROVE  e[2] \in Name /\ e[3] \in Nat /\ e[4] \in Nat
<1>1. PICK n \in Nat : n = Len(input)
  BY LenProperties
<1>2. PICK b \in Nat : b = BlockOf(input) /\ (b = 1 \/ b = 4)
  BY DDMIs DEF BlockSizes
<1>3. b + i + 1 \in 1 .. n
  <2>1. b * 5 <= n /\ i < 4
    BY <1>1, <1>2 DEF pmMapBlkCnt
  <2>2. QED
    BY <1>1, <1>2, <2>1
<1>4. PICK k : k = b + i + 1
  OBVIOUS
<1>5. k \in 1 .. Len(input)
  BY <1>1, <1>3, <1>4
<1>6. input[k] \in Sector
  BY ONLY <1>5, SectorOf, input \in Seq(Sector)
<1>7. e = input[k]
  BY ONLY <1>2, <1>4, e = EntryAt(input, i) DEF EntryAt
<1>8. QED
  BY ONLY <1>6, <1>7, Marked, e[1] = "entry"

(* An image to which a conversion adds a partition.                        *)
Bare(i) == Work(i) /\ i.plst = <<>>

LEMMA ConvertedBare ==
  ASSUME Bare(w), NEW data \in Seq(Sector), NEW first \in Nat, NEW id \in Id,
         NEW name \in Name, NEW j, j = AddConverted(data, first, id, name)
  PROVE  Bare(j) /\ j.pNum = w.pNum
<1>1. PICK kept : kept = {}
  OBVIOUS
<1>2. PICK part : part = AddPartition(w, data, first, id, name, kept)
  OBVIOUS
<1>3. Work(w) /\ w.plst = <<>>
  BY DEF Bare
<1>4. PICK t : /\ t = TableOf(data, first, id, name, kept, Len(w.fork))
               /\ Added(w, part, data, kept, t)
  BY ONLY <1>2, <1>3, WorkPartition, data \in Seq(Sector), first \in Nat, id \in Id,
          name \in Name
<1>5. Work(part) /\ part.pNum = w.pNum /\ part.plst = w.plst
  BY ONLY <1>4 DEF Added
<1>6. PICK nsiz : nsiz = Append(part.nsiz, [id |-> id, sum |-> data])
  OBVIOUS
<1>7. j = AddSums(part, id, data, nsiz)
  BY ONLY <1>1, <1>2, <1>6, j = AddConverted(data, first, id, name), Zenon DEF AddConverted
<1>8. ImageIs(part)
  BY ONLY <1>5 DEF Work
<1>9. PICK c : j = Image(part.fork, part.sum, part.blkx, c, nsiz, part.pNum, part.plst,
                         part.koly)
  BY ONLY <1>7, <1>8, AddSumsIs
<1>10. /\ ImageIs(j) /\ j.fork = part.fork /\ j.sum = part.sum /\ j.blkx = part.blkx
       /\ j.pNum = part.pNum /\ j.plst = part.plst /\ j.koly = part.koly
  BY ONLY <1>9, ImageFields
<1>11. Work(j)
  BY ONLY <1>5, <1>10 DEF Work
<1>12. QED
  BY ONLY <1>3, <1>5, <1>10, <1>11 DEF Bare

LEMMA BareNumbered ==
  ASSUME NEW i, Bare(i), NEW p \in Id, NEW j, j = Numbered(i, p)
  PROVE  Bare(j) /\ j.pNum = p
<1>1. Work(j) /\ j.plst = i.plst /\ j.pNum = p
  BY ONLY Bare(i), WorkNumbered, p \in Id, j = Numbered(i, p) DEF Bare
<1>2. QED
  BY ONLY <1>1, Bare(i) DEF Bare

LEMMA BareComplete ==
  ASSUME NEW i, Bare(i), NEW n, NEW j, j = Trailer(i, n)
  PROVE  Complete(j)
<1>1. Work(i) /\ Signed(i)
  BY DEF Bare, Signed
<1>2. QED
  BY ONLY <1>1, TrailerComplete, j = Trailer(i, n)
-----------------------------------------------------------------------------
(* The inputs of the commands.                                             *)

LEMMA ContentOf ==
  ASSUME NEW s, IsSequence(s), Range(s) \subseteq Content
  PROVE  s \in Seq(Sector)
<1>1. Content \subseteq Sector
  BY DEF Sector
<1>2. Range(s) \subseteq Sector
  BY <1>1
<1>3. s \in Seq(Range(s))
  BY DEF IsSequence
<1>4. QED
  BY ONLY <1>2, <1>3, SeqMonotonic

LEMMA VolumesAre ==
  ASSUME NEW v \in Volumes
  PROVE  v \in Seq(Sector)
<1>1. Range(v) \subseteq Content
  BY DEF Content
<1>2. IsSequence(v)
  BY ContentAssumption
<1>3. QED
  BY ONLY <1>1, <1>2, ContentOf

LEMMA PatchesAre ==
  ASSUME NEW p \in Patches
  PROVE  p.data \in Seq(Sector) /\ Len(p.anchor) \in Nat
<1>1. Range(p.data) \subseteq Content
  BY DEF Content
<1>2. IsSequence(p.data) /\ IsSequence(p.anchor)
  BY ContentAssumption
<1>3. p.data \in Seq(Sector)
  BY ONLY <1>1, <1>2, ContentOf
<1>4. Len(p.anchor) \in Nat
  BY ONLY <1>2, LenProperties DEF IsSequence
<1>5. QED
  BY ONLY <1>3, <1>4

(* What a 32-bit size leaves of a volume.                                  *)
LEMMA VolumeData ==
  ASSUME NEW volume \in Seq(Sector), NEW n, n = SectorsIn(volume)
  PROVE  n \in Nat /\ SubSeq(volume, 1, n) \in Seq(Sector)
<1>1. PICK l \in Nat : l = Len(volume)
  BY LenProperties
<1>2. n = l % WordSectors
  BY <1>1 DEF SectorsIn
<1>3. n \in Nat /\ n <= l
  BY <1>1, <1>2, SizesAssumption
<1>4. PICK o \in Nat : o = 0 /\ o + 1 = 1 /\ o <= n
  BY <1>3
<1>5. SubSeq(volume, o + 1, n) \in Seq(Sector)
  BY ONLY <1>1, <1>3, <1>4, SliceIs, volume \in Seq(Sector)
<1>6. QED
  BY ONLY <1>3, <1>4, <1>5

-----------------------------------------------------------------------------
(***************************************************************************)
(* The inductive invariant.                                                *)
(***************************************************************************)

CommandIs(c) ==
  /\ c = [name |-> c.name, input |-> c.input, block |-> c.block,
          sentinel |-> c.sentinel, patch |-> c.patch, result |-> c.result]
  /\ c.block \in BlockSizes /\ c.sentinel \in BOOLEAN

Volume(c) == SubSeq(c.input, 1, SectorsIn(c.input))

(* A build: what comes before the volume, the volume, what comes behind.   *)
Building(p, c, i) ==
  /\ c.name = "build" /\ c.input \in Seq(Sector)
  /\ \/ p = "ddm" /\ i = EmptyImage
     \/ p \in {"map", "atapi", "main"} /\ Prelude(i)
     \/ p = "free" /\ Main(i, Volume(c)) /\ Fresh(i)
     \/ p = "trailer" /\ Main(i, Volume(c))

Mapped(input) ==
  HasDDM(input) /\ BlockOf(input) * (1 + pmMapBlkCnt) <= Len(input)

Converting(p, c, i) ==
  /\ c.name = "convert" /\ c.input \in Seq(Sector)
  /\ \/ p = "entries" /\ Bare(i) /\ HasDDM(c.input) /\ i.pNum \in Nat
     \/ p = "partition" /\ Bare(i) /\ Mapped(c.input) /\ i.pNum \in Nat
     \/ p = "whole" /\ i = EmptyImage

(* The volume is the input but for the raw runs, over whose first anchor   *)
(* the data went.                                                          *)
Overwrites(a, c) ==
  \E r \in Seq(Sector) :
    /\ Len(r) = Len(a.raw) /\ c.input = VolumeWithRaw(a, r)
    /\ a.raw = Overwritten(r, Min(Marks(c.patch.anchor, r)), c.patch.data)

Attributing(p, c, i, o) ==
  /\ c.name = "attribute"
  /\ \/ /\ p = "patch" /\ i = o /\ Complete(o) /\ o.plst # <<>>
        /\ c.patch \in Patches /\ c.input = VolumeOf(o)
     \/ p = "sums" /\ \E a : Rewriting(i, a) /\ Overwrites(a, c)
     \/ /\ p = "koly" /\ AllSound(i.fork, i.blkx)
        /\ \E a : Rewriting(i, a) /\ Overwrites(a, c)

(* A command that left its buffer, or that is over.                        *)
Left(i) == Bare(i) \/ Complete(i)

Resting(c, i, o) ==
  /\ Left(i)
  /\ c.name = "build" /\ c.result = "done" => Tables(o.fork, Volume(c), o.blkx)
  /\ c.name = "attribute" /\ c.result = "done" => \E a : Signature(o, a) /\ Overwrites(a, c)

Working(p, c, i, o) ==
  \/ Building(p, c, i) \/ Converting(p, c, i) \/ Attributing(p, c, i, o)
  \/ p = "wild" /\ Left(i)

Standing(p, c, i, o) ==
  \/ c.result = "running" /\ Working(p, c, i, o)
  \/ c.result \in {"refused", "done"} /\ p = "idle" /\ Resting(c, i, o)

Whole(o) == o = EmptyImage \/ Complete(o)

ImageInv ==
  /\ CommandIs(cmd) /\ count \in 0 .. MaxCommands /\ dev \in Seq(Sector) /\ Whole(img)
  /\ Standing(pc, cmd, w, img)

LEMMA EmptyIs ==
  Bare(EmptyImage) /\ EmptyImage.plst = <<>> /\ EmptyImage.koly = <<>>
<1>1. Prelude(EmptyImage)
  BY EmptyWork
<1>2. EmptyImage.plst = <<>> /\ EmptyImage.koly = <<>>
  BY DEF EmptyImage
<1>3. QED
  BY <1>1, <1>2 DEF Prelude, Bare

LEMMA FinishedIs ==
  ASSUME NEW o, Whole(o), o.koly # <<>>
  PROVE  Complete(o)
  BY EmptyIs DEF Whole

(* The volume of an image.                                                 *)
LEMMA TablesVolume ==
  ASSUME NEW i, NEW d, Tables(i.fork, d, i.blkx)
  PROVE  HasHFS(i) /\ VolumeOf(i) = d
<1>1. i.blkx \in Seq(TableType)
  BY DEF Tables
<1>2. PICK h : OfVolume(i.fork, d, i.blkx, h)
  BY DEF Tables
<1>3. HFSTable(i) = h
  BY ONLY <1>1, <1>2, HFSTableIs
<1>4. h \in 1 .. Len(i.blkx) /\ i.blkx[h].name \in HFSNames /\ HasData(i.fork, i.blkx[h], d)
  BY ONLY <1>2 DEF OfVolume
<1>5. h \in DOMAIN i.blkx
  BY ONLY <1>1, <1>4, LenProperties
<1>6. HasHFS(i)
  BY ONLY <1>4, <1>5 DEF HasHFS
<1>7. Extract(i.fork, i.blkx[h]) = d
  BY ONLY <1>4, ExtractIs DEF HasData
<1>8. QED
  BY ONLY <1>3, <1>6, <1>7 DEF VolumeOf

LEMMA SignatureVolume ==
  ASSUME NEW i, NEW a, Signature(i, a)
  PROVE  HasHFS(i) /\ VolumeOf(i) = VolumeWithRaw(a, a.raw)
<1>1. AttributionType(a) /\ i.fork = ForkWith(a, a.raw) /\ Writable(a, i.blkx)
  BY DEF Signature
<1>2. a.raw \in Seq(Sector)
  BY ONLY <1>1 DEF AttributionType
<1>3. Tables(i.fork, VolumeWithRaw(a, a.raw), i.blkx)
  BY ONLY <1>1, <1>2 DEF Writable
<1>4. QED
  BY ONLY <1>3, TablesVolume

(* Commands.                                                               *)
LEMMA CommandType ==
  ASSUME NEW name, NEW input, NEW c, c = Command(name, input)
  PROVE  /\ CommandIs(c) /\ c.name = name /\ c.input = input /\ c.result = "running"
         /\ c.patch = NoPatch
  BY DEF Command, CommandIs, BlockSizes

WithResult(c, r) == [c EXCEPT !.result = r]

LEMMA ResultIs ==
  ASSUME NEW c, CommandIs(c), NEW r, NEW d, d = WithResult(c, r)
  PROVE  /\ CommandIs(d) /\ d.name = c.name /\ d.input = c.input /\ d.block = c.block
         /\ d.sentinel = c.sentinel /\ d.patch = c.patch /\ d.result = r
<1>1. d = [name |-> c.name, input |-> c.input, block |-> c.block,
           sentinel |-> c.sentinel, patch |-> c.patch, result |-> r]
  BY DEF CommandIs, WithResult
<1>2. /\ d.name = c.name /\ d.input = c.input /\ d.block = c.block
      /\ d.sentinel = c.sentinel /\ d.patch = c.patch /\ d.result = r
  BY ONLY <1>1
<1>3. CommandIs(d)
  BY ONLY <1>1, <1>2, CommandIs(c) DEF CommandIs
<1>4. QED
  BY ONLY <1>2, <1>3

LEMMA ImageInit == Init => ImageInv
<1> SUFFICES ASSUME Init PROVE ImageInv
  OBVIOUS
<1>1. PICK c : c = Command("none", <<>>)
  OBVIOUS
<1>2. CommandIs(c) /\ c.name = "none"
  BY <1>1, CommandType
<1>3. cmd = [c EXCEPT !.result = "done"]
  BY <1>1 DEF Init
<1>4. CommandIs(cmd) /\ cmd.name = "none" /\ cmd.result = "done"
  <2>1. PICK r : r = "done"
    OBVIOUS
  <2>2. cmd = WithResult(c, r)
    BY ONLY <1>3, <2>1 DEF WithResult
  <2>3. CommandIs(cmd) /\ cmd.name = c.name /\ cmd.result = r
    BY ONLY <1>2, <2>2, ResultIs
  <2>4. QED
    BY ONLY <1>2, <2>1, <2>3
<1>5. pc = "idle" /\ w = EmptyImage /\ img = EmptyImage /\ dev = <<>> /\ count = 0
  BY DEF Init
<1>6. dev \in Seq(Sector) /\ count \in 0 .. MaxCommands
  BY <1>5, EmptySeq, SizesAssumption
<1>7. Left(w) /\ Whole(img)
  BY ONLY <1>5, EmptyIs DEF Left, Whole
<1>8. Standing(pc, cmd, w, img)
  BY ONLY <1>4, <1>5, <1>7 DEF Standing, Resting
<1>9. QED
  BY ONLY <1>4, <1>6, <1>7, <1>8 DEF ImageInv

(* What a stage finds, and what it has to leave.                           *)
LEMMA InWork ==
  ASSUME ImageInv, pc # "idle"
  PROVE  cmd.result = "running" /\ Working(pc, cmd, w, img) /\ CommandIs(cmd)
  BY DEF ImageInv, Standing

LEMMA BuildingIs ==
  ASSUME ImageInv, pc \in {"ddm", "map", "atapi", "main", "free", "trailer"}
  PROVE  Building(pc, cmd, w) /\ cmd.result = "running" /\ CommandIs(cmd)
<1>1. Working(pc, cmd, w, img) /\ cmd.result = "running" /\ CommandIs(cmd)
  BY InWork
<1>2. QED
  BY <1>1 DEF Working, Converting, Attributing

LEMMA BuildStep ==
  ASSUME ImageInv, NEW p, NEW q, NEW j, Step(p, q, j), cmd.result = "running",
         Building(q, cmd, j)
  PROVE  ImageInv'
<1>1. /\ CommandIs(cmd) /\ count \in 0 .. MaxCommands /\ dev \in Seq(Sector) /\ Whole(img)
  BY DEF ImageInv
<1>2. pc' = q /\ w' = j /\ cmd' = cmd /\ img' = img /\ dev' = dev /\ count' = count
  BY DEF Step
<1>3. Standing(q, cmd, j, img)
  BY DEF Standing, Working
<1>4. QED
  BY ONLY <1>1, <1>2, <1>3 DEF ImageInv

(* The sizes of a build.                                                   *)
LEMMA BuildSizes ==
  ASSUME ImageInv, NEW p, Building(p, cmd, w)
  PROVE  /\ cmd.input \in Seq(Sector) /\ cmd.name = "build"
         /\ cmd.block \in BlockSizes /\ cmd.sentinel \in BOOLEAN
         /\ VolumeSectors \in Nat /\ VolumeSectors = SectorsIn(cmd.input)
         /\ Volume(cmd) \in Seq(Sector)
<1>1. cmd.input \in Seq(Sector) /\ cmd.name = "build"
  BY DEF Building
<1>2. cmd.block \in BlockSizes /\ cmd.sentinel \in BOOLEAN
  BY DEF ImageInv, CommandIs
<1>3. PICK n : n = SectorsIn(cmd.input)
  OBVIOUS
<1>4. n \in Nat /\ SubSeq(cmd.input, 1, n) \in Seq(Sector)
  BY ONLY <1>1, <1>3, VolumeData
<1>5. QED
  BY ONLY <1>1, <1>2, <1>3, <1>4 DEF VolumeSectors, Volume

LEMMA BuildDmgInv ==
  ASSUME ImageInv, NEW v \in Volumes, NEW b \in BlockSizes, NEW s \in BOOLEAN,
         BuildDmg(v, b, s)
  PROVE  ImageInv'
<1>1. PICK z : z = Command("build", v)
  OBVIOUS
<1>2. CommandIs(z) /\ z.name = "build" /\ z.input = v /\ z.result = "running"
  BY ONLY <1>1, CommandType
<1>3. PICK c : c = [z EXCEPT !.block = b, !.sentinel = s]
  OBVIOUS
<1>4. c = [name |-> z.name, input |-> z.input, block |-> b,
           sentinel |-> s, patch |-> z.patch, result |-> z.result]
  <2>1. PICK y : y = [z EXCEPT !.block = b]
    OBVIOUS
  <2>2. y = [name |-> z.name, input |-> z.input, block |-> b,
             sentinel |-> z.sentinel, patch |-> z.patch, result |-> z.result]
    BY ONLY <1>2, <2>1 DEF CommandIs
  <2>3. c = [y EXCEPT !.sentinel = s]
    BY ONLY <1>3, <2>1, Zenon
  <2>4. QED
    BY ONLY <2>2, <2>3
<1>5. CommandIs(c) /\ c.name = "build" /\ c.input = v /\ c.result = "running"
  BY ONLY <1>2, <1>4, b \in BlockSizes, s \in BOOLEAN DEF CommandIs
<1>6. v \in Seq(Sector)
  BY VolumesAre
<1>7. Start(c, "ddm", EmptyImage)
  BY ONLY <1>1, <1>3, BuildDmg(v, b, s) DEF BuildDmg
<1>8. Standing("ddm", c, EmptyImage, img)
  BY ONLY <1>5, <1>6 DEF Standing, Working, Building
<1>9. /\ count' \in 0 .. MaxCommands /\ dev' \in Seq(Sector) /\ Whole(img)
  BY <1>7, SizesAssumption DEF Start, ImageInv
<1>10. cmd' = c /\ pc' = "ddm" /\ w' = EmptyImage /\ img' = img
  BY ONLY <1>7 DEF Start
<1>11. QED
  BY ONLY <1>5, <1>8, <1>9, <1>10 DEF ImageInv

LEMMA DescriptorMapInv ==
  ASSUME ImageInv, WriteDriverDescriptorMap
  PROVE  ImageInv'
<1>1. pc = "ddm"
  BY DEF WriteDriverDescriptorMap, Step
<1>2. Building(pc, cmd, w) /\ cmd.result = "running"
  BY <1>1, BuildingIs
<1>3. w = EmptyImage /\ cmd.input \in Seq(Sector) /\ cmd.name = "build"
  BY <1>1, <1>2 DEF Building
<1>4. cmd.block \in BlockSizes /\ VolumeSectors \in Nat
  BY <1>2, BuildSizes
<1>5. PICK ddm : ddm = DescriptorMap(VolumeSectors, cmd.block)
  OBVIOUS
<1>6. ddm \in Sector
  BY ONLY <1>4, <1>5, EntriesType
<1>7. PICK j : j = WithDDM(w, ddm, cmd.block)
  OBVIOUS
<1>8. Prelude(w)
  BY ONLY <1>3, EmptyWork
<1>9. Prelude(j)
  BY ONLY <1>4, <1>6, <1>7, <1>8, WithDDMPrelude
<1>10. Step("ddm", "map", j)
  BY ONLY <1>5, <1>7, WriteDriverDescriptorMap DEF WriteDriverDescriptorMap
<1>11. Building("map", cmd, j)
  BY ONLY <1>3, <1>9 DEF Building
<1>12. QED
  BY ONLY <1>2, <1>10, <1>11, BuildStep, ImageInv

LEMMA PartitionMapInv ==
  ASSUME ImageInv, WriteApplePartitionMap
  PROVE  ImageInv'
<1>1. pc = "map"
  BY DEF WriteApplePartitionMap, Step
<1>2. Building(pc, cmd, w) /\ cmd.result = "running"
  BY <1>1, BuildingIs
<1>3. Prelude(w) /\ cmd.input \in Seq(Sector) /\ cmd.name = "build"
  BY <1>1, <1>2 DEF Building
<1>4. cmd.block \in BlockSizes /\ VolumeSectors \in Nat
  BY <1>2, BuildSizes
<1>5. PICK j : j = WithMap(w, VolumeSectors, cmd.block)
  OBVIOUS
<1>6. Prelude(j)
  BY ONLY <1>3, <1>4, <1>5, WithMapPrelude
<1>7. Step("map", "atapi", j)
  BY ONLY <1>5, WriteApplePartitionMap DEF WriteApplePartitionMap
<1>8. Building("atapi", cmd, j)
  BY ONLY <1>3, <1>6 DEF Building
<1>9. QED
  BY ONLY <1>2, <1>7, <1>8, BuildStep, ImageInv

LEMMA ATAPIInv ==
  ASSUME ImageInv, WriteATAPI
  PROVE  ImageInv'
<1>1. pc = "atapi"
  BY DEF WriteATAPI, Step
<1>2. Building(pc, cmd, w) /\ cmd.result = "running"
  BY <1>1, BuildingIs
<1>3. Prelude(w) /\ cmd.input \in Seq(Sector) /\ cmd.name = "build"
  BY <1>1, <1>2 DEF Building
<1>4. cmd.block \in BlockSizes
  BY <1>2, BuildSizes
<1>5. PICK j : j = WithATAPI(w, cmd.block)
  OBVIOUS
<1>6. Prelude(j)
  BY ONLY <1>3, <1>4, <1>5, WithATAPIPrelude
<1>7. Step("atapi", "main", j)
  BY ONLY <1>5, WriteATAPI DEF WriteATAPI
<1>8. Building("main", cmd, j)
  BY ONLY <1>3, <1>6 DEF Building
<1>9. QED
  BY ONLY <1>2, <1>7, <1>8, BuildStep, ImageInv

LEMMA MainInv ==
  ASSUME ImageInv, WriteMain
  PROVE  ImageInv'
<1>1. pc = "main"
  BY DEF WriteMain, Step
<1>2. Building(pc, cmd, w) /\ cmd.result = "running"
  BY <1>1, BuildingIs
<1>3. Prelude(w) /\ cmd.input \in Seq(Sector) /\ cmd.name = "build"
  BY <1>1, <1>2 DEF Building
<1>4. cmd.sentinel \in BOOLEAN /\ Volume(cmd) \in Seq(Sector)
  BY <1>2, BuildSizes
<1>5. PICK j : j = WithMain(w, cmd.input, cmd.sentinel)
  OBVIOUS
<1>6. PICK data : data = SubSeq(cmd.input, 1, SectorsIn(cmd.input))
  OBVIOUS
<1>7. data = Volume(cmd) /\ data \in Seq(Sector)
  BY ONLY <1>4, <1>6 DEF Volume
<1>8. Main(j, data) /\ Fresh(j)
  BY ONLY <1>3, <1>4, <1>5, <1>6, <1>7, WithMainMain
<1>9. Step("main", "free", j)
  BY ONLY <1>5, WriteMain DEF WriteMain
<1>10. Building("free", cmd, j)
  BY ONLY <1>3, <1>7, <1>8 DEF Building
<1>11. QED
  BY ONLY <1>2, <1>9, <1>10, BuildStep, ImageInv

LEMMA FreeSizes ==
  ASSUME NEW n \in Nat, NEW block \in BlockSizes
  PROVE  USER_OFFSET + n \in Nat /\ Align(FREE_SIZE, block) \in Nat
<1>1. USER_OFFSET + n \in Nat
  BY DEF USER_OFFSET, ATAPI_OFFSET, ATAPI_SIZE
<1>2. CASE block = 1
  BY ONLY <1>1, <1>2 DEF Align, FREE_SIZE
<1>3. CASE block = 4
  BY ONLY <1>1, <1>3 DEF Align, FREE_SIZE
<1>4. QED
  BY <1>2, <1>3 DEF BlockSizes

LEMMA FreePartitionInv ==
  ASSUME ImageInv, WriteFreePartition
  PROVE  ImageInv'
<1>1. pc = "free"
  BY DEF WriteFreePartition, Step
<1>2. Building(pc, cmd, w) /\ cmd.result = "running"
  BY <1>1, BuildingIs
<1>3. /\ Main(w, Volume(cmd)) /\ Fresh(w) /\ cmd.input \in Seq(Sector) /\ cmd.name = "build"
  BY <1>1, <1>2 DEF Building
<1>4. cmd.block \in BlockSizes /\ VolumeSectors \in Nat
  BY <1>2, BuildSizes
<1>5. PICK first : first = USER_OFFSET + VolumeSectors
  OBVIOUS
<1>6. PICK n : n = Align(FREE_SIZE, cmd.block)
  OBVIOUS
<1>7. first \in Nat /\ n \in Nat
  BY ONLY <1>4, <1>5, <1>6, FreeSizes
<1>8. PICK j : j = AddFree(w, first, n)
  OBVIOUS
<1>9. Main(j, Volume(cmd))
  BY ONLY <1>3, <1>7, <1>8, WithFreeMain
<1>10. Step("free", "trailer", j)
  BY ONLY <1>5, <1>6, <1>8, WriteFreePartition DEF WriteFreePartition, WithFree
<1>11. Building("trailer", cmd, j)
  BY ONLY <1>3, <1>9 DEF Building
<1>12. QED
  BY ONLY <1>2, <1>10, <1>11, BuildStep, ImageInv

(* A command that is done.                                                 *)
LEMMA FinishInv ==
  ASSUME ImageInv, NEW j, Finish(j), Complete(j),
         cmd.name = "build" => Tables(j.fork, Volume(cmd), j.blkx),
         cmd.name = "attribute" => \E a : Signature(j, a) /\ Overwrites(a, cmd)
  PROVE  ImageInv'
<1>1. /\ CommandIs(cmd) /\ count \in 0 .. MaxCommands /\ dev \in Seq(Sector)
  BY DEF ImageInv
<1>2. /\ pc' = "idle" /\ w' = j /\ img' = j /\ cmd' = [cmd EXCEPT !.result = "done"]
      /\ dev' = dev /\ count' = count
  BY DEF Finish
<1>3. PICK c : c = [cmd EXCEPT !.result = "done"]
  OBVIOUS
<1>4. /\ CommandIs(c) /\ c.name = cmd.name /\ c.input = cmd.input /\ c.patch = cmd.patch
      /\ c.result = "done"
  <2>1. PICK r : r = "done"
    OBVIOUS
  <2>2. c = WithResult(cmd, r)
    BY ONLY <1>3, <2>1 DEF WithResult
  <2>3. /\ CommandIs(c) /\ c.name = cmd.name /\ c.input = cmd.input /\ c.patch = cmd.patch
        /\ c.result = r
    BY ONLY <1>1, <2>2, ResultIs
  <2>4. QED
    BY ONLY <2>1, <2>3
<1>5. Volume(c) = Volume(cmd)
  BY ONLY <1>4 DEF Volume
<1>6. \A a : Overwrites(a, cmd) => Overwrites(a, c)
  BY ONLY <1>4 DEF Overwrites
<1>7. Resting(c, j, j)
  <2>1. c.name = "build" => Tables(j.fork, Volume(c), j.blkx)
    BY ONLY <1>4, <1>5, cmd.name = "build" => Tables(j.fork, Volume(cmd), j.blkx)
  <2>2. c.name = "attribute" => \E a : Signature(j, a) /\ Overwrites(a, c)
    BY ONLY <1>4, <1>6, Zenon,
            cmd.name = "attribute" => \E a : Signature(j, a) /\ Overwrites(a, cmd)
  <2>3. QED
    BY ONLY <2>1, <2>2, Complete(j) DEF Resting, Left
<1>8. Standing("idle", c, j, j)
  BY ONLY <1>4, <1>7 DEF Standing
<1>9. Whole(j)
  BY DEF Whole
<1>10. QED
  BY ONLY <1>1, <1>2, <1>3, <1>4, <1>8, <1>9 DEF ImageInv

LEMMA TrailerInv ==
  ASSUME ImageInv, WriteTrailer
  PROVE  ImageInv'
<1>1. pc = "trailer"
  BY DEF WriteTrailer
<1>2. Building(pc, cmd, w) /\ cmd.result = "running"
  BY <1>1, BuildingIs
<1>3. Main(w, Volume(cmd)) /\ cmd.name = "build"
  BY <1>1, <1>2 DEF Building
<1>4. PICK n : n = VolumeSectors + Align(EXTRA_SIZE, cmd.block)
  OBVIOUS
<1>5. PICK j : j = Trailer(w, n)
  OBVIOUS
<1>6. Finish(j)
  BY ONLY <1>4, <1>5, WriteTrailer DEF WriteTrailer, WithTrailer
<1>7. /\ Work(w) /\ Tables(w.fork, Volume(cmd), w.blkx) /\ Attributed(w, Volume(cmd))
  BY ONLY <1>3 DEF Main
<1>8. Signed(w)
  BY ONLY <1>7, AttributedSigned
<1>9. Complete(j) /\ j.fork = w.fork /\ j.blkx = w.blkx
  BY ONLY <1>5, <1>7, <1>8, TrailerComplete
<1>10. Tables(j.fork, Volume(cmd), j.blkx)
  BY ONLY <1>7, <1>9
<1>11. cmd.name # "attribute"
  BY ONLY <1>3
<1>12. QED
  BY ONLY <1>6, <1>9, <1>10, <1>11, FinishInv, ImageInv

(* A command that is refused.                                              *)
LEMMA RefuseInv ==
  ASSUME ImageInv, Refuse, Left(w)
  PROVE  ImageInv'
<1>1. /\ CommandIs(cmd) /\ count \in 0 .. MaxCommands /\ dev \in Seq(Sector) /\ Whole(img)
  BY DEF ImageInv
<1>2. /\ pc' = "idle" /\ cmd' = [cmd EXCEPT !.result = "refused"]
      /\ w' = w /\ img' = img /\ dev' = dev /\ count' = count
  BY DEF Refuse
<1>3. PICK c : c = [cmd EXCEPT !.result = "refused"]
  OBVIOUS
<1>4. CommandIs(c) /\ c.result = "refused"
  <2>1. PICK r : r = "refused"
    OBVIOUS
  <2>2. c = WithResult(cmd, r)
    BY ONLY <1>3, <2>1 DEF WithResult
  <2>3. CommandIs(c) /\ c.result = r
    BY ONLY <1>1, <2>2, ResultIs
  <2>4. QED
    BY ONLY <2>1, <2>3
<1>5. Standing("idle", c, w, img)
  BY ONLY <1>4, Left(w) DEF Standing, Resting
<1>6. QED
  BY ONLY <1>1, <1>2, <1>3, <1>4, <1>5 DEF ImageInv

LEMMA ConvertingIs ==
  ASSUME ImageInv, pc \in {"entries", "partition", "whole"}
  PROVE  Converting(pc, cmd, w) /\ cmd.result = "running"
<1>1. Working(pc, cmd, w, img) /\ cmd.result = "running"
  BY InWork
<1>2. QED
  BY <1>1 DEF Working, Building, Attributing

LEMMA WorkStep ==
  ASSUME ImageInv, NEW p, NEW q, NEW j, Step(p, q, j), cmd.result = "running",
         Working(q, cmd, j, img)
  PROVE  ImageInv'
<1>1. /\ CommandIs(cmd) /\ count \in 0 .. MaxCommands /\ dev \in Seq(Sector) /\ Whole(img)
  BY DEF ImageInv
<1>2. pc' = q /\ w' = j /\ cmd' = cmd /\ img' = img /\ dev' = dev /\ count' = count
  BY DEF Step
<1>3. Standing(q, cmd, j, img)
  BY DEF Standing
<1>4. QED
  BY ONLY <1>1, <1>2, <1>3 DEF ImageInv

LEMMA StartInv ==
  ASSUME ImageInv, NEW c, NEW p, NEW j, Start(c, p, j), CommandIs(c),
         Standing(p, c, j, img)
  PROVE  ImageInv'
<1>1. /\ count' \in 0 .. MaxCommands /\ dev' \in Seq(Sector) /\ Whole(img)
  BY SizesAssumption DEF Start, ImageInv
<1>2. cmd' = c /\ pc' = p /\ w' = j /\ img' = img
  BY DEF Start
<1>3. QED
  BY ONLY <1>1, <1>2, CommandIs(c), Standing(p, c, j, img) DEF ImageInv

LEMMA ConvertToDMGInv ==
  ASSUME ImageInv, NEW d \in {dev} \cup Volumes, ConvertToDMG(d)
  PROVE  ImageInv'
<1>1. d \in Seq(Sector)
  BY VolumesAre DEF ImageInv
<1>2. PICK c : c = Command("convert", d)
  OBVIOUS
<1>3. CommandIs(c) /\ c.name = "convert" /\ c.input = d /\ c.result = "running"
  BY ONLY <1>2, CommandType
<1>4. CASE HasDDM(d)
  <2>1. PICK i : i = WithDDM(EmptyImage, d[1], BlockOf(d))
    OBVIOUS
  <2>2. d[1] \in Sector /\ BlockOf(d) \in BlockSizes
    BY ONLY <1>1, <1>4, DDMIs
  <2>3. Prelude(i)
    BY ONLY <2>1, <2>2, EmptyWork, WithDDMPrelude
  <2>4. Bare(i)
    BY ONLY <2>3 DEF Prelude, Bare
  <2>5. PICK p \in Id : p = 0 /\ p \in Nat
    BY DEF Id
  <2>6. PICK j : j = Numbered(i, p)
    OBVIOUS
  <2>7. Bare(j) /\ j.pNum = p
    BY ONLY <2>4, <2>5, <2>6, BareNumbered
  <2>8. Start(c, "entries", j)
    BY ONLY <1>2, <1>4, <2>1, <2>5, <2>6, ConvertToDMG(d) DEF ConvertToDMG, Numbered
  <2>9. Standing("entries", c, j, img)
    BY ONLY <1>1, <1>3, <1>4, <2>5, <2>7 DEF Standing, Working, Converting
  <2>10. QED
    BY ONLY <1>3, <2>8, <2>9, StartInv, ImageInv
<1>5. CASE ~HasDDM(d)
  <2>1. Start(c, "whole", EmptyImage)
    BY ONLY <1>2, <1>5, ConvertToDMG(d) DEF ConvertToDMG
  <2>2. Standing("whole", c, EmptyImage, img)
    BY ONLY <1>1, <1>3 DEF Standing, Working, Converting
  <2>3. QED
    BY ONLY <1>3, <2>1, <2>2, StartInv, ImageInv
<1>6. QED
  BY <1>4, <1>5

LEMMA ReadEntriesInv ==
  ASSUME ImageInv, ReadEntries
  PROVE  ImageInv'
<1>1. pc = "entries"
  BY DEF ReadEntries
<1>2. Converting(pc, cmd, w) /\ cmd.result = "running"
  BY <1>1, ConvertingIs
<1>3. /\ cmd.name = "convert" /\ cmd.input \in Seq(Sector)
      /\ Bare(w) /\ HasDDM(cmd.input) /\ w.pNum \in Nat
  BY <1>1, <1>2 DEF Converting
<1>4. Left(w)
  BY ONLY <1>3 DEF Left
<1>5. CASE Step("entries", "wild", w)
  <2>1. Working("wild", cmd, w, img)
    BY ONLY <1>4 DEF Working
  <2>2. QED
    BY ONLY <1>2, <1>5, <2>1, WorkStep, ImageInv
<1>6. CASE Refuse
  BY ONLY <1>4, <1>6, RefuseInv, ImageInv
<1>7. CASE /\ BlockOf(cmd.input) * (1 + pmMapBlkCnt) <= Len(cmd.input)
           /\ Step("entries", "partition", w)
  <2>1. Working("partition", cmd, w, img)
    BY ONLY <1>3, <1>7 DEF Working, Converting, Mapped
  <2>2. QED
    BY ONLY <1>2, <1>7, <2>1, WorkStep, ImageInv
<1>8. QED
  BY ONLY <1>5, <1>6, <1>7, ReadEntries DEF ReadEntries

LEMMA ConvertPartitionInv ==
  ASSUME ImageInv, ConvertPartition
  PROVE  ImageInv'
<1>1. pc = "partition"
  BY DEF ConvertPartition
<1>2. Converting(pc, cmd, w) /\ cmd.result = "running"
  BY <1>1, ConvertingIs
<1>3. /\ cmd.name = "convert" /\ cmd.input \in Seq(Sector)
      /\ Bare(w) /\ Mapped(cmd.input) /\ w.pNum \in Nat
  BY <1>1, <1>2 DEF Converting
<1>4. PICK input \in Seq(Sector) : input = cmd.input
  BY <1>3
<1>5. PICK i \in Nat : i = w.pNum
  BY <1>3
<1>6. PICK e : e = EntryAt(input, i)
  OBVIOUS
<1>7. i < pmMapBlkCnt /\ e[1] = "entry"
  BY ONLY <1>4, <1>5, <1>6, ConvertPartition DEF ConvertPartition, IsEntry
<1>8. HasDDM(input) /\ BlockOf(input) * (1 + pmMapBlkCnt) <= Len(input)
  BY ONLY <1>3, <1>4 DEF Mapped
<1>9. e[2] \in Name /\ e[3] \in Nat /\ e[4] \in Nat
  BY ONLY <1>6, <1>7, <1>8, EntryIs, i \in Nat, input \in Seq(Sector)
<1>10. PICK b \in Nat : b = BlockOf(input)
  BY <1>8, DDMIs DEF BlockSizes
<1>11. PICK first \in Nat, n \in Nat, name \in Name : first = e[3] /\ n = e[4] /\ name = e[2]
  BY ONLY <1>9
<1>12. PICK from \in Nat : from = first * b
  <2>1. first * b \in Nat
    OBVIOUS
  <2>2. QED
    BY <2>1
<1>13. CASE Refuse
  <2>1. Left(w)
    BY ONLY <1>3 DEF Left
  <2>2. QED
    BY ONLY <1>13, <2>1, RefuseInv, ImageInv
<1>14. CASE ~Refuse
  <2>1. PICK l \in Nat : l = Len(input)
    BY LenProperties
  <2>2. PICK data : data = SubSeq(input, from + 1, from + n)
    OBVIOUS
  <2>3. PICK x : x = AddConverted(data, first, i, name)
    OBVIOUS
  <2>4. from + n <= l /\ Step("partition", "partition", [x EXCEPT !.pNum = @ + 1])
    <3>1. IF from + n > l THEN Refuse
          ELSE Step("partition", "partition", [x EXCEPT !.pNum = @ + 1])
      BY ONLY <1>4, <1>5, <1>6, <1>10, <1>11, <1>12, <2>1, <2>2, <2>3, ConvertPartition
         DEF ConvertPartition
    <3>2. ~(from + n > l)
      BY ONLY <1>14, <3>1
    <3>3. from + n <= l
      BY ONLY <3>2, from \in Nat, n \in Nat, l \in Nat
    <3>4. QED
      BY ONLY <3>1, <3>2, <3>3
  <2>5. data \in Seq(Sector)
    <3>1. PICK to \in Nat : to = from + n
      OBVIOUS
    <3>2. from <= to /\ to <= l /\ data = SubSeq(input, from + 1, to)
      BY <2>2, <2>4, <3>1
    <3>3. QED
      BY ONLY <2>1, <3>1, <3>2, SliceIs, from \in Nat, input \in Seq(Sector)
  <2>6. PICK id \in Id : id = i
    BY DEF Id
  <2>7. x = AddConverted(data, first, id, name)
    BY ONLY <2>3, <2>6
  <2>8. Bare(x) /\ x.pNum = w.pNum
    BY ONLY <1>3, <2>5, <2>7, ConvertedBare, first \in Nat, id \in Id, name \in Name
  <2>9. PICK p \in Id : p = i + 1 /\ p \in Nat
    BY <2>6, NextId
  <2>10. PICK j : j = Numbered(x, p)
    OBVIOUS
  <2>11. Bare(j) /\ j.pNum = p
    BY ONLY <2>8, <2>9, <2>10, BareNumbered
  <2>12. Step("partition", "partition", j)
    BY ONLY <1>5, <2>4, <2>8, <2>9, <2>10 DEF Numbered
  <2>13. Working("partition", cmd, j, img)
    BY ONLY <1>3, <2>9, <2>11 DEF Working, Converting
  <2>14. QED
    BY ONLY <1>2, <2>12, <2>13, WorkStep, ImageInv
<1>15. QED
  BY ONLY <1>13, <1>14

LEMMA ConversionDone ==
  ASSUME ImageInv, NEW i, Bare(i), NEW n, NEW j, j = Trailer(i, n), Finish(j),
         cmd.name = "convert"
  PROVE  ImageInv'
<1>1. Complete(j)
  BY BareComplete
<1>2. cmd.name # "build" /\ cmd.name # "attribute"
  OBVIOUS
<1>3. QED
  BY ONLY <1>1, <1>2, FinishInv, ImageInv, Finish(j)

LEMMA FinishConversionInv ==
  ASSUME ImageInv, FinishConversion
  PROVE  ImageInv'
<1>1. pc = "partition"
  BY DEF FinishConversion
<1>2. Converting(pc, cmd, w) /\ cmd.result = "running"
  BY <1>1, ConvertingIs
<1>3. cmd.name = "convert" /\ Bare(w)
  BY <1>1, <1>2 DEF Converting
<1>4. PICK n : n = LastSector(w.pNum)
  OBVIOUS
<1>5. PICK j : j = Trailer(w, n)
  OBVIOUS
<1>6. Finish(j)
  BY ONLY <1>4, <1>5, FinishConversion DEF FinishConversion
<1>7. QED
  BY ONLY <1>3, <1>5, <1>6, ConversionDone, ImageInv

LEMMA ConvertWholeInv ==
  ASSUME ImageInv, ConvertWhole
  PROVE  ImageInv'
<1>1. pc = "whole"
  BY DEF ConvertWhole
<1>2. Converting(pc, cmd, w) /\ cmd.result = "running"
  BY <1>1, ConvertingIs
<1>3. cmd.name = "convert" /\ cmd.input \in Seq(Sector) /\ w = EmptyImage
  BY <1>1, <1>2 DEF Converting
<1>4. Bare(w)
  BY ONLY <1>3, EmptyIs
<1>5. PICK name \in Name : name = "whole"
  BY Names
<1>6. PICK o \in Nat : o = 0
  OBVIOUS
<1>7. PICK id \in Id : id = 0
  BY DEF Id
<1>8. PICK data \in Seq(Sector) : data = cmd.input
  BY <1>3
<1>9. PICK i : i = AddConverted(data, o, id, name)
  OBVIOUS
<1>10. Bare(i)
  BY ONLY <1>4, <1>9, ConvertedBare, data \in Seq(Sector), o \in Nat, id \in Id, name \in Name
<1>11. PICK j : j = Trailer(i, o)
  OBVIOUS
<1>12. Finish(j)
  BY ONLY <1>5, <1>6, <1>7, <1>8, <1>9, <1>11, ConvertWhole DEF ConvertWhole
<1>13. QED
  BY ONLY <1>3, <1>10, <1>11, <1>12, ConversionDone, ImageInv

(* Reading a finished image.                                               *)
LEMMA ReadInv ==
  ASSUME ImageInv, NEW name, name # "build", name # "attribute",
         NEW data, Read(name, data), Complete(img) => data \in Seq(Sector)
  PROVE  ImageInv'
<1>1. /\ pc = "idle" /\ img.koly # <<>> /\ count < MaxCommands
      /\ cmd' = [Command(name, <<>>) EXCEPT !.result = "done"]
      /\ dev' = data /\ count' = count + 1 /\ pc' = pc /\ w' = w /\ img' = img
  BY DEF Read, Idle
<1>2. Whole(img) /\ Standing(pc, cmd, w, img)
  BY DEF ImageInv
<1>3. data \in Seq(Sector)
  BY ONLY <1>1, <1>2, FinishedIs, Complete(img) => data \in Seq(Sector)
<1>4. count' \in 0 .. MaxCommands
  BY <1>1, SizesAssumption DEF ImageInv
<1>5. Left(w)
  BY ONLY <1>1, <1>2 DEF Standing, Working, Building, Converting, Attributing, Resting
<1>6. PICK c : c = Command(name, <<>>)
  OBVIOUS
<1>7. CommandIs(c) /\ c.name = name
  BY ONLY <1>6, CommandType
<1>8. PICK d : d = [c EXCEPT !.result = "done"]
  OBVIOUS
<1>9. CommandIs(d) /\ d.name = name /\ d.result = "done"
  <2>1. PICK r : r = "done"
    OBVIOUS
  <2>2. d = WithResult(c, r)
    BY ONLY <1>8, <2>1 DEF WithResult
  <2>3. CommandIs(d) /\ d.name = c.name /\ d.result = r
    BY ONLY <1>7, <2>2, ResultIs
  <2>4. QED
    BY ONLY <1>7, <2>1, <2>3
<1>10. Standing("idle", d, w, img)
  BY ONLY <1>5, <1>9, name # "build", name # "attribute" DEF Standing, Resting
<1>11. cmd' = d /\ pc' = "idle"
  BY ONLY <1>1, <1>6, <1>8
<1>12. QED
  BY ONLY <1>1, <1>2, <1>3, <1>4, <1>9, <1>10, <1>11 DEF ImageInv

LEMMA ReadsInv ==
  ASSUME ImageInv, ConvertToISO \/ ExtractDmg
  PROVE  ImageInv'
<1>1. Complete(img) => img.fork \in Seq(Cell) /\ AllSound(img.fork, img.blkx)
  BY DEF Complete
<1>2. CASE ConvertToISO
  <2>1. PICK d : d = Device(img)
    OBVIOUS
  <2>2. Complete(img) => d \in Seq(Sector)
    BY ONLY <1>1, <2>1, DeviceType
  <2>3. PICK name : name = "iso" /\ name # "build" /\ name # "attribute"
    OBVIOUS
  <2>4. Read(name, d)
    BY ONLY <1>2, <2>1, <2>3 DEF ConvertToISO
  <2>5. QED
    BY ONLY <2>2, <2>3, <2>4, ReadInv, ImageInv
<1>3. CASE ExtractDmg
  <2>1. PICK d : d = VolumeOf(img)
    OBVIOUS
  <2>2. HasHFS(img)
    BY ONLY <1>3 DEF ExtractDmg
  <2>3. Complete(img) => d \in Seq(Sector)
    BY ONLY <1>1, <2>1, <2>2, VolumeType
  <2>4. PICK name : name = "extract" /\ name # "build" /\ name # "attribute"
    OBVIOUS
  <2>5. Read(name, d)
    BY ONLY <1>3, <2>1, <2>4 DEF ExtractDmg
  <2>6. QED
    BY ONLY <2>3, <2>4, <2>5, ReadInv, ImageInv
<1>4. QED
  BY <1>2, <1>3

LEMMA AttributingIs ==
  ASSUME ImageInv, pc \in {"patch", "sums", "koly"}
  PROVE  Attributing(pc, cmd, w, img) /\ cmd.result = "running"
<1>1. Working(pc, cmd, w, img) /\ cmd.result = "running"
  BY InWork
<1>2. QED
  BY <1>1 DEF Working, Building, Converting

WithPatch(c, p) == [c EXCEPT !.patch = p]

LEMMA WithPatchIs ==
  ASSUME NEW c, CommandIs(c), NEW p, NEW d, d = WithPatch(c, p)
  PROVE  /\ CommandIs(d) /\ d.name = c.name /\ d.input = c.input
         /\ d.patch = p /\ d.result = c.result
<1>1. d = [name |-> c.name, input |-> c.input, block |-> c.block,
           sentinel |-> c.sentinel, patch |-> p, result |-> c.result]
  BY DEF CommandIs, WithPatch
<1>2. /\ d.name = c.name /\ d.input = c.input /\ d.block = c.block
      /\ d.sentinel = c.sentinel /\ d.patch = p /\ d.result = c.result
  BY ONLY <1>1
<1>3. CommandIs(d)
  BY ONLY <1>1, <1>2, CommandIs(c) DEF CommandIs
<1>4. QED
  BY ONLY <1>2, <1>3

LEMMA UpdateAttributionInv ==
  ASSUME ImageInv, NEW p \in Patches, UpdateAttribution(p)
  PROVE  ImageInv'
<1>1. Complete(img)
  BY FinishedIs DEF ImageInv, UpdateAttribution
<1>2. PICK input : input = IF HasHFS(img) THEN VolumeOf(img) ELSE <<>>
  OBVIOUS
<1>3. PICK b : b = Command("attribute", input)
  OBVIOUS
<1>4. CommandIs(b) /\ b.name = "attribute" /\ b.input = input /\ b.result = "running"
  BY ONLY <1>3, CommandType
<1>5. PICK c : c = WithPatch(b, p)
  OBVIOUS
<1>6. /\ CommandIs(c) /\ c.name = "attribute" /\ c.input = input
      /\ c.patch = p /\ c.result = "running"
  <2>1. CommandIs(c) /\ c.name = b.name /\ c.input = b.input /\ c.patch = p /\ c.result = b.result
    BY ONLY <1>4, <1>5, WithPatchIs
  <2>2. QED
    BY ONLY <1>4, <2>1
<1>7. IF img.plst = <<>> THEN Start([c EXCEPT !.result = "refused"], "idle", EmptyImage)
      ELSE Start(c, "patch", img)
  BY ONLY <1>2, <1>3, <1>5, UpdateAttribution(p) DEF UpdateAttribution, WithPatch
<1>8. CASE img.plst = <<>>
  <2>1. PICK r : r = "refused"
    OBVIOUS
  <2>2. PICK d : d = WithResult(c, r)
    OBVIOUS
  <2>3. CommandIs(d) /\ d.result = r
    BY ONLY <1>6, <2>2, ResultIs
  <2>4. Start(d, "idle", EmptyImage)
    BY ONLY <1>7, <1>8, <2>1, <2>2 DEF WithResult
  <2>5. Standing("idle", d, EmptyImage, img)
    BY ONLY <2>1, <2>3, EmptyIs DEF Standing, Resting, Left
  <2>6. QED
    BY ONLY <2>3, <2>4, <2>5, StartInv, ImageInv
<1>9. CASE img.plst # <<>>
  <2>1. PICK a : Signature(img, a)
    BY ONLY <1>1, <1>9 DEF Complete, Signed
  <2>2. HasHFS(img)
    BY ONLY <2>1, SignatureVolume
  <2>3. c.input = VolumeOf(img)
    BY ONLY <1>2, <1>6, <2>2
  <2>4. Start(c, "patch", img)
    BY ONLY <1>7, <1>9
  <2>5. Attributing("patch", c, img, img)
    BY ONLY <1>1, <1>6, <1>9, <2>3, p \in Patches DEF Attributing
  <2>6. Standing("patch", c, img, img)
    BY ONLY <1>6, <2>5 DEF Standing, Working
  <2>7. QED
    BY ONLY <1>6, <2>4, <2>6, StartInv, ImageInv
<1>10. QED
  BY ONLY <1>8, <1>9

(* A step of an attribution that goes on.                                  *)
LEMMA AttributingStep ==
  ASSUME ImageInv, NEW p, NEW q, NEW j, Step(p, q, j), cmd.result = "running",
         Attributing(q, cmd, j, img)
  PROVE  ImageInv'
<1>1. Working(q, cmd, j, img)
  BY DEF Working
<1>2. QED
  BY ONLY <1>1, WorkStep, ImageInv, Step(p, q, j), cmd.result = "running"

LEMMA PatchRawInv ==
  ASSUME ImageInv, PatchRaw
  PROVE  ImageInv'
<1>1. pc = "patch"
  BY DEF PatchRaw
<1>2. Attributing(pc, cmd, w, img) /\ cmd.result = "running"
  BY <1>1, AttributingIs
<1>3. /\ cmd.name = "attribute" /\ w = img /\ Complete(img) /\ img.plst # <<>>
      /\ cmd.patch \in Patches /\ cmd.input = VolumeOf(img)
  BY <1>1, <1>2 DEF Attributing
<1>4. Left(w)
  BY ONLY <1>3 DEF Left
<1>5. PICK a : Signature(img, a)
  BY ONLY <1>3 DEF Complete, Signed
<1>6. AttributionType(a) /\ a.raw \in Seq(Sector)
  BY ONLY <1>5 DEF Signature, AttributionType
<1>7. PICK raw \in Seq(Sector) : raw = a.raw
  BY ONLY <1>6
<1>8. RawRegion(img) = raw
  BY ONLY <1>5, <1>7, RegionIs
<1>9. PICK patch \in Patches : patch = cmd.patch
  BY ONLY <1>3
<1>10. PICK hits : hits = Marks(patch.anchor, raw)
  OBVIOUS
<1>11. PICK at : at = Min(hits)
  OBVIOUS
<1>12. PICK data \in Seq(Sector) : data = patch.data
  BY PatchesAre
<1>13. PICK new : new = Overwritten(raw, at, data)
  OBVIOUS
<1>14. PICK j : j = WithRaw(w, new)
  OBVIOUS
<1>15. IF hits = {} \/ at + Len(data) > Len(raw) THEN Refuse
       ELSE IF {s \in at + 1 .. Len(raw) : raw[s] = Zero} = {} THEN Step("patch", "wild", w)
       ELSE Step("patch", "sums", j)
  BY ONLY <1>8, <1>9, <1>10, <1>11, <1>12, <1>13, <1>14, PatchRaw DEF PatchRaw
<1>16. CASE Refuse
  BY ONLY <1>4, <1>16, RefuseInv, ImageInv
<1>17. CASE Step("patch", "wild", w)
  <2>1. Working("wild", cmd, w, img)
    BY ONLY <1>4 DEF Working
  <2>2. QED
    BY ONLY <1>2, <1>17, <2>1, WorkStep, ImageInv
<1>18. CASE hits # {} /\ Step("patch", "sums", j)
  <2>1. Len(patch.anchor) \in Nat
    BY ONLY PatchesAre, patch \in Patches
  <2>2. hits \subseteq Nat
    BY ONLY <1>10, <2>1, MarksAre, raw \in Seq(Sector)
  <2>3. at \in Nat
    BY ONLY <1>11, <1>18, <2>2, MinIs
  <2>4. new \in Seq(Sector) /\ Len(new) = Len(raw)
    BY ONLY <1>13, <2>3, OverwrittenIs, raw \in Seq(Sector), data \in Seq(Sector)
  <2>5. Len(new) = Len(a.raw)
    BY ONLY <1>7, <2>4
  <2>6. PICK z : z = WithRawOf(a, new)
    OBVIOUS
  <2>7. j = WithRaw(img, new)
    BY ONLY <1>3, <1>14
  <2>8. Rewriting(j, z)
    BY ONLY <1>3, <1>5, <2>4, <2>5, <2>6, <2>7, WithRawIs
  <2>9. z.raw = new /\ VolumeWithRaw(z, raw) = VolumeWithRaw(a, raw)
    BY ONLY <1>6, <2>4, <2>5, <2>6, WithRawOfIs
  <2>10. cmd.input = VolumeWithRaw(z, raw)
    <3>1. VolumeOf(img) = VolumeWithRaw(a, a.raw)
      BY ONLY <1>5, SignatureVolume
    <3>2. QED
      BY ONLY <1>3, <1>7, <2>9, <3>1
  <2>11. Len(raw) = Len(z.raw)
    BY ONLY <2>4, <2>9
  <2>12. z.raw = Overwritten(raw, Min(Marks(cmd.patch.anchor, raw)), cmd.patch.data)
    BY ONLY <1>9, <1>10, <1>11, <1>12, <1>13, <2>9
  <2>13. Overwrites(z, cmd)
    BY ONLY <2>10, <2>11, <2>12, raw \in Seq(Sector) DEF Overwrites
  <2>14. Attributing("sums", cmd, j, img)
    BY ONLY <1>3, <2>8, <2>13 DEF Attributing
  <2>15. QED
    BY ONLY <1>2, <1>18, <2>14, AttributingStep, ImageInv
<1>19. QED
  BY ONLY <1>15, <1>16, <1>17, <1>18

LEMMA RewriteResourcesInv ==
  ASSUME ImageInv, RewriteResources
  PROVE  ImageInv'
<1>1. pc = "sums"
  BY DEF RewriteResources, Step
<1>2. Attributing(pc, cmd, w, img) /\ cmd.result = "running"
  BY <1>1, AttributingIs
<1>3. cmd.name = "attribute" /\ \E a : Rewriting(w, a) /\ Overwrites(a, cmd)
  BY <1>1, <1>2 DEF Attributing
<1>4. PICK a : Rewriting(w, a) /\ Overwrites(a, cmd)
  BY <1>3
<1>5. PICK j : j = Resummed(w)
  OBVIOUS
<1>6. Step("sums", "koly", j)
  BY ONLY <1>5, RewriteResources DEF RewriteResources, Resummed
<1>7. Rewriting(j, a) /\ AllSound(j.fork, j.blkx)
  BY ONLY <1>4, <1>5, ResummedIs
<1>8. Attributing("koly", cmd, j, img)
  BY ONLY <1>3, <1>4, <1>7 DEF Attributing
<1>9. QED
  BY ONLY <1>2, <1>6, <1>8, AttributingStep, ImageInv

LEMMA RewriteTrailerInv ==
  ASSUME ImageInv, RewriteTrailer
  PROVE  ImageInv'
<1>1. pc = "koly"
  BY DEF RewriteTrailer
<1>2. Attributing(pc, cmd, w, img) /\ cmd.result = "running"
  BY <1>1, AttributingIs
<1>3. /\ cmd.name = "attribute" /\ AllSound(w.fork, w.blkx)
      /\ \E a : Rewriting(w, a) /\ Overwrites(a, cmd)
  BY <1>1, <1>2 DEF Attributing
<1>4. PICK a : Rewriting(w, a) /\ Overwrites(a, cmd)
  BY <1>3
<1>5. PICK j : j = Resigned(w)
  OBVIOUS
<1>6. Finish(j)
  BY ONLY <1>5, RewriteTrailer DEF RewriteTrailer, Resigned
<1>7. Complete(j) /\ Signature(j, a)
  BY ONLY <1>3, <1>4, <1>5, ResignedIs
<1>8. cmd.name # "build"
  BY ONLY <1>3
<1>9. \E x : Signature(j, x) /\ Overwrites(x, cmd)
  BY ONLY <1>4, <1>7
<1>10. QED
  BY ONLY <1>6, <1>7, <1>8, <1>9, FinishInv, ImageInv

LEMMA ImageNext == ImageInv /\ [Next]_vars => ImageInv'
<1> SUFFICES ASSUME ImageInv, [Next]_vars PROVE ImageInv'
  OBVIOUS
<1>1. CASE \E v \in Volumes : \E b \in BlockSizes : \E s \in BOOLEAN : BuildDmg(v, b, s)
  <2>1. PICK v \in Volumes, b \in BlockSizes, s \in BOOLEAN : BuildDmg(v, b, s)
    BY <1>1
  <2>2. QED
    BY ONLY <2>1, BuildDmgInv, ImageInv, v \in Volumes, b \in BlockSizes, s \in BOOLEAN
<1>2. CASE WriteDriverDescriptorMap
  BY ONLY <1>2, DescriptorMapInv, ImageInv
<1>3. CASE WriteApplePartitionMap
  BY ONLY <1>3, PartitionMapInv, ImageInv
<1>4. CASE WriteATAPI
  BY ONLY <1>4, ATAPIInv, ImageInv
<1>5. CASE WriteMain
  BY ONLY <1>5, MainInv, ImageInv
<1>6. CASE WriteFreePartition
  BY ONLY <1>6, FreePartitionInv, ImageInv
<1>7. CASE WriteTrailer
  BY ONLY <1>7, TrailerInv, ImageInv
<1>8. CASE \E d \in {dev} \cup Volumes : ConvertToDMG(d)
  BY ONLY <1>8, ConvertToDMGInv, ImageInv
<1>9. CASE ReadEntries
  BY ONLY <1>9, ReadEntriesInv, ImageInv
<1>10. CASE ConvertPartition
  BY ONLY <1>10, ConvertPartitionInv, ImageInv
<1>11. CASE FinishConversion
  BY ONLY <1>11, FinishConversionInv, ImageInv
<1>12. CASE ConvertWhole
  BY ONLY <1>12, ConvertWholeInv, ImageInv
<1>13. CASE ConvertToISO \/ ExtractDmg
  BY ONLY <1>13, ReadsInv, ImageInv
<1>14. CASE \E p \in Patches : UpdateAttribution(p)
  BY ONLY <1>14, UpdateAttributionInv, ImageInv
<1>15. CASE PatchRaw
  BY ONLY <1>15, PatchRawInv, ImageInv
<1>16. CASE RewriteResources
  BY ONLY <1>16, RewriteResourcesInv, ImageInv
<1>17. CASE RewriteTrailer
  BY ONLY <1>17, RewriteTrailerInv, ImageInv
<1>18. CASE UNCHANGED vars
  BY <1>18 DEF vars, ImageInv
<1>19. QED
  BY ONLY <1>1, <1>2, <1>3, <1>4, <1>5, <1>6, <1>7, <1>8, <1>9, <1>10, <1>11, <1>12, <1>13,
          <1>14, <1>15, <1>16, <1>17, <1>18, [Next]_vars DEF Next

(* What the image of a command looks like at every step of buildDmg,       *)
(* convertToDMG and updateAttribution: the tables lie in the fork, a       *)
(* finished image has the sums of what it holds, and the attribution       *)
(* resource says where the raw runs of the volume are.                     *)
THEOREM ImageInductive == Spec => []ImageInv
  BY ImageInit, ImageNext, PTL DEF Spec

-----------------------------------------------------------------------------
(* The types.                                                              *)
ShapeIs(i) == Bare(i) \/ Complete(i) \/ (\E d : Main(i, d)) \/ (\E a : Rewriting(i, a))

Types(i) ==
  /\ i.pNum \in Nat \cup {-1}
  /\ \A k \in DOMAIN i.blkx :
       /\ i.blkx[k].id \in Nat \cup {-1}
       /\ i.blkx[k].first \in Nat /\ i.blkx[k].count \in Nat
  /\ Len(i.plst) <= 1 /\ Len(i.koly) <= 1

LEMMA WorkingShape ==
  ASSUME NEW p, NEW c, NEW i, NEW o, Working(p, c, i, o)
  PROVE  /\ ShapeIs(i)
         /\ p \in {"ddm", "map", "atapi", "main", "free", "trailer",
                   "entries", "partition", "whole", "patch", "sums", "koly", "wild"}
<1>1. CASE Building(p, c, i)
  BY <1>1, EmptyIs DEF Building, ShapeIs, Prelude, Bare
<1>2. CASE Converting(p, c, i)
  BY <1>2, EmptyIs DEF Converting, ShapeIs
<1>3. CASE Attributing(p, c, i, o)
  BY <1>3 DEF Attributing, ShapeIs
<1>4. CASE p = "wild" /\ Left(i)
  BY <1>4 DEF Left, ShapeIs
<1>5. QED
  BY ONLY <1>1, <1>2, <1>3, <1>4, Working(p, c, i, o) DEF Working

LEMMA TablesTyped ==
  ASSUME NEW list \in Seq(TableType)
  PROVE  \A k \in DOMAIN list : /\ list[k].id \in Nat \cup {-1}
                                /\ list[k].first \in Nat /\ list[k].count \in Nat
<1>1. TAKE k \in DOMAIN list
<1>2. list[k] \in TableType
  BY LenProperties, ElementOfSeq
<1>3. QED
  BY ONLY <1>2 DEF TableType, Id

LEMMA OneOrNone ==
  ASSUME NEW s, s = <<>> \/ \E x : s = <<x>>
  PROVE  Len(s) <= 1
<1>1. CASE s = <<>>
  <2>1. Len(s) = 0
    BY ONLY <1>1
  <2>2. QED
    BY ONLY <2>1
<1>2. CASE \E x : s = <<x>>
  <2>1. PICK x : s = <<x>>
    BY <1>2
  <2>2. Len(s) = 1
    BY ONLY <2>1
  <2>3. QED
    BY ONLY <2>2
<1>3. QED
  BY ONLY <1>1, <1>2, s = <<>> \/ \E x : s = <<x>>

LEMMA SignedOne ==
  ASSUME NEW i, Signed(i)
  PROVE  Len(i.plst) <= 1
<1>1. i.plst = <<>> \/ \E a : i.plst = <<a>>
  BY DEF Signed, Signature
<1>2. QED
  BY ONLY <1>1, OneOrNone

LEMMA WorkTypes ==
  ASSUME NEW i, Work(i), Signed(i)
  PROVE  Types(i)
<1>1. i.pNum \in Nat \cup {-1} /\ i.koly = <<>> /\ i.blkx \in Seq(TableType)
  BY DEF Work, AllSound, Id
<1>2. Len(i.koly) <= 1
  BY ONLY <1>1, OneOrNone
<1>3. Len(i.plst) <= 1
  BY SignedOne
<1>4. QED
  BY ONLY <1>1, <1>2, <1>3, TablesTyped DEF Types

LEMMA CompleteTypes ==
  ASSUME NEW i, Complete(i)
  PROVE  Types(i)
<1>1. i.pNum \in Nat \cup {-1} /\ i.blkx \in Seq(TableType)
  BY DEF Complete, AllSound, Id
<1>2. Len(i.koly) <= 1
  BY OneOrNone DEF Complete, Trailed
<1>3. Len(i.plst) <= 1
  BY SignedOne DEF Complete
<1>4. QED
  BY ONLY <1>1, <1>2, <1>3, TablesTyped DEF Types

LEMMA RewritingTypes ==
  ASSUME NEW i, NEW a, Rewriting(i, a)
  PROVE  Types(i)
<1>1. i.pNum \in Nat \cup {-1} /\ Signature(i, a) /\ Trailing(i)
  BY DEF Rewriting, Id
<1>2. AttributionType(a) /\ Writable(a, i.blkx) /\ i.plst = <<a>>
  BY ONLY <1>1 DEF Signature
<1>3. a.raw \in Seq(Sector)
  BY ONLY <1>2 DEF AttributionType
<1>4. i.blkx \in Seq(TableType)
  <2>1. Tables(ForkWith(a, a.raw), VolumeWithRaw(a, a.raw), i.blkx)
    BY ONLY <1>2, <1>3 DEF Writable
  <2>2. QED
    BY ONLY <2>1 DEF Tables
<1>5. Len(i.koly) <= 1
  BY ONLY <1>1, OneOrNone DEF Trailing
<1>6. Len(i.plst) <= 1
  BY ONLY <1>2, OneOrNone
<1>7. QED
  BY ONLY <1>1, <1>4, <1>5, <1>6, TablesTyped DEF Types

LEMMA ShapeTypes ==
  ASSUME NEW i, ShapeIs(i)
  PROVE  Types(i)
<1>1. CASE Bare(i)
  BY <1>1, WorkTypes DEF Bare, Signed
<1>2. CASE Complete(i)
  BY <1>2, CompleteTypes
<1>3. CASE \E d : Main(i, d)
  BY <1>3, AttributedSigned, WorkTypes DEF Main
<1>4. CASE \E a : Rewriting(i, a)
  BY <1>4, RewritingTypes
<1>5. QED
  BY <1>1, <1>2, <1>3, <1>4 DEF ShapeIs

LEMMA ImageTypes == ImageInv => TypeOK
<1> SUFFICES ASSUME ImageInv PROVE TypeOK
  OBVIOUS
<1>1. Whole(img) /\ count \in 0 .. MaxCommands
  BY DEF ImageInv
<1>2. /\ ShapeIs(w) /\ cmd.result \in {"running", "refused", "done"}
      /\ pc \in {"idle", "ddm", "map", "atapi", "main", "free", "trailer",
                 "entries", "partition", "whole", "patch", "sums", "koly", "wild"}
  <2>1. CASE cmd.result = "running" /\ Working(pc, cmd, w, img)
    BY <2>1, WorkingShape
  <2>2. CASE cmd.result \in {"refused", "done"} /\ pc = "idle" /\ Resting(cmd, w, img)
    BY <2>2 DEF Resting, Left, ShapeIs
  <2>3. QED
    BY ONLY <2>1, <2>2, ImageInv DEF ImageInv, Standing
<1>3. ShapeIs(img)
  BY ONLY <1>1, EmptyIs DEF Whole, ShapeIs
<1>4. \A i \in {w, img} : Types(i)
  BY ONLY <1>2, <1>3, ShapeTypes
<1>5. TablesNumbered
  <2>1. ASSUME pc \in {"ddm", "map", "atapi", "main", "free", "trailer"}
        PROVE  \A k \in DOMAIN w.blkx : w.blkx[k].id < w.pNum
    <3>1. Building(pc, cmd, w)
      BY ONLY <2>1, ImageInv, BuildingIs
    <3>2. w = EmptyImage \/ Prelude(w) \/ Main(w, Volume(cmd))
      BY ONLY <3>1 DEF Building
    <3>3. Prelude(w) \/ Main(w, Volume(cmd))
      BY ONLY <3>2, EmptyWork
    <3>4. Under(w.blkx, w.pNum) /\ w.blkx \in Seq(TableType)
      BY ONLY <3>3 DEF Prelude, Main, Work, AllSound
    <3>5. QED
      BY ONLY <3>4, LenProperties DEF Under
  <2>2. QED
    BY ONLY <2>1 DEF TablesNumbered
<1>6. QED
  BY ONLY <1>1, <1>2, <1>4, <1>5 DEF TypeOK, Types

(* The variables of the commands have their types, and while buildDmg      *)
(* works the number of its next partition is above that of every table: no *)
(* table takes the place of another in insertData.                         *)
THEOREM ImageTypesOK == Spec => []TypeOK
  BY ImageInductive, ImageTypes, PTL

-----------------------------------------------------------------------------
(* The sums.                                                               *)
LEMMA CompleteSums ==
  ASSUME NEW i, Complete(i)
  PROVE  /\ i.koly[1].forkLength = Len(i.fork)
         /\ i.koly[1].forkSum = i.fork
         /\ i.koly[1].masterSum = MasterSum(i.blkx)
         /\ \A k \in DOMAIN i.blkx : i.blkx[k].sum = Fed(i, i.blkx[k])
         /\ i.plst # <<>> => /\ i.plst[1].raw = RawRegion(i)
                             /\ Joined(i.plst[1]) = i.fork
<1>1. PICK n : i.koly = <<Koly(Len(i.fork), i.fork, MasterSum(i.blkx), n)>>
  BY DEF Complete, Trailed
<1>2. i.koly[1] = Koly(Len(i.fork), i.fork, MasterSum(i.blkx), n)
  BY ONLY <1>1
<1>3. AllSound(i.fork, i.blkx)
  BY DEF Complete
<1>4. ASSUME NEW k \in DOMAIN i.blkx
      PROVE  i.blkx[k].sum = Fed(i, i.blkx[k])
  <2>1. k \in 1 .. Len(i.blkx)
    BY ONLY <1>3, <1>4, LenProperties DEF AllSound
  <2>2. Sound(i.fork, i.blkx[k])
    BY ONLY <1>3, <2>1 DEF AllSound
  <2>3. QED
    BY ONLY <2>2, FedIs DEF Sound
<1>5. ASSUME i.plst # <<>>
      PROVE  i.plst[1].raw = RawRegion(i) /\ Joined(i.plst[1]) = i.fork
  <2>1. PICK a : Signature(i, a)
    BY ONLY <1>5, Complete(i) DEF Complete, Signed
  <2>2. i.plst[1] = a /\ RawRegion(i) = a.raw
    BY ONLY <2>1, RegionIs
  <2>3. Joined(a) = i.fork
    BY ONLY <2>1, JoinedIs DEF Signature
  <2>4. QED
    BY ONLY <2>2, <2>3
<1>6. QED
  BY ONLY <1>2, <1>4, <1>5 DEF Koly

LEMMA FinishedComplete ==
  ASSUME ImageInv, NEW i \in Finished
  PROVE  Complete(i)
<1>1. i.koly # <<>>
  BY DEF Finished
<1>2. CASE i = img
  BY <1>1, <1>2, FinishedIs DEF ImageInv
<1>3. CASE pc = "idle" /\ i = w
  <2>1. Left(w)
    BY <1>3 DEF ImageInv, Standing, Working, Building, Converting, Attributing, Resting
  <2>2. QED
    BY <1>1, <1>3, <2>1 DEF Left, Bare, Work
<1>4. QED
  BY <1>2, <1>3 DEF Finished, Idle

LEMMA ImageSums == ImageInv => SumsDescribeImage
<1> SUFFICES ASSUME ImageInv, NEW i \in Finished PROVE Complete(i)
  BY CompleteSums DEF SumsDescribeImage
<1>1. QED
  BY FinishedComplete

(* The trailer and every table of a finished image hold the checksum of    *)
(* what the image holds, and the attribution resource describes it,        *)
(* whichever of buildDmg, convertToDMG and updateAttribution left it, and  *)
(* after an attribution that was refused behind its copy.                  *)
THEOREM SumsDescribe == Spec => []SumsDescribeImage
  BY ImageInductive, ImageSums, PTL

LEMMA ImageBuilt == ImageInv => BuiltHolds
<1> SUFFICES ASSUME ImageInv, Success("build") PROVE VolumeOf(img) = Volume(cmd)
  BY DEF BuiltHolds, Volume
<1>1. pc = "idle" /\ cmd.name = "build" /\ cmd.result = "done"
  BY DEF Success, Idle
<1>2. Resting(cmd, w, img)
  BY <1>1 DEF ImageInv, Standing
<1>3. Tables(img.fork, Volume(cmd), img.blkx)
  BY <1>1, <1>2 DEF Resting
<1>4. QED
  BY <1>3, TablesVolume

(* extractDmg of an image that buildDmg made is the volume it was made of, *)
(* or what a 32-bit size leaves of it.                                     *)
THEOREM BuildHolds == Spec => []BuiltHolds
  BY ImageInductive, ImageBuilt, PTL

(* An attribution that ends changes the raw region that the attribution    *)
(* resource describes, where its data goes over the first anchor, and      *)
(* nothing else of the volume.                                             *)
OnlyRawChanges ==
  Success("attribute") =>
    LET a == img.plst[1]
    IN  \E r \in Seq(Sector) :
          /\ Len(r) = Len(a.raw)
          /\ a.raw = Overwritten(r, Min(Marks(cmd.patch.anchor, r)), cmd.patch.data)
          /\ cmd.input = (a.beforeU \o r) \o a.afterU
          /\ VolumeOf(img) = (a.beforeU \o a.raw) \o a.afterU

LEMMA ImageAttributed == ImageInv => OnlyRawChanges
<1> SUFFICES ASSUME ImageInv, Success("attribute") PROVE OnlyRawChanges
  BY DEF OnlyRawChanges
<1>1. pc = "idle" /\ cmd.name = "attribute" /\ cmd.result = "done"
  BY DEF Success, Idle
<1>2. Resting(cmd, w, img)
  BY <1>1 DEF ImageInv, Standing
<1>3. PICK a : Signature(img, a) /\ Overwrites(a, cmd)
  BY <1>1, <1>2 DEF Resting
<1>4. PICK r \in Seq(Sector) :
        /\ Len(r) = Len(a.raw)
        /\ cmd.input = VolumeWithRaw(a, r)
        /\ a.raw = Overwritten(r, Min(Marks(cmd.patch.anchor, r)), cmd.patch.data)
  BY ONLY <1>3 DEF Overwrites
<1>5. VolumeOf(img) = VolumeWithRaw(a, a.raw)
  BY ONLY <1>3, SignatureVolume
<1>6. img.plst[1] = a
  BY ONLY <1>3, RegionIs
<1>7. QED
  BY ONLY <1>4, <1>5, <1>6, Zenon DEF VolumeWithRaw, OnlyRawChanges

(* updateAttribution writes over the raw runs: what comes before and       *)
(* behind them in the volume stays as it was, and the resource says again  *)
(* what the raw runs hold.                                                 *)
THEOREM AttributionHolds == Spec => []OnlyRawChanges
  BY ImageInductive, ImageAttributed, PTL
=============================================================================
