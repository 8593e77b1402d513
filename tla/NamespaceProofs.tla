--------------------------- MODULE NamespaceProofs --------------------------
(***************************************************************************)
(* Catalog implements Namespace, for any names, ids and operations, and    *)
(* however the tasks' writes of the records are interleaved.               *)
(*                                                                         *)
(* The entries and files of Namespace are the tree of Ahead.cat, the       *)
(* catalog as it will be once the writes under way have been done.  So the *)
(* step that begins an operation is the one that changes the tree, and     *)
(* the writes that follow leave it as it is.  From the bottom up: paths    *)
(* and the records under them; the walk that finds a path; the tree of a   *)
(* catalog and what one record more or less does to it; one lemma for      *)
(* each operation; and the steps.                                          *)
(***************************************************************************)
EXTENDS CatalogProofs

-----------------------------------------------------------------------------
(***************************************************************************)
(* Paths and what is under them.                                           *)
(***************************************************************************)

LEMMA UnderParts ==
  ASSUME NEW p \in Seq(Names), NEW q \in Seq(Names),
         NEW m \in Nat, m = Len(p), NEW n \in Nat, n = Len(q)
  PROVE  NS!Under(p, q) <=> m <= n /\ \A i \in 1 .. m : q[i] = p[i]
<1>1. \A i \in 1 .. n : q[i] \in Names
  BY ElementOfSeq
<1>2. CASE m <= n
  <2>1. \A i \in 1 .. m : q[i] \in Names
    BY <1>1, <1>2
  <2>2. PICK s : s = SubSeq(q, 1, m)
    OBVIOUS
  <2>3. s \in Seq(Names) /\ Len(s) = m /\ \A i \in 1 .. m : s[i] = q[i]
    <3>1. /\ s \in Seq(Names) /\ Len(s) = (IF 1 <= m THEN m - 1 + 1 ELSE 0)
          /\ \A i \in 1 .. m - 1 + 1 : s[i] = q[1 + i - 1]
      BY <2>1, <2>2, SubSeqProperties
    <3>2. (IF 1 <= m THEN m - 1 + 1 ELSE 0) = m /\ 1 .. m - 1 + 1 = 1 .. m
      OBVIOUS
    <3>3. \A i \in 1 .. m : 1 + i - 1 = i
      OBVIOUS
    <3>4. QED
      BY <3>1, <3>2, <3>3
  <2>4. NS!Under(p, q) <=> s = p
    BY <1>2, <2>2 DEF NS!Under
  <2>5. ASSUME \A i \in 1 .. m : q[i] = p[i] PROVE s = p
    BY <2>3, <2>5, SeqEqual
  <2>6. QED
    BY <1>2, <2>3, <2>4, <2>5
<1>3. CASE ~(m <= n)
  BY <1>3 DEF NS!Under
<1>4. QED
  BY <1>2, <1>3

LEMMA UnderSelf ==
  ASSUME NEW p \in Seq(Names)
  PROVE  NS!Under(p, p)
<1>1. PICK m \in Nat : m = Len(p)
  BY LenProperties
<1>2. QED
  BY <1>1, UnderParts

LEMMA UnderRoot ==
  ASSUME NEW p \in Seq(Names), NS!Under(p, <<>>)
  PROVE  p = <<>>
<1>1. PICK m \in Nat : m = Len(p)
  BY LenProperties
<1>2. m <= 0
  BY <1>1, EmptySeq, UnderParts
<1>3. QED
  BY <1>1, <1>2, EmptySeq

(* What is under p but p is in what is under p.                            *)
LEMMA UnderFront ==
  ASSUME NEW p \in Seq(Names), NEW q \in Seq(Names), q # <<>>
  PROVE  /\ Front(q) \in Seq(Names) /\ Front(q) # q
         /\ NS!Under(p, q) <=> q = p \/ NS!Under(p, Front(q))
<1>1. PICK m \in Nat : m = Len(p)
  BY LenProperties
<1>2. PICK n \in Nat \ {0} : n = Len(q)
  BY FrontParts
<1>3. PICK f \in Seq(Names) : f = Front(q)
  BY FrontParts
<1>4. Len(f) = n - 1 /\ n - 1 \in Nat /\ \A i \in 1 .. n - 1 : f[i] = q[i]
  BY <1>2, <1>3, FrontParts
<1>5. f # q
  <2>1. Len(f) # Len(q)
    BY <1>2, <1>4
  <2>2. QED
    BY <2>1, Zenon
<1>6. NS!Under(p, q) <=> m <= n /\ \A i \in 1 .. m : q[i] = p[i]
  BY <1>1, <1>2, UnderParts
<1>7. NS!Under(p, f) <=> m <= n - 1 /\ \A i \in 1 .. m : f[i] = p[i]
  BY <1>1, <1>4, UnderParts
<1>8. ASSUME NS!Under(p, f) PROVE NS!Under(p, q)
  <2>1. m <= n - 1 /\ \A i \in 1 .. m : f[i] = p[i]
    BY <1>7, <1>8
  <2>2. m <= n /\ \A i \in 1 .. m : i \in 1 .. n - 1
    BY <2>1
  <2>3. \A i \in 1 .. m : q[i] = p[i]
    BY <1>4, <2>1, <2>2
  <2>4. QED
    BY <1>6, <2>2, <2>3
<1>9. ASSUME NS!Under(p, q), q # p PROVE NS!Under(p, f)
  <2>1. m <= n /\ \A i \in 1 .. m : q[i] = p[i]
    BY <1>6, <1>9
  <2>2. m # n
    <3>1. SUFFICES ASSUME m = n PROVE FALSE
      OBVIOUS
    <3>2. q = p
      BY <1>1, <1>2, <2>1, <3>1, SeqEqual
    <3>3. QED
      BY <1>9, <3>2
  <2>3. m <= n - 1 /\ \A i \in 1 .. m : i \in 1 .. n - 1
    BY <2>1, <2>2
  <2>4. \A i \in 1 .. m : f[i] = p[i]
    BY <1>4, <2>1, <2>3
  <2>5. QED
    BY <1>7, <2>3, <2>4
<1>10. q = p => NS!Under(p, q)
  BY UnderSelf
<1>11. QED
  BY <1>3, <1>5, <1>8, <1>9, <1>10

LEMMA FrontOutside ==
  ASSUME NEW p \in Seq(Names), p # <<>>
  PROVE  ~NS!Under(p, Front(p))
<1>1. PICK m \in Nat \ {0} : m = Len(p)
  BY FrontParts
<1>2. Front(p) \in Seq(Names) /\ Len(Front(p)) = m - 1 /\ m - 1 \in Nat
  BY <1>1, FrontParts
<1>3. ~(m <= m - 1)
  OBVIOUS
<1>4. QED
  BY <1>1, <1>2, <1>3, UnderParts

(* Two paths with one beginning and one last name.                         *)
LEMMA FrontLastOne ==
  ASSUME NEW p \in Seq(Names), p # <<>>, NEW q \in Seq(Names), q # <<>>,
         Front(p) = Front(q), Last(p) = Last(q)
  PROVE  p = q
<1>1. PICK a \in Nat \ {0} : a = Len(p)
  BY FrontParts
<1>2. PICK b \in Nat \ {0} : b = Len(q)
  BY FrontParts
<1>3. Len(Front(p)) = a - 1 /\ Len(Front(q)) = b - 1
  BY <1>1, <1>2, FrontParts
<1>4. a = b
  BY <1>3
<1>5. \A i \in 1 .. a - 1 : p[i] = Front(p)[i]
  BY <1>1, FrontParts
<1>6. \A i \in 1 .. a - 1 : q[i] = Front(q)[i]
  BY <1>2, <1>4, FrontParts
<1>7. p[a] = q[a]
  BY <1>1, <1>2, <1>4, FrontParts
<1>8. ASSUME NEW i \in 1 .. a PROVE p[i] = q[i]
  <2>1. CASE i = a
    BY <1>7, <2>1
  <2>2. CASE i # a
    <3>1. i \in 1 .. a - 1
      BY <2>2
    <3>2. QED
      BY <1>5, <1>6, <3>1
  <2>3. QED
    BY <2>1, <2>2
<1>9. QED
  BY <1>1, <1>2, <1>4, <1>8, SeqEqual

(* What is true of the root and, if of a path, of those that have one name *)
(* more is true of every path.                                             *)
LEMMA EveryPath ==
  ASSUME NEW S, <<>> \in S,
         \A q \in Seq(Names) : q # <<>> /\ Front(q) \in S => q \in S
  PROVE  \A q \in Seq(Names) : q \in S
<1>1. SUFFICES ASSUME NEW p \in Seq(Names), p \notin S PROVE FALSE
  OBVIOUS
<1> DEFINE T == {n \in Nat : \E r \in Seq(Names) : Len(r) = n /\ r \notin S}
<1>2. Len(p) \in T
  BY <1>1, LenProperties
<1>3. PICK m \in T : \A n \in T : m <= n
  <2>1. T \subseteq Nat /\ T # {}
    BY <1>2
  <2>2. QED
    BY <2>1, LeastNat
<1>4. PICK r \in Seq(Names) : Len(r) = m /\ r \notin S
  OBVIOUS
<1>5. r # <<>>
  BY <1>4
<1>6. PICK l \in Nat \ {0} : l = Len(r)
  BY <1>5, FrontParts
<1>7. Front(r) \in Seq(Names) /\ Len(Front(r)) = l - 1 /\ l - 1 \in Nat /\ l = m
  BY <1>4, <1>5, <1>6, FrontParts
<1>8. Front(r) \notin S
  BY <1>4, <1>5
<1>9. l - 1 \in T
  BY <1>7, <1>8
<1>10. ~(m <= l - 1)
  BY <1>7
<1>11. QED
  BY <1>3, <1>9, <1>10

(* A path r of which the beginning, m names, is now the n of path to.      *)
Rebased(r, p, to, l, m, n) ==
  /\ r \in Seq(Names) /\ Len(r) = n + (l - m)
  /\ \A i \in 1 .. n : r[i] = to[i]
  /\ \A i \in 1 .. l - m : r[n + i] = p[m + i]

LEMMA RebaseParts ==
  ASSUME NEW p \in Seq(Names), NEW from \in Seq(Names), NEW to \in Seq(Names),
         NS!Under(from, p),
         NEW l \in Nat, l = Len(p), NEW m \in Nat, m = Len(from), NEW n \in Nat, n = Len(to),
         NEW r, r = NS!Rebase(p, from, to)
  PROVE  m <= l /\ Rebased(r, p, to, l, m, n)
<1>1. m <= l
  BY UnderParts
<1>2. \A i \in m + 1 .. l : p[i] \in Names
  <2>1. \A i \in m + 1 .. l : i \in 1 .. l
    OBVIOUS
  <2>2. QED
    BY <2>1, ElementOfSeq
<1>3. PICK s : s = SubSeq(p, m + 1, l)
  OBVIOUS
<1>4. s \in Seq(Names) /\ Len(s) = l - m /\ \A i \in 1 .. l - m : s[i] = p[m + i]
  <2>1. /\ s \in Seq(Names) /\ Len(s) = (IF m + 1 <= l THEN l - (m + 1) + 1 ELSE 0)
        /\ \A i \in 1 .. l - (m + 1) + 1 : s[i] = p[m + 1 + i - 1]
    BY <1>2, <1>3, SubSeqProperties
  <2>2. /\ (IF m + 1 <= l THEN l - (m + 1) + 1 ELSE 0) = l - m
        /\ 1 .. l - (m + 1) + 1 = 1 .. l - m
    BY <1>1
  <2>3. \A i \in 1 .. l - m : m + 1 + i - 1 = m + i
    OBVIOUS
  <2>4. QED
    BY <2>1, <2>2, <2>3
<1>5. r = to \o s
  BY <1>3 DEF NS!Rebase
<1>6. PICK d \in Nat : d = l - m
  BY <1>1
<1>7. /\ r \in Seq(Names) /\ Len(r) = n + d
      /\ \A i \in 1 .. n + d : r[i] = IF i <= n THEN to[i] ELSE s[i - n]
  <2>1. /\ to \o s \in Seq(Names) /\ Len(to \o s) = Len(to) + Len(s)
        /\ \A i \in 1 .. Len(to) + Len(s) :
             (to \o s)[i] = IF i <= Len(to) THEN to[i] ELSE s[i - Len(to)]
    BY ONLY to \in Seq(Names), <1>4, ConcatProperties
  <2>2. Len(to) = n /\ Len(s) = d
    BY <1>4, <1>6
  <2>3. QED
    BY <1>5, <2>1, <2>2
<1>8. \A i \in 1 .. n : i \in 1 .. n + d /\ i <= n
  OBVIOUS
<1>9. \A i \in 1 .. n : r[i] = to[i]
  BY <1>7, <1>8
<1>10. ASSUME NEW i \in 1 .. d PROVE r[n + i] = p[m + i]
  <2>1. PICK j \in 1 .. n + d : j = n + i /\ ~(j <= n) /\ j - n = i
    <3>1. n + i \in 1 .. n + d /\ ~(n + i <= n) /\ n + i - n = i
      OBVIOUS
    <3>2. QED
      BY <3>1
  <2>2. r[j] = s[i]
    BY <1>7, <2>1
  <2>3. s[i] = p[m + i]
    BY <1>4, <1>6
  <2>4. QED
    BY <2>1, <2>2, <2>3
<1>11. QED
  BY <1>1, <1>6, <1>7, <1>9, <1>10 DEF Rebased

LEMMA RebaseUnder ==
  ASSUME NEW p \in Seq(Names), NEW from \in Seq(Names), NEW to \in Seq(Names),
         NS!Under(from, p)
  PROVE  /\ NS!Rebase(p, from, to) \in Seq(Names) /\ NS!Under(to, NS!Rebase(p, from, to))
         /\ Len(NS!Rebase(p, from, to)) = Len(p) - Len(from) + Len(to)
<1>1. PICK l, m, n \in Nat : l = Len(p) /\ m = Len(from) /\ n = Len(to)
  BY LenProperties
<1>2. PICK r : r = NS!Rebase(p, from, to)
  OBVIOUS
<1>3. m <= l /\ r \in Seq(Names) /\ Len(r) = n + (l - m) /\ \A i \in 1 .. n : r[i] = to[i]
  <2>1. m <= l /\ Rebased(r, p, to, l, m, n)
    BY <1>1, <1>2, RebaseParts
  <2>2. QED
    BY <2>1 DEF Rebased
<1>4. n + (l - m) \in Nat /\ n <= n + (l - m) /\ n + (l - m) = l - m + n
  BY <1>3
<1>5. NS!Under(to, r)
  BY <1>1, <1>3, <1>4, UnderParts
<1>6. QED
  BY <1>1, <1>2, <1>3, <1>4, <1>5

LEMMA RebaseSelf ==
  ASSUME NEW from \in Seq(Names), NEW to \in Seq(Names)
  PROVE  NS!Rebase(from, from, to) = to
<1>1. PICK m, n \in Nat : m = Len(from) /\ n = Len(to)
  BY LenProperties
<1>2. PICK r : r = NS!Rebase(from, from, to)
  OBVIOUS
<1>3. NS!Under(from, from)
  BY UnderSelf
<1>4. r \in Seq(Names) /\ Len(r) = n + (m - m) /\ \A i \in 1 .. n : r[i] = to[i]
  <2>1. m <= m /\ Rebased(r, from, to, m, m, n)
    BY <1>1, <1>2, <1>3, RebaseParts
  <2>2. QED
    BY <2>1 DEF Rebased
<1>5. n + (m - m) = n
  OBVIOUS
<1>6. r = to
  BY <1>1, <1>4, <1>5, SeqEqual
<1>7. QED
  BY <1>2, <1>6

LEMMA RebaseBack ==
  ASSUME NEW p \in Seq(Names), NEW from \in Seq(Names), NEW to \in Seq(Names),
         NS!Under(from, p)
  PROVE  NS!Rebase(NS!Rebase(p, from, to), to, from) = p
<1>1. PICK l, m, n \in Nat : l = Len(p) /\ m = Len(from) /\ n = Len(to)
  BY LenProperties
<1>2. PICK r : r = NS!Rebase(p, from, to)
  OBVIOUS
<1>3. /\ m <= l /\ r \in Seq(Names) /\ Len(r) = n + (l - m)
      /\ \A i \in 1 .. l - m : r[n + i] = p[m + i]
  <2>1. m <= l /\ Rebased(r, p, to, l, m, n)
    BY <1>1, <1>2, RebaseParts
  <2>2. QED
    BY <2>1 DEF Rebased
<1>4. PICK k \in Nat : k = n + (l - m) /\ k - n = l - m
  BY <1>3
<1>5. NS!Under(to, r)
  BY <1>2, RebaseUnder
<1>6. PICK s : s = NS!Rebase(r, to, from)
  OBVIOUS
<1>7. /\ s \in Seq(Names) /\ Len(s) = m + (k - n)
      /\ \A i \in 1 .. m : s[i] = from[i]
      /\ \A i \in 1 .. k - n : s[m + i] = r[n + i]
  <2>1. n <= k /\ Rebased(s, r, from, k, n, m)
    BY <1>1, <1>3, <1>4, <1>5, <1>6, RebaseParts
  <2>2. QED
    BY <2>1 DEF Rebased
<1>8. m + (k - n) = l
  BY <1>4
<1>9. ASSUME NEW i \in 1 .. l PROVE s[i] = p[i]
  <2>1. CASE i <= m
    <3>1. i \in 1 .. m
      BY <2>1
    <3>2. p[i] = from[i]
      BY <1>1, <3>1, UnderParts
    <3>3. QED
      BY <1>7, <3>1, <3>2
  <2>2. CASE ~(i <= m)
    <3>1. PICK j \in 1 .. l - m : i = m + j
      <4>1. i - m \in 1 .. l - m /\ i = m + (i - m)
        BY <2>2
      <4>2. QED
        BY <4>1
    <3>2. s[m + j] = r[n + j] /\ r[n + j] = p[m + j]
      BY <1>3, <1>4, <1>7, <3>1
    <3>3. QED
      BY <3>1, <3>2
  <2>3. QED
    BY <2>1, <2>2
<1>10. s = p
  BY <1>1, <1>7, <1>8, <1>9, SeqEqual
<1>11. QED
  BY <1>2, <1>6, <1>10

LEMMA RebaseFront ==
  ASSUME NEW p \in Seq(Names), NEW from \in Seq(Names), NEW to \in Seq(Names),
         NS!Under(from, p), p # from
  PROVE  LET r == NS!Rebase(p, from, to)
         IN  /\ p # <<>> /\ r # <<>> /\ NS!Under(from, Front(p))
             /\ Front(r) = NS!Rebase(Front(p), from, to) /\ Last(r) = Last(p)
<1>1. p # <<>>
  BY UnderRoot
<1>2. PICK l, m, n \in Nat : l = Len(p) /\ m = Len(from) /\ n = Len(to)
  BY LenProperties
<1>3. PICK f \in Seq(Names) : f = Front(p)
  BY <1>1, FrontParts
<1>4. NS!Under(from, f)
  BY <1>1, <1>3, UnderFront
<1>5. l \in Nat \ {0} /\ Len(f) = l - 1 /\ \A i \in 1 .. l - 1 : f[i] = p[i]
  BY <1>1, <1>2, <1>3, FrontParts
<1>6. PICK k \in Nat : k = l - 1
  BY <1>5
<1>7. PICK r, s : r = NS!Rebase(p, from, to) /\ s = NS!Rebase(f, from, to)
  OBVIOUS
<1>8. /\ r \in Seq(Names) /\ Len(r) = n + (l - m)
      /\ \A i \in 1 .. n : r[i] = to[i]
      /\ \A i \in 1 .. l - m : r[n + i] = p[m + i]
  <2>1. m <= l /\ Rebased(r, p, to, l, m, n)
    BY <1>2, <1>7, RebaseParts
  <2>2. QED
    BY <2>1 DEF Rebased
<1>9. /\ m <= k /\ s \in Seq(Names) /\ Len(s) = n + (k - m)
      /\ \A i \in 1 .. n : s[i] = to[i]
      /\ \A i \in 1 .. k - m : s[n + i] = f[m + i]
  <2>1. m <= k /\ Rebased(s, f, to, k, m, n)
    BY <1>2, <1>4, <1>5, <1>6, <1>7, RebaseParts
  <2>2. QED
    BY <2>1 DEF Rebased
<1>10. PICK z \in Nat \ {0} : z = n + (l - m) /\ z - 1 = n + (k - m) /\ l - m = k - m + 1
  <2>1. n + (l - m) \in Nat \ {0} /\ n + (l - m) - 1 = n + (k - m) /\ l - m = k - m + 1
    BY <1>5, <1>6, <1>9
  <2>2. QED
    BY <2>1
<1>11. r # <<>>
  <2>1. Len(r) # 0
    BY <1>8, <1>10
  <2>2. QED
    BY <2>1, EmptySeq
<1>12. /\ Front(r) \in Seq(Names) /\ Len(Front(r)) = z - 1
       /\ \A i \in 1 .. z - 1 : Front(r)[i] = r[i]
       /\ Last(r) = r[z]
  BY <1>8, <1>10, <1>11, FrontParts
<1>13. Last(p) = p[l]
  BY <1>1, <1>2, FrontParts
<1>14. Last(r) = Last(p)
  <2>1. l - m \in 1 .. l - m /\ n + (l - m) = z /\ m + (l - m) = l
    BY <1>5, <1>6, <1>9, <1>10
  <2>2. QED
    BY <1>8, <1>12, <1>13, <2>1
<1>15. ASSUME NEW i \in 1 .. z - 1 PROVE Front(r)[i] = s[i]
  <2>1. CASE i <= n
    <3>1. i \in 1 .. n
      BY <2>1
    <3>2. QED
      BY <1>8, <1>9, <1>12, <3>1
  <2>2. CASE ~(i <= n)
    <3>1. PICK j \in 1 .. k - m : i = n + j
      <4>1. i - n \in 1 .. k - m /\ i = n + (i - n)
        BY <1>9, <1>10, <2>2
      <4>2. QED
        BY <4>1
    <3>2. j \in 1 .. l - m /\ m + j \in 1 .. l - 1
      BY <1>6, <1>9, <1>10, <3>1
    <3>3. r[n + j] = p[m + j] /\ s[n + j] = f[m + j] /\ f[m + j] = p[m + j]
      BY <1>5, <1>8, <1>9, <3>1, <3>2
    <3>4. QED
      BY <1>12, <3>1, <3>3
  <2>3. QED
    BY <2>1, <2>2
<1>16. Front(r) = s
  <2>1. Len(s) = z - 1
    BY <1>9, <1>10
  <2>2. QED
    BY <1>9, <1>12, <1>15, <2>1, SeqEqual
<1>17. QED
  BY <1>1, <1>3, <1>4, <1>7, <1>11, <1>14, <1>16

LEMMA ParentIs ==
  ASSUME NEW p
  PROVE  NS!Parent(p) = Front(p)
  BY DEF NS!Parent, Front

(* IsPrefix of the guard of Move.                                          *)
LEMMA PrefixUnder ==
  ASSUME NEW p \in Seq(Names), NEW q \in Seq(Names)
  PROVE  IsPrefix(p, q) <=> NS!Under(p, q)
<1>1. SubSeq(p, 1, Len(p)) = p
  BY SubSeqFull
<1>2. QED
  BY <1>1 DEF IsPrefix, NS!Under

-----------------------------------------------------------------------------
(***************************************************************************)
(* What paths lead to.                                                     *)
(***************************************************************************)

(* A record that a path leads to is in a folder.                           *)
LEMMA FoundKey ==
  ASSUME NEW c, NEW gone, NEW next, Tidy(c, gone, next),
         NEW p \in Seq(Names), p # <<>>, Found(c, p)
  PROVE  /\ KeyAt(c, p) \in RecordKeys(c) /\ KeyAt(c, p) # RootKey
         /\ KeyAt(c, p) = <<FolderAt(c, Front(p)), Last(p)>>
         /\ FolderAt(c, Front(p)) # NoFolder
<1>1. KeyAt(c, p) \in RecordKeys(c)
  BY KeyAtParts, RecordKeysOf DEF Found
<1>2. KeyAt(c, p) \in Keys
  BY <1>1, TidyNamed
<1>3. KeyAt(c, p)[1] = FolderAt(c, Front(p)) /\ KeyAt(c, p) # RootKey
  BY KeyAtParts
<1>4. QED
  BY <1>1, <1>2, <1>3, KeyPair DEF KeyAt

(* No record has two paths.                                                *)
LEMMA KeyOne ==
  ASSUME NEW c, NEW gone, NEW next, Tidy(c, gone, next),
         NEW p \in Seq(Names), p # <<>>, NEW q \in Seq(Names), q # <<>>,
         KeyAt(c, p) = KeyAt(c, q), FolderAt(c, Front(p)) # NoFolder
  PROVE  p = q
<1>1. FolderAt(c, Front(p)) = FolderAt(c, Front(q)) /\ Last(p) = Last(q)
  BY DEF KeyAt
<1>2. Front(p) \in Seq(Names) /\ Front(q) \in Seq(Names)
  BY FrontParts
<1>3. Front(p) = Front(q)
  BY <1>1, <1>2, FolderOne
<1>4. QED
  BY <1>1, <1>3, FrontLastOne

(* A folder that a path leads to is found there.                           *)
LEMMA FolderFound ==
  ASSUME NEW c, NEW p \in Seq(Names), p # <<>>, FolderAt(c, p) # NoFolder
  PROVE  Found(c, p) /\ c[KeyAt(c, p)].kind = "folder" /\ c[KeyAt(c, p)].id = FolderAt(c, p)
  BY FolderAtStep DEF Found

(* All that is on the way to a record is found.                            *)
LEMMA FoundUp ==
  ASSUME NEW c, NEW gone, NEW next, Tidy(c, gone, next),
         NEW p \in Seq(Names), p # <<>>, NEW q \in Seq(Names),
         NS!Under(p, q), Found(c, q)
  PROVE  Found(c, p)
<1> DEFINE S == {r \in Seq(Names) : NS!Under(p, r) /\ Found(c, r) => Found(c, p)}
<1>1. <<>> \in S
  BY UnderRoot, EmptySeq
<1>2. ASSUME NEW r \in Seq(Names), r # <<>>, Front(r) \in S PROVE r \in S
  <2>1. SUFFICES ASSUME NS!Under(p, r), Found(c, r) PROVE Found(c, p)
    OBVIOUS
  <2>2. CASE r = p
    BY <2>1, <2>2
  <2>3. CASE r # p
    <3>1. NS!Under(p, Front(r)) /\ Front(r) \in Seq(Names)
      BY <1>2, <2>1, <2>3, UnderFront
    <3>2. Front(r) # <<>>
      BY <3>1, UnderRoot
    <3>3. FolderAt(c, Front(r)) # NoFolder
      BY <1>2, <2>1, FoundKey
    <3>4. Found(c, Front(r))
      BY <3>1, <3>2, <3>3, FolderFound
    <3>5. QED
      BY <1>2, <3>1, <3>4
  <2>4. QED
    BY <2>2, <2>3
<1>3. \A r \in Seq(Names) : r \in S
  <2> HIDE DEF S
  <2>1. QED
    BY <1>1, <1>2, EveryPath
<1>4. QED
  BY <1>3

(* What Renamed takes along: the record at q is where m leads.             *)
Carries(c, d, q, r) ==
  /\ Found(d, q) <=> Found(c, r)
  /\ Found(d, q) => d[KeyAt(d, q)] = c[KeyAt(c, r)]

(* The records of d are those of c, but for what a path does not tell.     *)
Matches(c, d) ==
  /\ RecordKeys(d) = RecordKeys(c)
  /\ \A k \in RecordKeys(c) : d[k].id = c[k].id /\ d[k].kind = c[k].kind

LEMMA MatchWalk ==
  ASSUME NEW c, NEW d, Matches(c, d), NEW p \in Seq(Names)
  PROVE  FolderAt(d, p) = FolderAt(c, p)
<1> DEFINE S == {q \in Seq(Names) : FolderAt(d, q) = FolderAt(c, q)}
<1>1. <<>> \in S
  BY FolderAtRoot, EmptySeq
<1>2. ASSUME NEW q \in Seq(Names), q # <<>>, Front(q) \in S PROVE q \in S
  <2>1. PICK k : k = KeyAt(c, q) /\ k = KeyAt(d, q) /\ ~IsThread(k)
    BY <1>2, KeyAtParts DEF KeyAt
  <2>2. k \in DOMAIN d <=> k \in DOMAIN c
    BY <2>1, RecordKeysOf DEF Matches
  <2>3. k \in DOMAIN c => d[k].id = c[k].id /\ d[k].kind = c[k].kind
    BY <2>1, RecordKeysOf DEF Matches
  <2>4. FolderAt(c, q) = IF k \in DOMAIN c /\ c[k].kind = "folder" THEN c[k].id ELSE NoFolder
    BY <1>2, <2>1, FolderAtStep
  <2>5. FolderAt(d, q) = IF k \in DOMAIN d /\ d[k].kind = "folder" THEN d[k].id ELSE NoFolder
    BY <1>2, <2>1, FolderAtStep
  <2>6. QED
    BY <2>2, <2>3, <2>4, <2>5
<1>3. \A q \in Seq(Names) : q \in S
  <2> HIDE DEF S
  <2>1. QED
    BY <1>1, <1>2, EveryPath
<1>4. QED
  BY <1>3

LEMMA MatchKeys ==
  ASSUME NEW c, NEW d, Matches(c, d), NEW p \in Seq(Names), p # <<>>
  PROVE  KeyAt(d, p) = KeyAt(c, p) /\ (Found(d, p) <=> Found(c, p))
<1>1. Front(p) \in Seq(Names)
  BY FrontParts
<1>2. KeyAt(d, p) = KeyAt(c, p)
  BY <1>1, MatchWalk DEF KeyAt
<1>3. ~IsThread(KeyAt(c, p))
  BY KeyAtParts
<1>4. QED
  BY <1>2, <1>3, RecordKeysOf DEF Matches, Found

-----------------------------------------------------------------------------
(* A record has gone from c, and what was under it is no longer found.     *)

Gone(c, d, k) ==
  /\ RecordKeys(d) = RecordKeys(c) \ {k}
  /\ \A l \in RecordKeys(d) : d[l] = c[l]

LEMMA GoneWalk ==
  ASSUME NEW c, NEW gone, NEW next, Tidy(c, gone, next),
         NEW d, NEW after, NEW then, Tidy(d, then, after),
         NEW p \in Seq(Names), p # <<>>, Found(c, p), Gone(c, d, KeyAt(c, p)),
         NEW q \in Seq(Names)
  PROVE  FolderAt(d, q) = IF NS!Under(p, q) THEN NoFolder ELSE FolderAt(c, q)
<1> DEFINE S == {r \in Seq(Names) :
                   FolderAt(d, r) = IF NS!Under(p, r) THEN NoFolder ELSE FolderAt(c, r)}
<1>1. <<>> \in S
  BY FolderAtRoot, EmptySeq, UnderRoot
<1>2. ASSUME NEW r \in Seq(Names), r # <<>>, Front(r) \in S PROVE r \in S
  <2>1. Front(r) \in Seq(Names) /\ (NS!Under(p, r) <=> r = p \/ NS!Under(p, Front(r)))
    BY <1>2, UnderFront
  <2>2. PICK k : k = KeyAt(d, r)
    OBVIOUS
  <2>3. ~IsThread(k) /\ k = <<FolderAt(d, Front(r)), Last(r)>>
    BY <1>2, <2>2, KeyAtParts DEF KeyAt
  <2>4. FolderAt(d, r) = IF k \in DOMAIN d /\ d[k].kind = "folder" THEN d[k].id ELSE NoFolder
    BY <1>2, <2>2, FolderAtStep
  <2>5. CASE NS!Under(p, Front(r))
    <3>1. FolderAt(d, Front(r)) = NoFolder
      BY <1>2, <2>5
    <3>2. k \notin DOMAIN d
      <4>1. SUFFICES ASSUME k \in DOMAIN d PROVE FALSE
        OBVIOUS
      <4>2. Found(d, r)
        BY <2>2, <4>1 DEF Found
      <4>3. FolderAt(d, Front(r)) # NoFolder
        BY <1>2, <4>2, FoundKey
      <4>4. QED
        BY <3>1, <4>3
    <3>3. QED
      BY <2>1, <2>4, <2>5, <3>2
  <2>6. CASE ~NS!Under(p, Front(r))
    <3>1. FolderAt(d, Front(r)) = FolderAt(c, Front(r))
      BY <1>2, <2>6
    <3>2. k = KeyAt(c, r)
      BY <2>3, <3>1 DEF KeyAt
    <3>3. FolderAt(c, r) =
            IF k \in DOMAIN c /\ c[k].kind = "folder" THEN c[k].id ELSE NoFolder
      BY <1>2, <3>2, FolderAtStep
    <3>4. CASE r = p
      <4>1. k \notin DOMAIN d
        BY <2>3, <3>2, <3>4, RecordKeysOf DEF Gone
      <4>2. QED
        BY <2>1, <2>4, <3>4, <4>1
    <3>5. CASE r # p
      <4>1. k # KeyAt(c, p)
        <5>1. SUFFICES ASSUME k = KeyAt(c, p) PROVE FALSE
          OBVIOUS
        <5>2. FolderAt(c, Front(p)) # NoFolder
          BY FoundKey
        <5>3. p = r
          BY <1>2, <3>2, <5>1, <5>2, KeyOne
        <5>4. QED
          BY <3>5, <5>3
      <4>2. /\ k \in DOMAIN d <=> k \in DOMAIN c
            /\ k \in DOMAIN d => d[k] = c[k]
        BY <2>3, <4>1, RecordKeysOf DEF Gone
      <4>3. QED
        BY <2>1, <2>4, <2>6, <3>3, <3>5, <4>2
    <3>6. QED
      BY <3>4, <3>5
  <2>7. QED
    BY <2>5, <2>6
<1>3. \A r \in Seq(Names) : r \in S
  <2> HIDE DEF S
  <2>1. QED
    BY <1>1, <1>2, EveryPath
<1>4. QED
  BY <1>3

LEMMA GoneFound ==
  ASSUME NEW c, NEW gone, NEW next, Tidy(c, gone, next),
         NEW d, NEW after, NEW then, Tidy(d, then, after),
         NEW p \in Seq(Names), p # <<>>, Found(c, p), Gone(c, d, KeyAt(c, p)),
         NEW q \in Seq(Names), q # <<>>
  PROVE  /\ Found(d, q) <=> Found(c, q) /\ ~NS!Under(p, q)
         /\ Found(d, q) => KeyAt(d, q) = KeyAt(c, q) /\ d[KeyAt(d, q)] = c[KeyAt(c, q)]
<1>1. Front(q) \in Seq(Names) /\ (NS!Under(p, q) <=> q = p \/ NS!Under(p, Front(q)))
  BY UnderFront
<1>2. FolderAt(d, Front(q)) =
        IF NS!Under(p, Front(q)) THEN NoFolder ELSE FolderAt(c, Front(q))
  BY <1>1, GoneWalk
<1>3. CASE NS!Under(p, Front(q))
  <2>1. ~Found(d, q)
    BY <1>2, <1>3, FoundKey
  <2>2. QED
    BY <1>1, <1>3, <2>1
<1>4. CASE ~NS!Under(p, Front(q))
  <2>1. PICK k : k = KeyAt(d, q) /\ k = KeyAt(c, q)
    BY <1>2, <1>4 DEF KeyAt
  <2>2. ~IsThread(k)
    BY <2>1, KeyAtParts
  <2>3. k = KeyAt(c, p) <=> q = p
    <3>1. FolderAt(c, Front(p)) # NoFolder
      BY FoundKey
    <3>2. QED
      BY <2>1, <3>1, KeyOne
  <2>4. /\ k \in DOMAIN d <=> k \in DOMAIN c /\ k # KeyAt(c, p)
        /\ k \in DOMAIN d => d[k] = c[k]
    BY <2>2, RecordKeysOf DEF Gone
  <2>5. QED
    BY <1>1, <1>4, <2>1, <2>3, <2>4 DEF Found
<1>5. QED
  BY <1>3, <1>4

-----------------------------------------------------------------------------
(* A record with nothing under it has come to c.                           *)

Come(c, d, k, rec) ==
  /\ RecordKeys(d) = RecordKeys(c) \cup {k} /\ k \notin RecordKeys(c)
  /\ d[k] = rec /\ \A l \in RecordKeys(c) : d[l] = c[l]

LEMMA ComeWalk ==
  ASSUME NEW c, NEW gone, NEW next, Tidy(c, gone, next),
         NEW d, NEW after, NEW then, Tidy(d, then, after),
         NEW p \in Seq(Names), p # <<>>, FolderAt(c, Front(p)) # NoFolder,
         NEW rec, Come(c, d, KeyAt(c, p), rec),
         \A l \in RecordKeys(d) : l[1] # rec.id,
         NEW q \in Seq(Names)
  PROVE  /\ q # p => FolderAt(d, q) = FolderAt(c, q)
         /\ KeyAt(d, p) = KeyAt(c, p)
<1> DEFINE S == {r \in Seq(Names) : ~NS!Under(p, r) => FolderAt(d, r) = FolderAt(c, r)}
           T == {r \in Seq(Names) : NS!Under(p, r) /\ r # p => FolderAt(d, r) = NoFolder}
<1>1. <<>> \in S /\ <<>> \in T
  BY FolderAtRoot, EmptySeq, UnderRoot
<1>2. ~Found(c, p)
  <2>1. ~IsThread(KeyAt(c, p))
    BY KeyAtParts
  <2>2. KeyAt(c, p) \notin DOMAIN c
    BY <2>1, RecordKeysOf DEF Come
  <2>3. QED
    BY <2>2 DEF Found
<1>3. ASSUME NEW r \in Seq(Names), r # <<>>, Front(r) \in S PROVE r \in S
  <2>1. SUFFICES ASSUME ~NS!Under(p, r) PROVE FolderAt(d, r) = FolderAt(c, r)
    OBVIOUS
  <2>2. r # p /\ ~NS!Under(p, Front(r))
    BY <1>3, <2>1, UnderFront
  <2>3. PICK k : k = KeyAt(d, r) /\ k = KeyAt(c, r)
    BY <1>3, <2>2 DEF KeyAt
  <2>4. ~IsThread(k)
    BY <1>3, <2>3, KeyAtParts
  <2>5. k # KeyAt(c, p)
    BY <1>3, <2>2, <2>3, KeyOne
  <2>6. /\ k \in DOMAIN d <=> k \in DOMAIN c
        /\ k \in DOMAIN c => d[k] = c[k]
    BY <2>4, <2>5, RecordKeysOf DEF Come
  <2>7. QED
    BY <1>3, <2>3, <2>6, FolderAtStep
<1>4. \A r \in Seq(Names) : r \in S
  <2> HIDE DEF S
  <2>1. QED
    BY <1>1, <1>3, EveryPath
<1>5. KeyAt(d, p) = KeyAt(c, p)
  <2>1. Front(p) \in Seq(Names) /\ ~NS!Under(p, Front(p))
    BY FrontOutside, FrontParts
  <2>2. FolderAt(d, Front(p)) = FolderAt(c, Front(p))
    BY <1>4, <2>1
  <2>3. QED
    BY <2>2 DEF KeyAt
<1>6. ASSUME NEW r \in Seq(Names), r # <<>>, Front(r) \in T PROVE r \in T
  <2>1. SUFFICES ASSUME NS!Under(p, r), r # p, FolderAt(d, r) # NoFolder PROVE FALSE
    OBVIOUS
  <2>2. NS!Under(p, Front(r)) /\ Front(r) \in Seq(Names)
    BY <1>6, <2>1, UnderFront
  <2>3. Found(d, r)
    BY <1>6, <2>1, FolderFound
  <2>4. /\ KeyAt(d, r) \in RecordKeys(d) /\ KeyAt(d, r)[1] = FolderAt(d, Front(r))
        /\ FolderAt(d, Front(r)) # NoFolder
    BY <1>6, <2>3, FoundKey, KeyAtParts
  <2>5. Front(r) = p
    BY <1>6, <2>2, <2>4
  <2>6. d[KeyAt(d, p)].id = FolderAt(d, p)
    BY <2>4, <2>5, FolderFound
  <2>7. FolderAt(d, p) = rec.id
    BY <1>5, <2>6 DEF Come
  <2>8. QED
    BY <2>4, <2>5, <2>7
<1>7. \A r \in Seq(Names) : r \in T
  <2> HIDE DEF T
  <2>1. QED
    BY <1>1, <1>6, EveryPath
<1>8. ASSUME NS!Under(p, q), q # p PROVE FolderAt(d, q) = FolderAt(c, q)
  <2>1. FolderAt(d, q) = NoFolder
    BY <1>7, <1>8
  <2>2. q # <<>>
    BY <1>8, UnderRoot
  <2>3. ~Found(c, q)
    BY <1>2, <1>8, FoundUp
  <2>4. QED
    BY <2>1, <2>2, <2>3, FolderFound
<1>9. QED
  BY <1>4, <1>5, <1>8

LEMMA ComeFound ==
  ASSUME NEW c, NEW gone, NEW next, Tidy(c, gone, next),
         NEW d, NEW after, NEW then, Tidy(d, then, after),
         NEW p \in Seq(Names), p # <<>>, FolderAt(c, Front(p)) # NoFolder,
         NEW rec, Come(c, d, KeyAt(c, p), rec),
         \A l \in RecordKeys(d) : l[1] # rec.id,
         NEW q \in Seq(Names), q # <<>>
  PROVE  /\ Found(d, q) <=> Found(c, q) \/ q = p
         /\ Found(c, q) => KeyAt(d, q) = KeyAt(c, q) /\ d[KeyAt(d, q)] = c[KeyAt(c, q)]
         /\ ~Found(c, p) /\ d[KeyAt(d, p)] = rec
<1>1. KeyAt(d, p) = KeyAt(c, p) /\ d[KeyAt(d, p)] = rec
  BY ComeWalk DEF Come
<1>2. KeyAt(d, p) \in DOMAIN d /\ KeyAt(c, p) \notin DOMAIN c
  <2>1. ~IsThread(KeyAt(c, p))
    BY KeyAtParts
  <2>2. QED
    BY <1>1, <2>1, RecordKeysOf DEF Come
<1>3. Found(d, p) /\ ~Found(c, p)
  BY <1>2 DEF Found
<1>4. ASSUME q # p
      PROVE  /\ Found(d, q) <=> Found(c, q)
             /\ Found(c, q) => KeyAt(d, q) = KeyAt(c, q) /\ d[KeyAt(d, q)] = c[KeyAt(c, q)]
  <2>1. Front(q) \in Seq(Names)
    BY FrontParts
  <2>2. CASE Front(q) # p
    <3>1. PICK k : k = KeyAt(d, q) /\ k = KeyAt(c, q)
      <4>1. FolderAt(d, Front(q)) = FolderAt(c, Front(q))
        BY <2>1, <2>2, ComeWalk
      <4>2. QED
        BY <4>1 DEF KeyAt
    <3>2. ~IsThread(k)
      BY <3>1, KeyAtParts
    <3>3. k # KeyAt(c, p)
      BY <1>4, <3>1, KeyOne
    <3>4. /\ k \in DOMAIN d <=> k \in DOMAIN c
          /\ k \in DOMAIN c => d[k] = c[k]
      BY <3>2, <3>3, RecordKeysOf DEF Come
    <3>5. QED
      BY <3>1, <3>4 DEF Found
  <2>3. CASE Front(q) = p
    <3>1. ~Found(c, q)
      <4>1. SUFFICES ASSUME Found(c, q) PROVE FALSE
        OBVIOUS
      <4>2. FolderAt(c, p) # NoFolder
        BY <2>3, <4>1, FoundKey
      <4>3. QED
        BY <1>3, <4>2, FolderFound
    <3>2. ~Found(d, q)
      <4>1. SUFFICES ASSUME Found(d, q) PROVE FALSE
        OBVIOUS
      <4>2. /\ KeyAt(d, q) \in RecordKeys(d) /\ KeyAt(d, q)[1] = FolderAt(d, p)
            /\ FolderAt(d, p) # NoFolder
        BY <2>3, <4>1, FoundKey, KeyAtParts
      <4>3. FolderAt(d, p) = rec.id
        BY <1>1, <4>2, FolderFound
      <4>4. QED
        BY <4>2, <4>3
    <3>3. QED
      BY <3>1, <3>2
  <2>4. QED
    BY <2>2, <2>3
<1>5. QED
  BY <1>1, <1>3, <1>4

-----------------------------------------------------------------------------
(* A record has gone from one place of c and come at another.              *)

Swapped(c, d, from, to) ==
  /\ RecordKeys(d) = (RecordKeys(c) \ {from}) \cup {to}
  /\ from \in RecordKeys(c) /\ to \notin RecordKeys(c)
  /\ d[to] = c[from] /\ \A l \in RecordKeys(c) \ {from} : d[l] = c[l]

LEMMA SwappedAt ==
  ASSUME NEW c, NEW d, NEW from, NEW to, Swapped(c, d, from, to),
         NEW k, ~IsThread(k), k # from, k # to
  PROVE  /\ k \in DOMAIN d <=> k \in DOMAIN c
         /\ k \in DOMAIN c => d[k] = c[k]
  BY RecordKeysOf DEF Swapped

(* What is under t has come from s with the record there, and nothing is   *)
(* under s.                                                                *)
MovedFolder(c, s, t, q) ==
  IF NS!Under(t, q) THEN FolderAt(c, NS!Rebase(q, t, s))
  ELSE IF NS!Under(s, q) THEN NoFolder ELSE FolderAt(c, q)

MovedRecord(c, d, s, t, q) ==
  /\ NS!Under(t, q) => Carries(c, d, q, NS!Rebase(q, t, s))
  /\ ~NS!Under(t, q) /\ NS!Under(s, q) => ~Found(d, q)
  /\ ~NS!Under(t, q) /\ ~NS!Under(s, q) => Carries(c, d, q, q)

LEMMA MoveStep ==
  ASSUME NEW c, NEW gone, NEW next, Tidy(c, gone, next),
         NEW d, NEW after, NEW then, Tidy(d, then, after),
         NEW s \in Seq(Names), s # <<>>, Found(c, s),
         NEW t \in Seq(Names), t # <<>>, FolderAt(c, Front(t)) # NoFolder,
         ~NS!Under(s, t), Swapped(c, d, KeyAt(c, s), KeyAt(c, t)),
         NEW q \in Seq(Names), q # <<>>,
         FolderAt(d, Front(q)) = MovedFolder(c, s, t, Front(q))
  PROVE  MovedRecord(c, d, s, t, q)
<1>1. PICK h \in Seq(Names) : h = Front(q)
  BY FrontParts
<1>2. /\ NS!Under(t, q) <=> q = t \/ NS!Under(t, h)
      /\ NS!Under(s, q) <=> q = s \/ NS!Under(s, h)
  BY <1>1, UnderFront
<1>3. PICK from, to : from = KeyAt(c, s) /\ to = KeyAt(c, t)
  OBVIOUS
<1>4. ~IsThread(from) /\ ~IsThread(to) /\ FolderAt(c, Front(s)) # NoFolder
  BY <1>3, KeyAtParts, FoundKey
<1>5. /\ from \notin DOMAIN d /\ from \in DOMAIN c
      /\ to \in DOMAIN d /\ to \notin DOMAIN c /\ d[to] = c[from]
  BY <1>3, <1>4, RecordKeysOf DEF Swapped
<1>6. ASSUME NEW r \in Seq(Names), r # <<>>, KeyAt(d, q) = KeyAt(c, r), r # s, r # t
      PROVE  Carries(c, d, q, r)
  <2>1. PICK k : k = KeyAt(c, r) /\ k = KeyAt(d, q)
    BY <1>6
  <2>2. ~IsThread(k)
    BY <2>1, KeyAtParts
  <2>3. k # from /\ k # to
    BY <1>3, <1>4, <1>6, <2>1, KeyOne
  <2>4. /\ k \in DOMAIN d <=> k \in DOMAIN c
        /\ k \in DOMAIN c => d[k] = c[k]
    BY <1>3, <2>2, <2>3, SwappedAt
  <2>5. QED
    BY <2>1, <2>4 DEF Carries, Found
<1>7. CASE q = t
  <2>1. ~NS!Under(t, h) /\ ~NS!Under(s, h)
    BY <1>1, <1>2, <1>7, FrontOutside
  <2>2. FolderAt(d, h) = FolderAt(c, h)
    BY <1>1, <2>1 DEF MovedFolder
  <2>3. KeyAt(d, q) = to
    BY <1>1, <1>3, <1>7, <2>2 DEF KeyAt
  <2>4. NS!Rebase(q, t, s) = s
    BY <1>7, RebaseSelf
  <2>5. Carries(c, d, q, s)
    BY <1>3, <1>5, <2>3 DEF Carries, Found
  <2>6. NS!Under(t, q)
    BY <1>2, <1>7
  <2>7. QED
    BY <2>4, <2>5, <2>6 DEF MovedRecord
<1>8. CASE q # t /\ NS!Under(t, h)
  <2>1. NS!Under(t, q)
    BY <1>2, <1>8
  <2>2. PICK r \in Seq(Names) : r = NS!Rebase(q, t, s) /\ NS!Under(s, r)
    BY <2>1, RebaseUnder
  <2>3. r # <<>> /\ Front(r) = NS!Rebase(h, t, s) /\ Last(r) = Last(q)
    BY <1>1, <1>8, <2>1, <2>2, RebaseFront
  <2>4. FolderAt(d, h) = FolderAt(c, Front(r))
    BY <1>1, <1>8, <2>3 DEF MovedFolder
  <2>5. KeyAt(d, q) = KeyAt(c, r)
    BY <1>1, <2>3, <2>4 DEF KeyAt
  <2>6. r # t
    BY <2>2
  <2>7. r # s
    <3>1. NS!Rebase(r, s, t) = q
      BY <2>1, <2>2, RebaseBack
    <3>2. QED
      BY <1>8, <3>1, RebaseSelf
  <2>8. Carries(c, d, q, r)
    BY <1>6, <2>3, <2>5, <2>6, <2>7
  <2>9. QED
    BY <2>1, <2>2, <2>8 DEF MovedRecord
<1>9. CASE q # t /\ ~NS!Under(t, h) /\ NS!Under(s, h)
  <2>1. FolderAt(d, h) = NoFolder
    BY <1>1, <1>9 DEF MovedFolder
  <2>2. ~Found(d, q)
    BY <1>1, <2>1, FoundKey
  <2>3. ~NS!Under(t, q) /\ NS!Under(s, q)
    BY <1>2, <1>9
  <2>4. QED
    BY <2>2, <2>3 DEF MovedRecord
<1>10. CASE q # t /\ ~NS!Under(t, h) /\ ~NS!Under(s, h)
  <2>1. FolderAt(d, h) = FolderAt(c, h)
    BY <1>1, <1>10 DEF MovedFolder
  <2>2. KeyAt(d, q) = KeyAt(c, q)
    BY <1>1, <2>1 DEF KeyAt
  <2>3. ~NS!Under(t, q)
    BY <1>2, <1>10
  <2>4. CASE q = s
    <3>1. ~Found(d, q) /\ NS!Under(s, q)
      BY <1>2, <1>3, <1>5, <2>2, <2>4 DEF Found
    <3>2. QED
      BY <2>3, <3>1 DEF MovedRecord
  <2>5. CASE q # s
    <3>1. ~NS!Under(s, q)
      BY <1>2, <1>10, <2>5
    <3>2. Carries(c, d, q, q)
      BY <1>6, <1>10, <2>2, <2>5
    <3>3. QED
      BY <2>3, <3>1, <3>2 DEF MovedRecord
  <2>6. QED
    BY <2>4, <2>5
<1>11. QED
  BY <1>7, <1>8, <1>9, <1>10

(* What Found and the record say of the folder.                            *)
LEMMA CarriesFolder ==
  ASSUME NEW c, NEW d, NEW q \in Seq(Names), q # <<>>, NEW r \in Seq(Names), r # <<>>,
         Carries(c, d, q, r)
  PROVE  FolderAt(d, q) = FolderAt(c, r)
<1>1. FolderAt(c, r) = IF Found(c, r) /\ c[KeyAt(c, r)].kind = "folder"
                       THEN c[KeyAt(c, r)].id ELSE NoFolder
  BY FolderAtStep DEF Found
<1>2. FolderAt(d, q) = IF Found(d, q) /\ d[KeyAt(d, q)].kind = "folder"
                       THEN d[KeyAt(d, q)].id ELSE NoFolder
  BY FolderAtStep DEF Found
<1>3. QED
  BY <1>1, <1>2 DEF Carries

LEMMA MoveWalk ==
  ASSUME NEW c, NEW gone, NEW next, Tidy(c, gone, next),
         NEW d, NEW after, NEW then, Tidy(d, then, after),
         NEW s \in Seq(Names), s # <<>>, Found(c, s),
         NEW t \in Seq(Names), t # <<>>, FolderAt(c, Front(t)) # NoFolder,
         ~NS!Under(s, t), Swapped(c, d, KeyAt(c, s), KeyAt(c, t)),
         NEW q \in Seq(Names)
  PROVE  FolderAt(d, q) = MovedFolder(c, s, t, q)
<1> DEFINE S == {r \in Seq(Names) : FolderAt(d, r) = MovedFolder(c, s, t, r)}
<1>1. <<>> \in S
  BY FolderAtRoot, EmptySeq, UnderRoot DEF MovedFolder
<1>2. ASSUME NEW r \in Seq(Names), r # <<>>, Front(r) \in S PROVE r \in S
  <2>1. FolderAt(d, Front(r)) = MovedFolder(c, s, t, Front(r))
    BY <1>2
  <2>2. MovedRecord(c, d, s, t, r)
    BY <1>2, <2>1, MoveStep
  <2>3. CASE NS!Under(t, r)
    <3>1. PICK u \in Seq(Names) : u = NS!Rebase(r, t, s) /\ NS!Under(s, u)
      BY <2>3, RebaseUnder
    <3>2. u # <<>>
      BY <3>1, UnderRoot
    <3>3. Carries(c, d, r, u)
      BY <2>2, <2>3, <3>1 DEF MovedRecord
    <3>4. FolderAt(d, r) = FolderAt(c, u)
      BY <1>2, <3>2, <3>3, CarriesFolder
    <3>5. QED
      BY <2>3, <3>1, <3>4 DEF MovedFolder
  <2>4. CASE ~NS!Under(t, r) /\ NS!Under(s, r)
    <3>1. ~Found(d, r)
      BY <2>2, <2>4 DEF MovedRecord
    <3>2. FolderAt(d, r) = NoFolder
      BY <1>2, <3>1, FolderFound
    <3>3. QED
      BY <2>4, <3>2 DEF MovedFolder
  <2>5. CASE ~NS!Under(t, r) /\ ~NS!Under(s, r)
    <3>1. Carries(c, d, r, r)
      BY <2>2, <2>5 DEF MovedRecord
    <3>2. FolderAt(d, r) = FolderAt(c, r)
      BY <1>2, <3>1, CarriesFolder
    <3>3. QED
      BY <2>5, <3>2 DEF MovedFolder
  <2>6. QED
    BY <2>3, <2>4, <2>5
<1>3. \A r \in Seq(Names) : r \in S
  <2> HIDE DEF S
  <2>1. QED
    BY <1>1, <1>2, EveryPath
<1>4. QED
  BY <1>3

LEMMA MoveFound ==
  ASSUME NEW c, NEW gone, NEW next, Tidy(c, gone, next),
         NEW d, NEW after, NEW then, Tidy(d, then, after),
         NEW s \in Seq(Names), s # <<>>, Found(c, s),
         NEW t \in Seq(Names), t # <<>>, FolderAt(c, Front(t)) # NoFolder,
         ~NS!Under(s, t), Swapped(c, d, KeyAt(c, s), KeyAt(c, t)),
         NEW q \in Seq(Names), q # <<>>
  PROVE  MovedRecord(c, d, s, t, q)
<1>1. Front(q) \in Seq(Names)
  BY FrontParts
<1>2. FolderAt(d, Front(q)) = MovedFolder(c, s, t, Front(q))
  BY <1>1, MoveWalk
<1>3. QED
  BY <1>2, MoveStep

-----------------------------------------------------------------------------
(***************************************************************************)
(* The tree of names.                                                      *)
(***************************************************************************)

LEMMA PathsAre ==
  ASSUME NEW q
  PROVE  q \in Paths <=> q \in Seq(Names) /\ q # <<>> /\ Len(q) <= MaxDepth
<1>1. ASSUME q \in Paths PROVE q \in Seq(Names) /\ q # <<>> /\ Len(q) <= MaxDepth
  <2>1. PICK n \in 1 .. MaxDepth : q \in [1 .. n -> Names]
    BY <1>1 DEF Paths
  <2>2. q \in Seq(Names) /\ q # <<>>
    BY <1>1, PathSeq
  <2>3. PICK l \in Nat : l = Len(q) /\ DOMAIN q = 1 .. l
    BY <2>2, LenProperties
  <2>4. 1 .. l = 1 .. n
    BY <2>1, <2>3
  <2>5. l = n
    <3>1. n \in 1 .. l /\ n + 1 \notin 1 .. l
      BY <2>4
    <3>2. n \in Nat
      BY BoundsAssumption
    <3>3. n <= l /\ ~(n + 1 <= l)
      BY <3>1, <3>2
    <3>4. QED
      BY <3>2, <3>3
  <2>6. QED
    BY <2>2, <2>3, <2>5, BoundsAssumption
<1>2. ASSUME q \in Seq(Names), q # <<>>, Len(q) <= MaxDepth PROVE q \in Paths
  <2>1. PICK l \in Nat \ {0} : l = Len(q)
    BY <1>2, FrontParts
  <2>2. q \in [1 .. l -> Names]
    BY <1>2, <2>1, LenProperties
  <2>3. l \in 1 .. MaxDepth
    BY <1>2, <2>1, BoundsAssumption
  <2>4. QED
    BY <2>2, <2>3 DEF Paths
<1>3. QED
  BY <1>1, <1>2

LEMMA FrontPath ==
  ASSUME NEW q \in Paths
  PROVE  Front(q) \in {<<>>} \cup Paths
<1>1. q \in Seq(Names) /\ q # <<>> /\ Len(q) <= MaxDepth
  BY PathsAre
<1>2. PICK l \in Nat \ {0} : l = Len(q)
  BY <1>1, FrontParts
<1>3. Front(q) \in Seq(Names) /\ Len(Front(q)) = l - 1
  BY <1>1, <1>2, FrontParts
<1>4. l - 1 <= MaxDepth
  BY <1>1, <1>2, BoundsAssumption
<1>5. QED
  BY <1>3, <1>4, PathsAre

(* The paths of a catalog's records.                                       *)
Present(c) == {q \in Paths : Found(c, q)}

AttrsOf(as, id) == {k[2] : k \in {l \in as : l[1] = id}}
Leaf(r, as)     == [id |-> r.id, kind |-> r.kind, info |-> r.info, attrs |-> AttrsOf(as, r.id)]

LEMMA LeafSame ==
  ASSUME NEW r, NEW s, r.id = s.id, r.kind = s.kind, r.info = s.info,
         NEW as, NEW bs, \A l : l[1] = r.id => (l \in as <=> l \in bs)
  PROVE  Leaf(r, as) = Leaf(s, bs)
<1>1. {l \in as : l[1] = r.id} = {l \in bs : l[1] = s.id}
  OBVIOUS
<1>2. AttrsOf(as, r.id) = AttrsOf(bs, s.id)
  BY <1>1 DEF AttrsOf
<1>3. QED
  BY <1>2 DEF Leaf

LEMMA TreeIs ==
  ASSUME NEW c, NEW as
  PROVE  Tree(c, as) = [q \in Present(c) |-> Leaf(c[KeyAt(c, q)], as)]
<1>1. PICK folder : folder = [p \in {<<>>} \cup Paths |-> FolderAt(c, p)]
  OBVIOUS
<1>2. \A q \in Paths : folder[Front(q)] = FolderAt(c, Front(q))
  BY <1>1, FrontPath
<1>3. \A q \in Paths : <<folder[Front(q)], Last(q)>> = KeyAt(c, q)
  BY <1>2 DEF KeyAt
<1>4. PICK D : D = {q \in Paths : <<folder[Front(q)], Last(q)>> \in DOMAIN c}
  OBVIOUS
<1>5. D = Present(c)
  BY <1>3, <1>4 DEF Present, Found
<1>6. Tree(c, as) =
        [p \in D |-> [id |-> c[<<folder[Front(p)], Last(p)>>].id,
                      kind |-> c[<<folder[Front(p)], Last(p)>>].kind,
                      info |-> c[<<folder[Front(p)], Last(p)>>].info,
                      attrs |-> {k[2] : k \in
                        {l \in as : l[1] = c[<<folder[Front(p)], Last(p)>>].id}}]]
  BY <1>1, <1>4, Zenon DEF Tree
<1>7. ASSUME NEW p \in D
      PROVE  Leaf(c[KeyAt(c, p)], as) =
               [id |-> c[<<folder[Front(p)], Last(p)>>].id,
                kind |-> c[<<folder[Front(p)], Last(p)>>].kind,
                info |-> c[<<folder[Front(p)], Last(p)>>].info,
                attrs |-> {k[2] : k \in
                  {l \in as : l[1] = c[<<folder[Front(p)], Last(p)>>].id}}]
  <2>1. <<folder[Front(p)], Last(p)>> = KeyAt(c, p)
    BY <1>3, <1>4
  <2>2. QED
    BY <2>1, Zenon DEF Leaf, AttrsOf
<1>8. QED
  BY <1>5, <1>6, <1>7, Zenon

IsTree(f, c, as) ==
  DOMAIN f = Present(c) /\ \A q \in Present(c) : f[q] = Leaf(c[KeyAt(c, q)], as)

LEMMA TreeParts ==
  ASSUME NEW c, NEW as, NEW f, f = Tree(c, as)
  PROVE  IsTree(f, c, as)
  BY TreeIs DEF IsTree

(* Trees are equal if they are at every path.                              *)
LEMMA TreeEqual ==
  ASSUME NEW c, NEW as, NEW f, f = [q \in Present(c) |-> f[q]],
         \A q \in Present(c) : f[q] = Leaf(c[KeyAt(c, q)], as)
  PROVE  Tree(c, as) = f
<1>1. [q \in Present(c) |-> f[q]] = [q \in Present(c) |-> Leaf(c[KeyAt(c, q)], as)]
  OBVIOUS
<1>2. QED
  BY <1>1, TreeIs

(* No path is longer than MaxDepth.                                        *)
Shallow(c) == \A q \in Seq(Names) : q # <<>> /\ Found(c, q) => Len(q) <= MaxDepth

LEMMA ShallowPresent ==
  ASSUME NEW c, Shallow(c), NEW q \in Seq(Names), q # <<>>
  PROVE  q \in Present(c) <=> Found(c, q)
  BY PathsAre DEF Shallow, Present

LEMMA PresentPath ==
  ASSUME NEW c, NEW q \in Present(c)
  PROVE  q \in Paths /\ q \in Seq(Names) /\ q # <<>> /\ Found(c, q)
  BY PathsAre DEF Present

LEMMA ParentFolder ==
  ASSUME NEW c, NEW as, NEW p \in Paths, FolderAt(c, Front(p)) # NoFolder
  PROVE  NS!IsFolder(Tree(c, as), NS!Parent(p))
<1>1. PICK f : f = Front(p) /\ f = NS!Parent(p) /\ f \in {<<>>} \cup Paths
  BY ParentIs, FrontPath
<1>2. CASE f = <<>>
  BY <1>1, <1>2 DEF NS!IsFolder
<1>3. CASE f # <<>>
  <2>1. f \in Paths /\ f \in Seq(Names)
    BY <1>1, <1>3, PathsAre
  <2>2. Found(c, f) /\ c[KeyAt(c, f)].kind = "folder"
    BY <1>1, <1>3, <2>1, FolderFound
  <2>3. f \in Present(c)
    BY <2>1, <2>2 DEF Present
  <2>4. PICK es : es = Tree(c, as)
    OBVIOUS
  <2>5. IsTree(es, c, as)
    BY <2>4, TreeParts
  <2>6. f \in DOMAIN es /\ es[f] = Leaf(c[KeyAt(c, f)], as)
    BY <2>3, <2>5 DEF IsTree
  <2>7. es[f].kind = "folder"
    BY <2>2, <2>6 DEF Leaf
  <2>8. QED
    BY <1>1, <2>4, <2>6, <2>7 DEF NS!IsFolder
<1>4. QED
  BY <1>2, <1>3

-----------------------------------------------------------------------------
(* Records that are written again.                                         *)

LEMMA PresentMatch ==
  ASSUME NEW c, NEW d, Matches(c, d)
  PROVE  /\ Present(d) = Present(c) /\ \A q \in Present(c) : KeyAt(d, q) = KeyAt(c, q)
         /\ Shallow(c) => Shallow(d)
<1>1. \A q \in Seq(Names) : q # <<>> =>
        KeyAt(d, q) = KeyAt(c, q) /\ (Found(d, q) <=> Found(c, q))
  BY MatchKeys
<1>2. QED
  BY <1>1, PathsAre DEF Present, Shallow

Same(c, d) == Matches(c, d) /\ \A k \in RecordKeys(c) : d[k].info = c[k].info

LEMMA TreeSame ==
  ASSUME NEW c, NEW gone, NEW next, Tidy(c, gone, next), NEW d, Same(c, d), NEW as
  PROVE  Tree(d, as) = Tree(c, as) /\ (Shallow(c) => Shallow(d))
<1>1. /\ Present(d) = Present(c) /\ (Shallow(c) => Shallow(d))
      /\ \A q \in Present(c) : KeyAt(d, q) = KeyAt(c, q)
  BY PresentMatch DEF Same
<1>2. ASSUME NEW q \in Present(d) PROVE Tree(c, as)[q] = Leaf(d[KeyAt(d, q)], as)
  <2>1. PICK k : k = KeyAt(c, q) /\ k = KeyAt(d, q)
    BY <1>1, <1>2
  <2>2. k \in RecordKeys(c)
    BY <1>1, <1>2, <2>1, PresentPath, FoundKey
  <2>3. PICK r, s : r = c[k] /\ s = d[k]
    OBVIOUS
  <2>4. r.id = s.id /\ r.kind = s.kind /\ r.info = s.info
    BY <2>2, <2>3 DEF Same, Matches
  <2>5. Leaf(r, as) = Leaf(s, as)
    BY <2>4 DEF Leaf
  <2>6. IsTree(Tree(c, as), c, as)
    BY TreeParts
  <2>7. Tree(c, as)[q] = Leaf(r, as)
    BY <1>1, <1>2, <2>1, <2>3, <2>6 DEF IsTree
  <2>8. QED
    BY <2>1, <2>3, <2>5, <2>7
<1>3. PICK f : f = Tree(c, as)
  OBVIOUS
<1>4. f = [q \in Present(d) |-> f[q]]
  BY <1>1, <1>3, TreeIs
<1>5. Tree(d, as) = f
  BY <1>2, <1>3, <1>4, TreeEqual
<1>6. QED
  BY <1>1, <1>3, <1>5

(* Attributes of one entry come and go.                                    *)
OthersKeep(as, bs, id) == \A l : l[1] # id => (l \in as <=> l \in bs)

LEMMA TreeChanged ==
  ASSUME NEW c, NEW gone, NEW next, Tidy(c, gone, next), NEW d, Matches(c, d),
         NEW p \in Paths, Found(c, p),
         \A k \in RecordKeys(c) : k # KeyAt(c, p) => d[k].info = c[k].info,
         NEW as, NEW bs, OthersKeep(as, bs, c[KeyAt(c, p)].id)
  PROVE  NS!Changed(Tree(c, as), Tree(d, bs))
<1>1. /\ Present(d) = Present(c)
      /\ \A q \in Present(c) : KeyAt(d, q) = KeyAt(c, q)
  BY PresentMatch
<1>2. PICK es, fs : es = Tree(c, as) /\ fs = Tree(d, bs)
  OBVIOUS
<1>3. /\ DOMAIN es = Present(c) /\ DOMAIN fs = Present(c)
      /\ \A q \in Present(c) : es[q] = Leaf(c[KeyAt(c, q)], as)
      /\ \A q \in Present(c) : fs[q] = Leaf(d[KeyAt(c, q)], bs)
  <2>1. IsTree(es, c, as) /\ IsTree(fs, d, bs)
    BY <1>2, TreeParts
  <2>2. QED
    BY <1>1, <2>1 DEF IsTree
<1>4. p \in Present(c)
  BY DEF Present
<1>5. ASSUME NEW q \in Present(c)
      PROVE  fs[q].id = es[q].id /\ fs[q].kind = es[q].kind /\ (q # p => fs[q] = es[q])
  <2>1. PICK k \in RecordKeys(c) : k = KeyAt(c, q)
    BY PresentPath, FoundKey
  <2>2. d[k].id = c[k].id /\ d[k].kind = c[k].kind
    BY DEF Matches
  <2>3. ASSUME q # p PROVE Leaf(c[k], as) = Leaf(d[k], bs)
    <3>1. PICK l \in RecordKeys(c) : l = KeyAt(c, p) /\ FolderAt(c, Front(p)) # NoFolder
      BY <1>4, PresentPath, FoundKey
    <3>2. k # l
      <4>1. SUFFICES ASSUME k = l PROVE FALSE
        OBVIOUS
      <4>2. q \in Seq(Names) /\ q # <<>> /\ p \in Seq(Names) /\ p # <<>>
        BY <1>4, <1>5, PresentPath
      <4>3. p = q
        BY <2>1, <3>1, <4>1, <4>2, KeyOne
      <4>4. QED
        BY <2>3, <4>3
    <3>3. c[k].id # c[l].id
      BY <3>2, TidyOne
    <3>4. d[k].info = c[k].info
      BY <3>1, <3>2
    <3>5. \A x : x[1] = c[k].id => (x \in as <=> x \in bs)
      BY <3>1, <3>3 DEF OthersKeep
    <3>6. PICK r, s : r = c[k] /\ s = d[k]
      OBVIOUS
    <3>7. r.id = s.id /\ r.kind = s.kind /\ r.info = s.info
      BY <2>2, <3>4, <3>6
    <3>8. \A x : x[1] = r.id => (x \in as <=> x \in bs)
      BY <3>5, <3>6
    <3>9. Leaf(r, as) = Leaf(s, bs)
      <4>1. {x \in as : x[1] = r.id} = {x \in bs : x[1] = s.id}
        BY <3>7, <3>8
      <4>2. AttrsOf(as, r.id) = AttrsOf(bs, s.id)
        BY <4>1 DEF AttrsOf
      <4>3. QED
        BY <3>7, <4>2 DEF Leaf
    <3>10. QED
      BY <3>6, <3>9
  <2>4. es[q] = Leaf(c[k], as) /\ fs[q] = Leaf(d[k], bs)
    BY <1>3, <2>1
  <2>5. es[q].id = c[k].id /\ es[q].kind = c[k].kind /\ fs[q].id = d[k].id
        /\ fs[q].kind = d[k].kind
    BY <2>4 DEF Leaf
  <2>6. QED
    BY <2>2, <2>3, <2>4, <2>5
<1>6. NS!Changed(es, fs)
  BY <1>3, <1>4, <1>5 DEF NS!Changed
<1>7. QED
  BY <1>2, <1>6

-----------------------------------------------------------------------------
(* An entry that is new.                                                   *)

LEMMA TreeCreated ==
  ASSUME NEW c, NEW gone, NEW next, Tidy(c, gone, next),
         NEW d, NEW after, NEW then, Tidy(d, then, after),
         NEW p \in Paths, FolderAt(c, Front(p)) # NoFolder,
         NEW rec, Come(c, d, KeyAt(c, p), rec),
         \A l \in RecordKeys(d) : l[1] # rec.id,
         \A k \in RecordKeys(c) : c[k].id # rec.id, NEW as
  PROVE  NS!Created(Tree(c, as), Tree(d, as)) /\ (Shallow(c) => Shallow(d))
<1>1. p \in Seq(Names) /\ p # <<>> /\ Len(p) <= MaxDepth
  BY PathsAre
<1>2. ASSUME NEW q \in Seq(Names), q # <<>>
      PROVE  /\ Found(d, q) <=> Found(c, q) \/ q = p
             /\ Found(c, q) =>
                  KeyAt(d, q) = KeyAt(c, q) /\ d[KeyAt(d, q)] = c[KeyAt(c, q)]
             /\ ~Found(c, p) /\ d[KeyAt(d, p)] = rec
  BY <1>1, <1>2, ComeFound
<1>3. ~Found(c, p) /\ d[KeyAt(d, p)] = rec
  BY <1>1, <1>2
<1>4. Present(d) = Present(c) \cup {p} /\ p \notin Present(c)
  BY <1>2, <1>3, PathsAre DEF Present
<1>5. Shallow(c) => Shallow(d)
  BY <1>1, <1>2 DEF Shallow
<1>6. PICK es, fs : es = Tree(c, as) /\ fs = Tree(d, as)
  OBVIOUS
<1>7. /\ DOMAIN es = Present(c) /\ DOMAIN fs = Present(d)
      /\ \A q \in Present(c) : es[q] = Leaf(c[KeyAt(c, q)], as)
      /\ \A q \in Present(d) : fs[q] = Leaf(d[KeyAt(d, q)], as)
  <2>1. IsTree(es, c, as) /\ IsTree(fs, d, as)
    BY <1>6, TreeParts
  <2>2. QED
    BY <2>1 DEF IsTree
<1>8. ASSUME NEW q \in Present(c) PROVE es[q].id # fs[p].id /\ fs[q] = es[q]
  <2>1. q \in Seq(Names) /\ q # <<>> /\ Found(c, q)
    BY PresentPath
  <2>2. KeyAt(c, q) \in RecordKeys(c)
    BY <2>1, FoundKey
  <2>3. d[KeyAt(d, q)] = c[KeyAt(c, q)]
    BY <1>2, <2>1
  <2>4. fs[q] = es[q] /\ es[q].id = c[KeyAt(c, q)].id
    <3>1. es[q] = Leaf(c[KeyAt(c, q)], as) /\ fs[q] = es[q]
      BY <1>4, <1>7, <2>3
    <3>2. QED
      BY <3>1 DEF Leaf
  <2>5. fs[p].id = rec.id
    <3>1. fs[p] = Leaf(rec, as)
      BY <1>3, <1>4, <1>7
    <3>2. QED
      BY <3>1 DEF Leaf
  <2>6. QED
    BY <2>2, <2>4, <2>5
<1>9. NS!IsFolder(es, NS!Parent(p))
  BY <1>6, ParentFolder
<1>10. NS!Created(es, fs)
  <2>1. p \in DOMAIN fs \ DOMAIN es /\ DOMAIN fs = DOMAIN es \cup {p}
    BY <1>4, <1>7
  <2>2. \A q \in DOMAIN es : es[q].id # fs[p].id /\ fs[q] = es[q]
    BY <1>7, <1>8
  <2>3. QED
    BY <1>9, <2>1, <2>2 DEF NS!Created
<1>11. QED
  BY <1>5, <1>6, <1>10

-----------------------------------------------------------------------------
(* An entry that goes, with all that is under it.                          *)

Pruned(es, p) == [q \in DOMAIN es \ NS!Below(es, p) |-> es[q]]

LEMMA TreePruned ==
  ASSUME NEW c, NEW gone, NEW next, Tidy(c, gone, next),
         NEW d, NEW after, NEW then, Tidy(d, then, after),
         NEW p \in Paths, Found(c, p), Gone(c, d, KeyAt(c, p)),
         NEW as, NEW bs, OthersKeep(as, bs, c[KeyAt(c, p)].id)
  PROVE  Tree(d, bs) = Pruned(Tree(c, as), p) /\ (Shallow(c) => Shallow(d))
<1>1. p \in Seq(Names) /\ p # <<>>
  BY PathsAre
<1>2. ASSUME NEW q \in Seq(Names), q # <<>>
      PROVE  /\ Found(d, q) <=> Found(c, q) /\ ~NS!Under(p, q)
             /\ Found(d, q) => KeyAt(d, q) = KeyAt(c, q) /\ d[KeyAt(d, q)] = c[KeyAt(c, q)]
  BY <1>1, <1>2, GoneFound
<1>3. Shallow(c) => Shallow(d)
  BY <1>2 DEF Shallow
<1>4. Present(d) = {q \in Present(c) : ~NS!Under(p, q)}
  BY <1>2, PathsAre DEF Present
<1>5. PICK es : es = Tree(c, as)
  OBVIOUS
<1>6. DOMAIN es = Present(c) /\ \A q \in Present(c) : es[q] = Leaf(c[KeyAt(c, q)], as)
  BY <1>5, TreeParts DEF IsTree
<1>7. DOMAIN es \ NS!Below(es, p) = Present(d)
  BY <1>4, <1>6 DEF NS!Below
<1>8. PICK f : f = Pruned(es, p)
  OBVIOUS
<1>9. f = [q \in Present(d) |-> es[q]]
  BY <1>7, <1>8 DEF Pruned
<1>10. ASSUME NEW q \in Present(d) PROVE f[q] = Leaf(d[KeyAt(d, q)], bs)
  <2>1. q \in Present(c) /\ ~NS!Under(p, q)
    BY <1>4
  <2>2. q \in Seq(Names) /\ q # <<>> /\ Found(d, q)
    BY PresentPath
  <2>3. PICK k \in RecordKeys(c) : k = KeyAt(c, q)
    BY <2>1, PresentPath, FoundKey
  <2>4. d[KeyAt(d, q)] = c[k]
    BY <1>2, <2>2, <2>3
  <2>5. PICK l \in RecordKeys(c) : l = KeyAt(c, p) /\ FolderAt(c, Front(p)) # NoFolder
    BY <1>1, FoundKey
  <2>6. k # l
    <3>1. SUFFICES ASSUME k = l PROVE FALSE
      OBVIOUS
    <3>2. p = q
      BY <1>1, <2>2, <2>3, <2>5, <3>1, KeyOne
    <3>3. QED
      BY <1>1, <2>1, <3>2, UnderSelf
  <2>7. c[k].id # c[l].id
    BY <2>6, TidyOne
  <2>8. \A x : x[1] = c[k].id => (x \in as <=> x \in bs)
    BY <2>5, <2>7 DEF OthersKeep
  <2>9. Leaf(c[k], as) = Leaf(c[k], bs)
    BY <2>8, LeafSame
  <2>10. QED
    BY <1>6, <1>9, <2>1, <2>3, <2>4, <2>9
<1>11. f = [q \in Present(d) |-> f[q]]
  BY <1>9
<1>12. Tree(d, bs) = f
  BY <1>10, <1>11, TreeEqual
<1>13. QED
  BY <1>3, <1>5, <1>8, <1>12

LEMMA TreeVanished ==
  ASSUME NEW c, NEW as, NEW p \in Paths, Found(c, p),
         NEW fs, fs = Pruned(Tree(c, as), p), NEW ids, ids = {c[KeyAt(c, p)].id}
  PROVE  NS!Vanished(Tree(c, as), fs, ids)
<1>1. p \in Present(c)
  BY DEF Present
<1>2. PICK es : es = Tree(c, as)
  OBVIOUS
<1>3. p \in DOMAIN es /\ es[p].id = c[KeyAt(c, p)].id
  <2>1. p \in DOMAIN es /\ es[p] = Leaf(c[KeyAt(c, p)], as)
    BY <1>1, <1>2, TreeParts DEF IsTree
  <2>2. QED
    BY <2>1 DEF Leaf
<1>4. QED
  BY <1>2, <1>3 DEF NS!Vanished, Pruned

(* Nothing is under what has no entries.                                   *)
LEMMA EmptyBelow ==
  ASSUME NEW c, NEW gone, NEW next, Tidy(c, gone, next),
         NEW p \in Seq(Names), p # <<>>,
         c[KeyAt(c, p)].kind = "folder" =>
           \A l \in RecordKeys(c) : l[1] # c[KeyAt(c, p)].id,
         NEW q \in Seq(Names), Found(c, q), NS!Under(p, q)
  PROVE  q = p
<1> DEFINE S == {r \in Seq(Names) : NS!Under(p, r) /\ Found(c, r) => r = p}
<1>1. <<>> \in S
  BY EmptySeq, UnderRoot
<1>2. ASSUME NEW r \in Seq(Names), r # <<>>, Front(r) \in S PROVE r \in S
  <2>1. SUFFICES ASSUME NS!Under(p, r), Found(c, r), r # p PROVE FALSE
    OBVIOUS
  <2>2. NS!Under(p, Front(r)) /\ Front(r) \in Seq(Names)
    BY <1>2, <2>1, UnderFront
  <2>3. /\ KeyAt(c, r) \in RecordKeys(c) /\ KeyAt(c, r)[1] = FolderAt(c, Front(r))
        /\ FolderAt(c, Front(r)) # NoFolder
    BY <1>2, <2>1, FoundKey, KeyAtParts
  <2>4. Front(r) # <<>>
    BY <2>2, UnderRoot
  <2>5. Found(c, Front(r))
    BY <2>2, <2>3, <2>4, FolderFound
  <2>6. Front(r) = p
    BY <1>2, <2>2, <2>5
  <2>7. c[KeyAt(c, p)].kind = "folder" /\ c[KeyAt(c, p)].id = FolderAt(c, p)
    BY <2>3, <2>6, FolderFound
  <2>8. QED
    BY <2>3, <2>6, <2>7
<1>3. \A r \in Seq(Names) : r \in S
  <2> HIDE DEF S
  <2>1. QED
    BY <1>1, <1>2, EveryPath
<1>4. QED
  BY <1>3

LEMMA TreeDeleted ==
  ASSUME NEW c, NEW gone, NEW next, Tidy(c, gone, next),
         NEW p \in Paths, Found(c, p),
         c[KeyAt(c, p)].kind = "folder" =>
           \A l \in RecordKeys(c) : l[1] # c[KeyAt(c, p)].id,
         NEW as, NEW fs, fs = Pruned(Tree(c, as), p)
  PROVE  NS!Deleted(Tree(c, as), fs)
<1>1. p \in Present(c) /\ p \in Seq(Names) /\ p # <<>>
  BY PathsAre DEF Present
<1>2. PICK es : es = Tree(c, as) /\ DOMAIN es = Present(c)
  BY TreeParts DEF IsTree
<1>3. NS!Below(es, p) = {p}
  <2>1. ASSUME NEW q \in Present(c), NS!Under(p, q) PROVE q = p
    BY <1>1, <2>1, PresentPath, EmptyBelow
  <2>2. NS!Under(p, p)
    BY <1>1, UnderSelf
  <2>3. QED
    BY <1>1, <1>2, <2>1, <2>2 DEF NS!Below
<1>4. fs = [q \in DOMAIN es \ {p} |-> es[q]]
  BY <1>2, <1>3 DEF Pruned
<1>5. p \in DOMAIN es
  BY <1>1, <1>2
<1>6. NS!Deleted(es, fs)
  BY ONLY <1>3, <1>4, <1>5 DEF NS!Deleted
<1>7. QED
  BY <1>2, <1>6

-----------------------------------------------------------------------------
(* An entry that gets another name, or another folder.                     *)

(* There is room for all that goes along.                                  *)
Fits(c, s, t) ==
  \A p \in Paths : NS!Under(s, p) /\ Found(c, p) => Len(p) - Len(s) + Len(t) <= MaxDepth

LEMMA MovedDepth ==
  ASSUME NEW c, Shallow(c), NEW s \in Seq(Names), s # <<>>, NEW t \in Seq(Names), t # <<>>,
         Fits(c, s, t), NEW q \in Seq(Names), NS!Under(t, q), Found(c, NS!Rebase(q, t, s))
  PROVE  q # <<>> /\ Len(q) <= MaxDepth /\ NS!Rebase(q, t, s) \in Present(c)
<1>1. PICK l, m, n \in Nat : l = Len(q) /\ m = Len(s) /\ n = Len(t)
  BY LenProperties
<1>2. PICK r \in Seq(Names) : /\ r = NS!Rebase(q, t, s) /\ NS!Under(s, r)
                              /\ Len(r) = l - n + m
  BY <1>1, RebaseUnder
<1>3. r # <<>>
  BY <1>2, UnderRoot
<1>4. r \in Present(c)
  BY <1>2, <1>3, ShallowPresent
<1>5. (l - n + m) - m + n <= MaxDepth
  BY <1>1, <1>2, <1>4, PresentPath DEF Fits
<1>6. (l - n + m) - m + n = l
  OBVIOUS
<1>7. q # <<>>
  BY UnderRoot
<1>8. QED
  BY <1>1, <1>2, <1>4, <1>5, <1>6, <1>7

Carried(es, p, q) ==
  [r \in (DOMAIN es \ NS!Below(es, p)) \cup {NS!Rebase(s, p, q) : s \in NS!Below(es, p)} |->
     es[IF NS!Under(q, r) THEN NS!Rebase(r, q, p) ELSE r]]

LEMMA TreeCarried ==
  ASSUME NEW c, NEW gone, NEW next, Tidy(c, gone, next), Shallow(c),
         NEW d, NEW after, NEW then, Tidy(d, then, after),
         NEW s \in Paths, Found(c, s),
         NEW t \in Paths, FolderAt(c, Front(t)) # NoFolder, ~Found(c, t),
         ~NS!Under(s, t), Swapped(c, d, KeyAt(c, s), KeyAt(c, t)),
         Fits(c, s, t), NEW as
  PROVE  Tree(d, as) = Carried(Tree(c, as), s, t) /\ t \in Present(d) /\ Shallow(d)
<1>1. s \in Seq(Names) /\ s # <<>> /\ t \in Seq(Names) /\ t # <<>> /\ Len(t) <= MaxDepth
  BY PathsAre
<1>2. ASSUME NEW q \in Seq(Names), q # <<>>
      PROVE  MovedRecord(c, d, s, t, q)
  BY <1>1, <1>2, MoveFound
<1>3. ASSUME NEW q \in Seq(Names), q # <<>>, Found(c, q) PROVE ~NS!Under(t, q)
  BY <1>1, <1>3, FoundUp
<1>4. Shallow(d)
  <2>1. SUFFICES ASSUME NEW q \in Seq(Names), q # <<>>, Found(d, q) PROVE Len(q) <= MaxDepth
    BY DEF Shallow
  <2>2. MovedRecord(c, d, s, t, q)
    BY <1>2, <2>1
  <2>3. CASE NS!Under(t, q)
    <3>1. Found(c, NS!Rebase(q, t, s))
      BY <2>1, <2>2, <2>3 DEF MovedRecord, Carries
    <3>2. QED
      BY <1>1, <2>3, <3>1, MovedDepth
  <2>4. CASE ~NS!Under(t, q)
    <3>1. Found(c, q)
      BY <2>1, <2>2, <2>4 DEF MovedRecord, Carries
    <3>2. QED
      BY <2>1, <3>1 DEF Shallow
  <2>5. QED
    BY <2>3, <2>4
<1>5. PICK es : es = Tree(c, as)
  OBVIOUS
<1>6. DOMAIN es = Present(c) /\ \A q \in Present(c) : es[q] = Leaf(c[KeyAt(c, q)], as)
  BY <1>5, TreeParts DEF IsTree
<1>7. PICK B : B = NS!Below(es, s) /\ B = {q \in Present(c) : NS!Under(s, q)}
  BY <1>6 DEF NS!Below
<1>8. PICK X : X = (Present(c) \ B) \cup {NS!Rebase(q, s, t) : q \in B}
  OBVIOUS
<1>9. ASSUME NEW q \in X PROVE q \in Present(d)
  <2>1. CASE q \in Present(c) \ B
    <3>1. q \in Seq(Names) /\ q # <<>> /\ Found(c, q)
      BY <2>1, PresentPath
    <3>2. ~NS!Under(t, q) /\ ~NS!Under(s, q)
      BY <1>3, <1>7, <2>1, <3>1
    <3>3. Found(d, q)
      BY <1>2, <3>1, <3>2 DEF MovedRecord, Carries
    <3>4. QED
      BY <1>4, <3>1, <3>3, ShallowPresent
  <2>2. CASE q \notin Present(c) \ B
    <3>1. PICK r \in B : q = NS!Rebase(r, s, t)
      BY <1>8, <2>2
    <3>2. r \in Seq(Names) /\ Found(c, r) /\ NS!Under(s, r)
      BY <1>7, <3>1, PresentPath
    <3>3. q \in Seq(Names) /\ NS!Under(t, q) /\ NS!Rebase(q, t, s) = r
      BY <1>1, <3>1, <3>2, RebaseUnder, RebaseBack
    <3>4. q # <<>>
      BY <1>1, <3>3, UnderRoot
    <3>5. Found(d, q)
      BY <1>2, <3>2, <3>3, <3>4 DEF MovedRecord, Carries
    <3>6. QED
      BY <1>4, <3>3, <3>4, <3>5, ShallowPresent
  <2>3. QED
    BY <2>1, <2>2
<1>10. ASSUME NEW q \in Present(d)
       PROVE  /\ q \in X
              /\ es[IF NS!Under(t, q) THEN NS!Rebase(q, t, s) ELSE q] = Leaf(d[KeyAt(d, q)], as)
  <2>1. q \in Seq(Names) /\ q # <<>> /\ Found(d, q)
    BY PresentPath
  <2>2. MovedRecord(c, d, s, t, q)
    BY <1>2, <2>1
  <2>3. CASE NS!Under(t, q)
    <3>1. PICK r \in Seq(Names) : r = NS!Rebase(q, t, s) /\ NS!Under(s, r)
      BY <1>1, <2>1, <2>3, RebaseUnder
    <3>2. Found(c, r) /\ d[KeyAt(d, q)] = c[KeyAt(c, r)]
      BY <2>1, <2>2, <2>3, <3>1 DEF MovedRecord, Carries
    <3>3. r \in Present(c)
      BY <1>1, <2>1, <2>3, <3>1, <3>2, MovedDepth
    <3>4. r \in B /\ es[r] = Leaf(c[KeyAt(c, r)], as)
      BY <1>6, <1>7, <3>1, <3>3
    <3>5. q = NS!Rebase(r, s, t)
      BY <1>1, <2>1, <2>3, <3>1, RebaseBack
    <3>6. q \in X
      BY <1>8, <3>4, <3>5
    <3>7. QED
      BY <2>3, <3>1, <3>2, <3>4, <3>6
  <2>4. CASE ~NS!Under(t, q)
    <3>1. ~NS!Under(s, q)
      BY <2>1, <2>2, <2>4 DEF MovedRecord
    <3>2. Found(c, q) /\ d[KeyAt(d, q)] = c[KeyAt(c, q)]
      BY <2>1, <2>2, <2>4, <3>1 DEF MovedRecord, Carries
    <3>3. q \in Present(c)
      BY <2>1, <3>2, ShallowPresent
    <3>4. q \in X
      BY <1>7, <1>8, <3>1, <3>3
    <3>5. QED
      BY <1>6, <2>4, <3>2, <3>3, <3>4
  <2>5. QED
    BY <2>3, <2>4
<1>11. Present(d) = X
  BY <1>9, <1>10
<1>12. PICK f : f = Carried(es, s, t)
  OBVIOUS
<1>13. f = [q \in X |-> es[IF NS!Under(t, q) THEN NS!Rebase(q, t, s) ELSE q]]
  BY <1>6, <1>7, <1>8, <1>12 DEF Carried
<1>14. \A q \in Present(d) : f[q] = Leaf(d[KeyAt(d, q)], as)
  BY <1>10, <1>11, <1>13
<1>15. f = [q \in Present(d) |-> f[q]]
  BY <1>11, <1>13
<1>16. Tree(d, as) = f
  BY <1>14, <1>15, TreeEqual
<1>17. t \in Present(d)
  <2>1. MovedRecord(c, d, s, t, t)
    BY <1>1, <1>2
  <2>2. NS!Under(t, t) /\ NS!Rebase(t, t, s) = s
    BY <1>1, UnderSelf, RebaseSelf
  <2>3. Found(d, t)
    BY <2>1, <2>2 DEF MovedRecord, Carries
  <2>4. QED
    BY <2>3 DEF Present
<1>18. QED
  BY <1>4, <1>5, <1>12, <1>16, <1>17

LEMMA TreeRenamed ==
  ASSUME NEW c, NEW s \in Paths, Found(c, s),
         NEW t \in Paths, FolderAt(c, Front(t)) # NoFolder, ~Found(c, t),
         ~NS!Under(s, t), NEW as, NEW d, t \in Present(d),
         Tree(d, as) = Carried(Tree(c, as), s, t)
  PROVE  NS!Renamed(Tree(c, as), Tree(d, as))
<1>1. PICK es, fs : es = Tree(c, as) /\ fs = Tree(d, as)
  OBVIOUS
<1>2. s \in DOMAIN es /\ t \in DOMAIN fs \ DOMAIN es
  BY <1>1, TreeParts DEF Present, IsTree
<1>3. NS!IsFolder(es, NS!Parent(t))
  BY <1>1, ParentFolder
<1>4. fs = Carried(es, s, t)
  BY <1>1
<1>5. NS!Renamed(es, fs)
  BY <1>2, <1>3, <1>4 DEF NS!Renamed, Carried
<1>6. QED
  BY <1>1, <1>5

-----------------------------------------------------------------------------
(***************************************************************************)
(* What a step does to the tree of names that is to come.                  *)
(***************************************************************************)

LEMMA ViewIs == View = Tree(Ahead.cat, Ahead.attrs)
<1>1. PICK t : t = Tree(Ahead.cat, Ahead.attrs)
  OBVIOUS
<1>2. {Tree(s.cat, s.attrs) : s \in {Ahead}} = {t}
  BY <1>1
<1>3. (CHOOSE x \in {t} : x = x) = t
  OBVIOUS
<1>4. QED
  BY <1>1, <1>2, <1>3 DEF View

LEMMA ViewNext == View' = Tree(Ahead'.cat, Ahead'.attrs)
<1>1. PICK t : t = Tree(Ahead'.cat, Ahead'.attrs)
  OBVIOUS
<1>2. {Tree(s.cat, s.attrs) : s \in {Ahead'}} = {t}
  BY <1>1
<1>3. (CHOOSE x \in {t} : x = x) = t
  OBVIOUS
<1>4. View' = CHOOSE x \in {Tree(s.cat, s.attrs) : s \in {Ahead'}} : x = x
  BY DEF View
<1>5. QED
  BY <1>1, <1>2, <1>3, <1>4

(* What is promised of one step from the tree es and the lost IDs ls to fs *)
(* and ms.                                                                 *)
Did(es, fs, ls, ms) ==
  \/ fs = es /\ ms = ls
  \/ /\ NS!Created(es, fs) \/ NS!Deleted(es, fs) \/ NS!Renamed(es, fs) \/ NS!Changed(es, fs)
     /\ ms = ls
  \/ /\ NS!Vanished(es, fs, ms \ ls) \/ NS!NeverThere(es, fs, ms \ ls)
     /\ ls \subseteq ms

LEMMA DidStep ==
  ASSUME Running, status' = status, Did(View, View', LostIds, LostIds')
  PROVE  [NS!Operate \/ NS!Stop]_(NS!nameVars)
<1>1. CASE View' = View /\ LostIds' = LostIds
  BY <1>1 DEF NS!nameVars, Running
<1>2. CASE /\ \/ NS!Created(View, View') \/ NS!Deleted(View, View')
              \/ NS!Renamed(View, View') \/ NS!Changed(View, View')
           /\ LostIds' = LostIds
  BY <1>2 DEF NS!Operate, Running
<1>3. CASE /\ \/ NS!Vanished(View, View', LostIds' \ LostIds)
              \/ NS!NeverThere(View, View', LostIds' \ LostIds)
           /\ LostIds \subseteq LostIds'
  BY <1>3 DEF NS!Operate, Running
<1>4. QED
  BY <1>1, <1>2, <1>3 DEF Did

(* The program gives up, and leaves all as it would become.                *)
LEMMA StopStep ==
  ASSUME Running, ~Running', View' = View, LostIds' = LostIds
  PROVE  [NS!Operate \/ NS!Stop]_(NS!nameVars)
  BY DEF NS!Stop

LEMMA StutterStep ==
  ASSUME Running' <=> Running, View' = View, LostIds' = LostIds
  PROVE  [NS!Operate \/ NS!Stop]_(NS!nameVars)
  BY DEF NS!nameVars

(* Between two operations nothing is to come.                              *)
LEMMA IdleView ==
  ASSUME IInv, Idle
  PROVE  Ahead = State(cat, attrs) /\ Ahead.cat = cat /\ View = Tree(cat, attrs)
<1>1. todo = <<>>
  BY DEF Idle
<1>2. Ahead = State(cat, attrs)
  BY <1>1, AheadIs, AfterNone
<1>3. Ahead.cat = cat /\ Ahead.attrs = attrs
  BY <1>2, StateParts
<1>4. QED
  BY <1>2, <1>3, ViewIs

(* A step of the tree of names, which stays as deep as it may be.          *)
NamesStep == [NS!Operate \/ NS!Stop]_(NS!nameVars) /\ Shallow(Ahead'.cat)

(* What the writes of an operation will leave.                             *)
LEMMA Promised ==
  ASSUME IInv, Idle, Shallow(Ahead.cat), status' = status,
         NEW f, NEW bs, After(State(cat', attrs'), todo') = State(f, bs),
         Shallow(cat) => Shallow(f),
         NEW ms, ms = LostIds', Did(Tree(cat, attrs), Tree(f, bs), LostIds, ms)
  PROVE  NamesStep
<1>1. Running /\ Ahead.cat = cat /\ View = Tree(cat, attrs)
  BY IdleView DEF Idle
<1>2. Ahead' = State(f, bs)
  BY AheadNext
<1>3. Ahead'.cat = f /\ Ahead'.attrs = bs
  BY <1>2, StateParts
<1>4. View' = Tree(f, bs)
  BY <1>3, ViewNext
<1>5. Did(View, View', LostIds, LostIds')
  BY <1>1, <1>4
<1>6. QED
  BY <1>1, <1>3, <1>5, DidStep DEF NamesStep

(* An operation that stops the program instead.                            *)
LEMMA Refused ==
  ASSUME IInv, Running, Shallow(Ahead.cat), status' \in {"exited", "panic"},
         UNCHANGED <<cat, attrs, todo, lost>>
  PROVE  NamesStep
<1>1. Ahead' = Ahead
  BY AheadIs, AheadNext
<1>2. View' = View
  BY <1>1, ViewIs, ViewNext
<1>3. LostIds' = LostIds
  BY LostNone
<1>4. ~Running'
  BY DEF Running
<1>5. QED
  BY <1>1, <1>2, <1>3, <1>4, StopStep DEF NamesStep

-----------------------------------------------------------------------------
(* Records that are written again, as a path tells.                        *)

LEMMA RedoneMatches ==
  ASSUME NEW c, NEW d, NEW k \in RecordKeys(c), NEW rec, Redone(c, d, k, rec),
         rec.id = c[k].id, rec.kind = c[k].kind
  PROVE  /\ Matches(c, d) /\ \A l \in RecordKeys(c) : l # k => d[l].info = c[l].info
<1>1. RecordKeys(d) = RecordKeys(c)
  BY RedoneAlike
<1>2. d[k] = rec /\ \A l \in RecordKeys(c) : l # k => d[l] = c[l]
  BY RecordKeysOf DEF Redone
<1>3. \A l \in RecordKeys(c) : d[l].id = c[l].id /\ d[l].kind = c[l].kind
  BY <1>2
<1>4. \A l \in RecordKeys(c) : l # k => d[l].info = c[l].info
  BY <1>2
<1>5. Matches(c, d)
  BY <1>1, <1>3 DEF Matches
<1>6. QED
  BY <1>4, <1>5

LEMMA RedoneSame ==
  ASSUME NEW c, NEW d, NEW k \in RecordKeys(c), NEW rec, Redone(c, d, k, rec),
         rec.id = c[k].id, rec.kind = c[k].kind, rec.info = c[k].info
  PROVE  Same(c, d)
<1>1. Matches(c, d) /\ \A l \in RecordKeys(c) : l # k => d[l].info = c[l].info
  BY RedoneMatches
<1>2. d[k] = rec
  BY DEF Redone
<1>3. \A l \in RecordKeys(c) : d[l].info = c[l].info
  BY <1>1, <1>2
<1>4. QED
  BY <1>1, <1>3 DEF Same

LEMMA SameSame ==
  ASSUME NEW c, NEW d, NEW e, Same(c, d), Same(d, e)
  PROVE  Same(c, e)
  BY DEF Same, Matches

LEMMA SameSelf ==
  ASSUME NEW c
  PROVE  Same(c, c) /\ Matches(c, c)
  BY DEF Same, Matches

(* A folder's counters are not told.                                       *)
LEMMA CountersKeep ==
  ASSUME NEW r \in RecTypes, NEW kind, NEW n
  PROVE  /\ Plus(r, kind).info = r.info /\ Minus(r, kind).info = r.info
         /\ [r EXCEPT !.valence = n].info = r.info
  BY DEF RecTypes, Plus, Minus

(* A record comes at a place that is free, or not at all.                  *)
LEMMA PlacedComes ==
  ASSUME NEW c, NEW e, NEW key, ~IsThread(key), key \notin DOMAIN c, NEW rec,
         Placed(c, e, key, rec)
  PROVE  Come(c, e, key, rec)
<1>1. IsThread(ThreadKey(rec.id))
  BY ThreadKeyParts
<1>2. ASSUME NEW k PROVE k \in RecordKeys(e) <=> k \in RecordKeys(c) \cup {key}
  <2>1. k \in RecordKeys(e) <=> k \in DOMAIN e /\ ~IsThread(k)
    BY RecordKeysOf
  <2>2. k \in RecordKeys(c) <=> k \in DOMAIN c /\ ~IsThread(k)
    BY RecordKeysOf
  <2>3. k \in DOMAIN e <=> k \in DOMAIN c \/ k = key \/ k = ThreadKey(rec.id)
    BY DEF Placed
  <2>4. QED
    BY <1>1, <2>1, <2>2, <2>3
<1>3. key \notin RecordKeys(c)
  BY RecordKeysOf
<1>4. e[key] = rec /\ \A l \in RecordKeys(c) : e[l] = c[l]
  BY RecordKeysOf DEF Placed
<1>5. RecordKeys(e) = RecordKeys(c) \cup {key}
  BY <1>2
<1>6. QED
  BY <1>3, <1>4, <1>5 DEF Come

LEMMA PlacedTaken ==
  ASSUME NEW c, NEW e, NEW key \in DOMAIN c, NEW rec, Placed(c, e, key, rec)
  PROVE  /\ RecordKeys(e) = RecordKeys(c) /\ Same(c, e)
         /\ \A l \in RecordKeys(c) : e[l] = c[l]
<1>1. IsThread(ThreadKey(rec.id))
  BY ThreadKeyParts
<1>2. ASSUME NEW k PROVE k \in RecordKeys(e) <=> k \in RecordKeys(c)
  <2>1. k \in RecordKeys(e) <=> k \in DOMAIN e /\ ~IsThread(k)
    BY RecordKeysOf
  <2>2. k \in RecordKeys(c) <=> k \in DOMAIN c /\ ~IsThread(k)
    BY RecordKeysOf
  <2>3. k \in DOMAIN e <=> k \in DOMAIN c \/ k = ThreadKey(rec.id)
    BY DEF Placed
  <2>4. QED
    BY <1>1, <2>1, <2>2, <2>3
<1>3. RecordKeys(e) = RecordKeys(c)
  BY <1>2
<1>4. \A l \in RecordKeys(c) : e[l] = c[l]
  BY RecordKeysOf DEF Placed
<1>5. QED
  BY <1>3, <1>4 DEF Same, Matches

-----------------------------------------------------------------------------
(***************************************************************************)
(* What each step does to the tree of names.                               *)
(***************************************************************************)

LEMMA NamesWrite ==
  ASSUME IInv, Shallow(Ahead.cat), Write
  PROVE  NamesStep
<1>1. Ahead' = Ahead
  BY AheadStays
<1>2. View' = View
  BY <1>1, ViewIs, ViewNext
<1>3. Running /\ lost' = lost
  BY DEF Write, DropRecord, PutRecord, BeginUpdate, StripAttributes, UnsetAttribute,
         AddAttribute, UncountEntry, SaveHeader, Doing
<1>4. LostIds' = LostIds
  BY <1>3, LostNone
<1>5. CASE Running'
  BY <1>1, <1>2, <1>3, <1>4, <1>5, StutterStep DEF NamesStep
<1>6. CASE ~Running'
  BY <1>1, <1>2, <1>3, <1>4, <1>6, StopStep DEF NamesStep
<1>7. QED
  BY <1>5, <1>6

LEMMA NamesStutter ==
  ASSUME Shallow(Ahead.cat), UNCHANGED vars
  PROVE  NamesStep
<1>1. UNCHANGED <<cat, attrs, todo, lost, status>>
  BY DEF vars
<1>2. Ahead' = Ahead
  BY <1>1, AheadIs, AheadNext
<1>3. View' = View
  BY <1>2, ViewIs, ViewNext
<1>4. LostIds' = LostIds
  BY <1>1, LostNone
<1>5. Running' <=> Running
  BY <1>1 DEF Running
<1>6. QED
  BY <1>2, <1>3, <1>4, <1>5, StutterStep DEF NamesStep

LEMMA NamesAddToFile ==
  ASSUME IInv, Shallow(Ahead.cat), NEW path \in Paths, AddToFile(path)
  PROVE  NamesStep
<1>1. PICK key, rec : key = KeyAt(cat, path) /\ rec = cat[key]
  OBVIOUS
<1>2. Idle /\ Found(cat, path) /\ Tidy(cat, LostIds, hdr.next) /\ hdr.next \in Nat
  BY IdleTidy DEF AddToFile
<1>3. CASE rec.kind = "file"
  <2>1. /\ todo' = Content(rec) /\ cat' = cat /\ attrs' = attrs
        /\ status' = status /\ lost' = lost
    BY <1>1, <1>3 DEF AddToFile, Begin
  <2>2. key \in RecordKeys(cat) /\ rec \in RecTypes
    BY <1>1, <1>2, FoundParts
  <2>3. PICK g : /\ After(State(cat, attrs), Content(rec)) = State(g, attrs)
                 /\ Redone(cat, g, key, rec)
    BY <1>1, <1>2, <2>2, ContentDone
  <2>4. Same(cat, g)
    BY <1>1, <2>2, <2>3, RedoneSame
  <2>5. Tree(g, attrs) = Tree(cat, attrs) /\ (Shallow(cat) => Shallow(g))
    BY <1>2, <2>4, TreeSame
  <2>6. Did(Tree(cat, attrs), Tree(g, attrs), LostIds, LostIds)
    BY <2>5 DEF Did
  <2>7. LostIds = LostIds'
    BY <2>1, LostNone
  <2>8. After(State(cat', attrs'), todo') = State(g, attrs)
    BY <2>1, <2>3
  <2>9. QED
    BY <1>2, <2>1, <2>5, <2>6, <2>7, <2>8, Promised
<1>4. CASE rec.kind # "file"
  <2>1. status' = "exited" /\ UNCHANGED <<cat, attrs, todo, lost>>
    BY <1>1, <1>4 DEF AddToFile, Exit
  <2>2. QED
    BY <1>2, <2>1, Refused DEF Idle
<1>5. QED
  BY <1>3, <1>4

LEMMA NamesChangeInfo ==
  ASSUME IInv, Shallow(Ahead.cat), NEW path \in Paths, NEW info \in Infos,
         ChangeInfo(path, info)
  PROVE  NamesStep
<1>1. PICK key, rec : key = KeyAt(cat, path) /\ rec = cat[key]
  OBVIOUS
<1>2. Idle /\ Found(cat, path) /\ Tidy(cat, LostIds, hdr.next) /\ hdr.next \in Nat
  BY IdleTidy DEF ChangeInfo
<1>3. PICK new : new = [rec EXCEPT !.info = info]
  OBVIOUS
<1>4. /\ todo' = <<Update(new)>> /\ cat' = cat /\ attrs' = attrs
      /\ status' = status /\ lost' = lost
  BY <1>1, <1>3 DEF ChangeInfo, Begin
<1>5. key \in RecordKeys(cat) /\ rec \in RecTypes
  BY <1>1, <1>2, FoundParts
<1>6. new \in RecTypes /\ new.id = rec.id /\ new.kind = rec.kind
  BY <1>3, <1>5 DEF RecTypes
<1>7. PICK d : /\ Done(State(cat, attrs), Update(new)) = State(d, attrs)
               /\ Redone(cat, d, key, new)
  BY <1>1, <1>2, <1>5, <1>6, UpdateDone
<1>8. Matches(cat, d) /\ \A l \in RecordKeys(cat) : l # key => d[l].info = cat[l].info
  BY <1>1, <1>5, <1>6, <1>7, RedoneMatches
<1>9. NS!Changed(Tree(cat, attrs), Tree(d, attrs))
  <2>1. OthersKeep(attrs, attrs, cat[KeyAt(cat, path)].id)
    BY DEF OthersKeep
  <2>2. QED
    BY <1>1, <1>2, <1>8, <2>1, TreeChanged
<1>10. Shallow(cat) => Shallow(d)
  BY <1>8, PresentMatch
<1>11. Did(Tree(cat, attrs), Tree(d, attrs), LostIds, LostIds)
  BY <1>9 DEF Did
<1>12. LostIds = LostIds'
  BY <1>4, LostNone
<1>13. After(State(cat', attrs'), todo') = State(d, attrs)
  BY <1>4, <1>7, AfterOne
<1>14. QED
  BY <1>2, <1>4, <1>10, <1>11, <1>12, <1>13, Promised

SetWrites(ats, attr) ==
  (IF attr \in ats THEN <<Unset(attr)>> ELSE <<>>) \o <<Set(attr)>>

(* What setAttribute leaves of the attributes.                             *)
LEMMA AttributeSet ==
  ASSUME NEW c, NEW ats, NEW attr, NEW t, t = SetWrites(ats, attr)
  PROVE  After(State(c, ats), t) = State(c, ats \cup {attr})
<1>1. PICK v, w : /\ v = Unset(attr) /\ v.do = "unset" /\ v.attr = attr
                  /\ w = Set(attr) /\ w.do = "set" /\ w.attr = attr
  <2>1. Unset(attr).do = "unset" /\ Unset(attr).attr = attr
    BY DEF Unset
  <2>2. Set(attr).do = "set" /\ Set(attr).attr = attr
    BY DEF Set
  <2>3. QED
    BY <2>1, <2>2
<1>2. PICK u, x : u = (IF attr \in ats THEN <<v>> ELSE <<>>) /\ x = <<w>>
  OBVIOUS
<1>3. t = u \o x
  BY <1>1, <1>2 DEF SetWrites
<1>4. Listed(u) /\ Listed(x)
  BY <1>2, ListedOne, ListedNone
<1>5. PICK s : s = State(c, ats)
  OBVIOUS
<1>6. After(s, u \o x) = After(After(s, u), x)
  BY <1>4, AfterJoin
<1>7. PICK less : less = ats \ {attr}
  OBVIOUS
<1>8. After(s, u) = State(c, less) \/ (attr \notin ats /\ After(s, u) = State(c, ats))
  <2>1. CASE attr \in ats
    <3>1. After(s, <<v>>) = Done(s, v)
      BY AfterOne
    <3>2. Done(State(c, ats), v) = State(c, less)
      BY <1>1, <1>7, DoneUnset
    <3>3. QED
      BY <1>2, <1>5, <2>1, <3>1, <3>2
  <2>2. CASE attr \notin ats
    BY <1>2, <1>5, <2>2, AfterNone
  <2>3. QED
    BY <2>1, <2>2
<1>9. PICK as : After(s, u) = State(c, as) /\ as \cup {attr} = ats \cup {attr}
  BY <1>7, <1>8
<1>10. Done(State(c, as), w) = State(c, as \cup {attr})
  <2>1. w.do = "set" /\ w.attr = attr
    BY <1>1
  <2>2. Done(State(c, as), w) = State(c, as \cup {w.attr})
    BY ONLY <2>1, DoneSet
  <2>3. QED
    BY <2>1, <2>2
<1>11. PICK r : r = State(c, as)
  OBVIOUS
<1>12. After(r, <<w>>) = Done(r, w)
  BY AfterOne
<1>13. QED
  BY <1>2, <1>3, <1>5, <1>6, <1>9, <1>10, <1>11, <1>12

LEMMA NamesSetAttribute ==
  ASSUME IInv, Shallow(Ahead.cat), NEW path \in Paths, NEW a \in AttrNames,
         SetAttribute(path, a)
  PROVE  NamesStep
<1>1. PICK attr : attr = <<cat[KeyAt(cat, path)].id, a>>
  OBVIOUS
<1>2. Idle /\ Found(cat, path) /\ Tidy(cat, LostIds, hdr.next) /\ hdr.next \in Nat
  BY IdleTidy DEF SetAttribute
<1>3. CASE AttrPanics(attr)
  <2>1. status' = "panic" /\ UNCHANGED <<cat, attrs, todo, lost>>
    BY <1>1, <1>3 DEF SetAttribute
  <2>2. QED
    BY <1>2, <2>1, Refused DEF Idle
<1>4. CASE ~AttrPanics(attr)
  <2>1. PICK t : t = SetWrites(attrs, attr)
    OBVIOUS
  <2>2. /\ todo' = t /\ cat' = cat /\ attrs' = attrs /\ status' = status /\ lost' = lost
    BY <1>1, <1>4, <2>1 DEF SetAttribute, Begin, SetWrites
  <2>3. PICK bs : bs = attrs \cup {attr}
    OBVIOUS
  <2>4. After(State(cat', attrs'), todo') = State(cat, bs)
    <3>1. After(State(cat, attrs), t) = State(cat, attrs \cup {attr})
      BY ONLY <2>1, AttributeSet
    <3>2. QED
      BY <2>2, <2>3, <3>1
  <2>5. OthersKeep(attrs, bs, cat[KeyAt(cat, path)].id)
    BY <1>1, <2>3 DEF OthersKeep
  <2>6. NS!Changed(Tree(cat, attrs), Tree(cat, bs))
    <3>1. Matches(cat, cat)
      BY SameSelf
    <3>2. \A k \in RecordKeys(cat) : k # KeyAt(cat, path) => cat[k].info = cat[k].info
      OBVIOUS
    <3>3. QED
      BY <1>2, <2>5, <3>1, <3>2, TreeChanged
  <2>7. Did(Tree(cat, attrs), Tree(cat, bs), LostIds, LostIds)
    BY <2>6 DEF Did
  <2>8. LostIds = LostIds'
    BY <2>2, LostNone
  <2>9. QED
    BY <1>2, <2>2, <2>4, <2>7, <2>8, Promised
<1>5. QED
  BY <1>3, <1>4

-----------------------------------------------------------------------------
LEMMA NamesBegin ==
  ASSUME Init
  PROVE  NS!NameInit /\ Shallow(Ahead.cat)
<1>1. /\ DOMAIN cat = {RootKey, ThreadKey(kHFSRootFolderID)}
      /\ todo = <<>> /\ status = "running" /\ lost = {}
  BY DEF Init
<1>2. ASSUME NEW q \in Seq(Names), q # <<>> PROVE ~Found(cat, q)
  <2>1. ~IsThread(KeyAt(cat, q)) /\ KeyAt(cat, q) # RootKey
    BY ONLY q \in Seq(Names), q # <<>>, KeyAtParts
  <2>2. IsThread(ThreadKey(kHFSRootFolderID))
    BY ThreadKeyParts
  <2>3. QED
    BY <1>1, <2>1, <2>2 DEF Found
<1>3. Ahead = State(cat, attrs)
  BY <1>1, AheadIs, AfterNone
<1>4. Ahead.cat = cat /\ Ahead.attrs = attrs
  BY <1>3, StateParts
<1>5. Shallow(cat)
  BY <1>2 DEF Shallow
<1>6. View = <<>>
  <2>1. Present(cat) = {}
    BY <1>2, PresentPath
  <2>2. PICK e : e = Tree(cat, attrs)
    OBVIOUS
  <2>3. e = [q \in {} |-> Leaf(cat[KeyAt(cat, q)], attrs)]
    BY <2>1, <2>2, TreeIs
  <2>4. e = <<>>
    BY ONLY <2>3
  <2>5. QED
    BY <1>4, <2>2, <2>4, ViewIs
<1>7. LostIds = {} /\ Running
  BY <1>1 DEF LostIds, Running
<1>8. QED
  BY <1>4, <1>5, <1>6, <1>7 DEF NS!NameInit

-----------------------------------------------------------------------------
(* What is new, or never was there.                                        *)

(* What was made at a name that is taken has gone.                         *)
LEMMA TreeNeverThere ==
  ASSUME NEW c, NEW gone, NEW next \in Nat, Tidy(c, gone, next), NEW as,
         NEW ids, ids = {next}
  PROVE  NS!NeverThere(Tree(c, as), Tree(c, as), ids)
<1>1. PICK es : es = Tree(c, as)
  OBVIOUS
<1>2. IsTree(es, c, as)
  BY <1>1, TreeParts
<1>3. ASSUME NEW p \in DOMAIN es PROVE es[p].id # next
  <2>1. p \in Present(c) /\ es[p] = Leaf(c[KeyAt(c, p)], as)
    BY <1>2 DEF IsTree
  <2>2. KeyAt(c, p) \in RecordKeys(c)
    BY <2>1, PresentPath, FoundKey
  <2>3. PICK n \in Nat : n = c[KeyAt(c, p)].id /\ n < next
    BY <2>2, TidyIds
  <2>4. es[p].id = n
    BY <2>1, <2>3 DEF Leaf
  <2>5. QED
    BY <2>3, <2>4
<1>4. QED
  BY <1>1, <1>3 DEF NS!NeverThere

(* The writes u are none, or write the record of a new file once more.     *)
NewContent(u, f, key, rec) ==
  u = <<>> \/ (u = Content(rec) /\ key \in RecordKeys(f) /\ f[key] = rec)

LeavesSame(f, ats, u, g) == After(State(f, ats), u) = State(g, ats) /\ Same(f, g)

LEMMA MoreSame ==
  ASSUME NEW f, NEW gone, NEW next, Tidy(f, gone, next), NEW key, NEW rec \in RecTypes,
         NEW more, NewContent(more, f, key, rec), NEW ats
  PROVE  \E g : LeavesSame(f, ats, more, g)
<1>1. CASE more = <<>>
  BY <1>1, AfterNone, SameSelf DEF LeavesSame
<1>2. CASE more = Content(rec) /\ key \in RecordKeys(f) /\ f[key] = rec
  <2>1. PICK g : /\ After(State(f, ats), Content(rec)) = State(g, ats)
                 /\ Redone(f, g, key, rec)
    BY <1>2, ContentDone
  <2>2. Same(f, g)
    BY <1>2, <2>1, RedoneSame
  <2>3. QED
    BY <1>2, <2>1, <2>2 DEF LeavesSame
<1>3. QED
  BY <1>1, <1>2 DEF NewContent

LEMMA CreatingNames ==
  ASSUME IInv, CountInv, Shallow(Ahead.cat), Idle, NEW path \in Paths, CanCreate(path),
         NEW kind \in {"file", "folder"}, NEW more,
         more = <<>> \/ (more = Content(NewRecord(kind, hdr.next)) /\ ~Found(cat, path)),
         cat' = cat, attrs' = attrs, status' = status,
         todo' = Creation(kind, path) \o more,
         NEW new, new = [id |-> hdr.next, kind |-> kind],
         lost' = IF Found(cat, path) THEN lost \cup {new} ELSE lost
  PROVE  NamesStep
<1>1. /\ Tidy(cat, LostIds, hdr.next) /\ hdr.next \in Nat
      /\ \A id \in LostIds : id \in Nat /\ id < hdr.next
  BY IdleTidy
<1>2. ExactBut(cat, drift, hdr.next, {})
  BY IdleCounts
<1>3. PICK next \in FirstId .. MaxId : next = hdr.next
  BY DEF CountInv, Fine, CanCreate, FineHead
<1>4. next \in Nat /\ next # NoFolder /\ next + 1 \in Nat /\ next < next + 1
  BY BoundsAssumption DEF FirstId, NoFolder
<1>5. PICK key : key = KeyAt(cat, path)
  OBVIOUS
<1>6. FolderAt(cat, Front(path)) # NoFolder
  BY DEF CanCreate
<1>7. /\ path \in Seq(Names) /\ path # <<>> /\ Front(path) \in Seq(Names)
      /\ key[1] = FolderAt(cat, Front(path))
  BY <1>5, PathSeq, FrontParts, KeyAtParts
<1>8. key \in Keys /\ ~IsThread(key)
  BY <1>1, <1>5, <1>6, KeyAtKey
<1>9. PICK rec : rec = NewRecord(kind, next)
  OBVIOUS
<1>10. rec \in RecTypes /\ rec.id = next /\ rec.kind = kind
  BY <1>4, <1>9, NewTyped
<1>11. PICK k \in RecordKeys(cat) :
         /\ RecordById(cat, key[1]) = cat[k] /\ cat[k] \in RecTypes /\ cat[k].id = key[1]
  BY <1>1, <1>6, <1>7, FolderRecord
<1>12. PICK plus : plus = Plus(cat[k], kind)
  OBVIOUS
<1>13. /\ plus \in RecTypes /\ plus.id = cat[k].id /\ plus.kind = cat[k].kind
       /\ plus.info = cat[k].info
  BY <1>11, <1>12, PlusTyped, CountersKeep
<1>14. PICK t : Writes(t, key, rec, plus)
  BY DEF Writes
<1>15. Creation(kind, path) = t
  BY <1>3, <1>5, <1>9, <1>10, <1>11, <1>12, <1>14 DEF Creation, Writes
<1>16. ThreadKey(rec.id) \notin DOMAIN cat
  <2>1. IsThread(ThreadKey(rec.id)) /\ ThreadKey(rec.id)[1] = next
    BY <1>10, ThreadKeyParts
  <2>2. ThreadKey(rec.id) \in DOMAIN cat => next < next
    BY <1>1, <1>3, <2>1, TidyThread
  <2>3. QED
    BY <2>2
<1>17. PICK gone : gone = IF Found(cat, path) THEN LostIds \cup {next} ELSE LostIds
  OBVIOUS
<1>18. LostIds' = gone
  <2>1. CASE Found(cat, path)
    BY <1>3, <1>17, <2>1, LostOne
  <2>2. CASE ~Found(cat, path)
    BY <1>17, <2>2, LostNone
  <2>3. QED
    BY <2>1, <2>2
<1>19. \A j \in RecordKeys(cat) : cat[j].id \in Nat /\ cat[j].id < next
  BY <1>1, <1>3, TidyIds
<1>20. Tidy(cat, gone, next + 1)
  <2>1. \A j \in RecordKeys(cat) : cat[j].id \notin gone
    BY <1>1, <1>17, <1>19, TidyNamed
  <2>2. LostIds \subseteq gone /\ next <= next + 1
    BY <1>17
  <2>3. QED
    BY <1>1, <1>3, <1>4, <2>1, <2>2, TidyWiden
<1>21. next \notin LostIds
  BY <1>1, <1>3
<1>22. TakenBy(cat, key, rec.id, gone)
  BY <1>5, <1>10, <1>17, <1>21 DEF Found, TakenBy
<1>23. PICK after \in Nat : after = next + 1 /\ rec.id < after /\ Tidy(cat, gone, after)
  BY <1>4, <1>10, <1>20
<1>24. PICK e, f : CreatedBy(cat, attrs, t, e, f, key, rec, k, plus, gone, after)
  BY <1>4, <1>8, <1>10, <1>11, <1>13, <1>14, <1>16, <1>22, <1>23, CreationDone
<1>25. /\ After(State(cat, attrs), t) = State(f, attrs)
       /\ Placed(cat, e, key, rec) /\ Redone(e, f, k, plus)
       /\ Tidy(e, gone, after) /\ Tidy(f, gone, after)
  BY <1>24 DEF CreatedBy
<1>26. k \in RecordKeys(e) /\ e[k] = cat[k]
  BY <1>25, RecordKeysOf DEF Placed
<1>27. Same(e, f)
  <2>1. /\ Redone(e, f, k, plus) /\ k \in RecordKeys(e)
        /\ plus.id = e[k].id /\ plus.kind = e[k].kind /\ plus.info = e[k].info
    BY <1>13, <1>25, <1>26
  <2>2. QED
    BY ONLY <2>1, RedoneSame
<1>28. more = <<>> \/ (more = Content(rec) /\ key \in RecordKeys(f) /\ f[key] = rec)
  <2>1. CASE more = <<>>
    BY <2>1
  <2>2. CASE more = Content(rec) /\ ~Found(cat, path)
    <3>1. key \notin DOMAIN cat /\ key # k
      BY <1>5, <2>2, RecordKeysOf DEF Found
    <3>2. key \in DOMAIN e /\ e[key] = rec
      BY <1>25, <3>1 DEF Placed
    <3>3. key \in DOMAIN f /\ f[key] = rec
      BY <1>25, <3>1, <3>2 DEF Redone
    <3>4. QED
      BY <1>8, <2>2, <3>3, RecordKeysOf
  <2>3. QED
    BY <1>3, <1>9, <2>1, <2>2
<1>29. PICK g : After(State(f, attrs), more) = State(g, attrs) /\ Same(f, g)
  <2>1. Tidy(f, gone, after) /\ rec \in RecTypes
    BY <1>10, <1>25
  <2>2. NewContent(more, f, key, rec)
    BY <1>28 DEF NewContent
  <2>3. \E g : LeavesSame(f, attrs, more, g)
    BY <2>1, <2>2, MoreSame
  <2>4. QED
    BY <2>3 DEF LeavesSame
<1>30. Same(e, g)
  BY <1>27, <1>29, SameSame
<1>31. Tree(g, attrs) = Tree(e, attrs) /\ (Shallow(e) => Shallow(g))
  BY <1>25, <1>30, TreeSame
<1>32. After(State(cat', attrs'), todo') = State(g, attrs)
  <2>1. Listed(t) /\ Listed(more)
    <3>1. Listed(t)
      BY <1>14, ListedFour DEF Writes
    <3>2. Listed(more)
      BY <1>28, ListedNone, ContentParts
    <3>3. QED
      BY <3>1, <3>2
  <2>2. After(State(cat, attrs), t \o more) = After(After(State(cat, attrs), t), more)
    BY <2>1, AfterJoin
  <2>3. QED
    BY <1>15, <1>25, <1>29, <2>2
<1>33. PICK es, fs : es = Tree(cat, attrs) /\ fs = Tree(g, attrs)
  OBVIOUS
<1>34. Did(es, fs, LostIds, gone) /\ (Shallow(cat) => Shallow(g))
  <2>1. CASE Found(cat, path)
    <3>1. Same(cat, e)
      BY <1>5, <1>25, <2>1, PlacedTaken DEF Found
    <3>2. Tree(e, attrs) = Tree(cat, attrs) /\ (Shallow(cat) => Shallow(e))
      BY <1>1, <3>1, TreeSame
    <3>3. es = fs
      BY <1>31, <1>33, <3>2
    <3>4. gone \ LostIds = {next} /\ LostIds \subseteq gone
      BY <1>17, <1>21, <2>1
    <3>5. NS!NeverThere(es, fs, gone \ LostIds)
      <4>1. PICK ids : ids = gone \ LostIds
        OBVIOUS
      <4>2. NS!NeverThere(Tree(cat, attrs), Tree(cat, attrs), ids)
        BY <1>1, <1>3, <1>4, <3>4, <4>1, TreeNeverThere
      <4>3. QED
        BY <1>33, <3>3, <4>1, <4>2
    <3>6. QED
      BY <1>31, <3>2, <3>4, <3>5 DEF Did
  <2>2. CASE ~Found(cat, path)
    <3>1. Come(cat, e, key, rec)
      <4>1. key \notin DOMAIN cat
        BY <1>5, <2>2 DEF Found
      <4>2. QED
        BY <1>8, <1>25, <4>1, PlacedComes
    <3>2. \A l \in RecordKeys(e) : l[1] # rec.id
      <4>1. ASSUME NEW l \in RecordKeys(cat) PROVE l[1] # next
        <5>1. l \in Keys /\ l[1] < next
          BY <1>1, <1>2, <1>3, TidyNamed DEF ExactBut
        <5>2. PICK n \in Nat : n = l[1]
          BY <5>1 DEF Keys
        <5>3. QED
          BY <5>1, <5>2
      <4>2. key[1] # next
        <5>1. PICK n \in Nat : n = key[1] /\ n < next
          BY <1>11, <1>19
        <5>2. QED
          BY <5>1
      <4>3. QED
        BY <1>10, <3>1, <4>1, <4>2 DEF Come
    <3>3. \A j \in RecordKeys(cat) : cat[j].id # rec.id
      <4>1. ASSUME NEW j \in RecordKeys(cat) PROVE cat[j].id # next
        <5>1. PICK n \in Nat : n = cat[j].id /\ n < next
          BY <1>19
        <5>2. QED
          BY <5>1
      <4>2. QED
        BY <1>10, <4>1
    <3>4. NS!Created(Tree(cat, attrs), Tree(e, attrs)) /\ (Shallow(cat) => Shallow(e))
      BY <1>1, <1>5, <1>6, <1>25, <3>1, <3>2, <3>3, TreeCreated
    <3>5. gone = LostIds
      BY <1>17, <2>2
    <3>6. NS!Created(es, fs)
      BY <1>31, <1>33, <3>4
    <3>7. QED
      BY <1>31, <3>4, <3>5, <3>6 DEF Did
  <2>3. QED
    BY <2>1, <2>2
<1>35. gone = LostIds'
  BY <1>18
<1>36. Did(Tree(cat, attrs), Tree(g, attrs), LostIds, gone)
  BY <1>33, <1>34
<1>37. QED
  BY <1>32, <1>34, <1>35, <1>36, Promised

LEMMA NamesNewFolder ==
  ASSUME IInv, CountInv, Shallow(Ahead.cat), NEW path \in Paths, NewFolder(path)
  PROVE  NamesStep
<1>1. /\ Idle /\ CanCreate(path) /\ todo' = Creation("folder", path)
      /\ cat' = cat /\ attrs' = attrs /\ status' = status
  BY DEF NewFolder
<1>2. Creation("folder", path) \o <<>> = Creation("folder", path)
  <2>1. PICK v, w, x, y : Creation("folder", path) = <<v, w, x, y>>
    BY DEF Creation
  <2>2. <<v, w, x, y>> \o <<>> = <<v, w, x, y>>
    OBVIOUS
  <2>3. QED
    BY <2>1, <2>2
<1>3. PICK new : new = [id |-> hdr.next, kind |-> "folder"]
  OBVIOUS
<1>4. lost' = IF Found(cat, path) THEN lost \cup {new} ELSE lost
  BY <1>3 DEF NewFolder
<1>5. todo' = Creation("folder", path) \o <<>>
  BY <1>1, <1>2
<1>6. PICK none : none = <<>>
  OBVIOUS
<1>7. QED
  BY <1>1, <1>3, <1>4, <1>5, <1>6, CreatingNames

LEMMA NamesAddNewFile ==
  ASSUME IInv, CountInv, Shallow(Ahead.cat), NEW path \in Paths, AddNewFile(path)
  PROVE  NamesStep
<1>1. PICK more : more = Content(NewRecord("file", hdr.next))
  OBVIOUS
<1>2. /\ Idle /\ CanCreate(path) /\ ~Found(cat, path)
      /\ todo' = Creation("file", path) \o more
      /\ cat' = cat /\ attrs' = attrs /\ status' = status /\ lost' = lost
  BY <1>1 DEF AddNewFile, Begin
<1>3. PICK new : new = [id |-> hdr.next, kind |-> "file"]
  OBVIOUS
<1>4. lost' = IF Found(cat, path) THEN lost \cup {new} ELSE lost
  BY <1>2
<1>5. QED
  BY <1>1, <1>2, <1>3, <1>4, CreatingNames

-----------------------------------------------------------------------------
(* What is removed.                                                        *)

(* Of c, the records of g are written again, one goes, and the parent's is *)
(* written again.                                                          *)
Removing(c, ats, u, key, g, d, f, bs, gone, next) ==
  /\ After(State(c, ats), u) = State(f, bs)
  /\ Same(c, g) /\ Tidy(g, gone, next)
  /\ Gone(g, d, key) /\ Tidy(d, gone, next)
  /\ Same(d, f) /\ OthersKeep(ats, bs, c[key].id)

(* The four writes with which a record goes.                               *)
ClearWrites(t, rec, key) ==
  t = <<Drop(key), Strip(rec.id), Drop(ThreadKey(rec.id)), Uncount(rec.kind)>>

Clears(g, ats, t, d, bs, id) == After(State(g, ats), t) = State(d, bs) /\ OthersKeep(ats, bs, id)

LEMMA ClearDone ==
  ASSUME NEW g, NEW ats, NEW key, NEW rec, NEW t, ClearWrites(t, rec, key)
  PROVE  \E bs : Clears(g, ats, t, Cleared(g, key, rec.id), bs, rec.id)
<1>1. PICK w, x, y, z : /\ w = Drop(key) /\ x = Strip(rec.id)
                        /\ y = Drop(ThreadKey(rec.id)) /\ z = Uncount(rec.kind)
  OBVIOUS
<1>2. PICK d, id, tk : d = Cleared(g, key, rec.id) /\ id = rec.id /\ tk = ThreadKey(rec.id)
  OBVIOUS
<1>3. PICK s : s = State(g, ats)
  OBVIOUS
<1>4. After(s, <<w, x, y, z>>) = Done(Done(Done(Done(s, w), x), y), z)
  BY AfterFour
<1>5. PICK e : e = Without(g, key)
  OBVIOUS
<1>6. Done(State(g, ats), w) = State(e, ats)
  BY <1>1, <1>5, DropDone
<1>7. x.do = "strip" /\ z.do = "uncount" /\ x.id = id
  BY <1>1, <1>2 DEF Strip, Uncount
<1>8. PICK bs : bs = {k \in ats : k[1] # x.id}
  OBVIOUS
<1>9. Done(State(e, ats), x) = State(e, bs)
  <2>1. x.do = "strip"
    BY <1>7
  <2>2. Done(State(e, ats), x) = State(e, {k \in ats : k[1] # x.id})
    BY ONLY <2>1, DoneStrip
  <2>3. QED
    BY <1>8, <2>2
<1>10. Done(State(e, bs), y) = State(d, bs)
  <2>1. Done(State(e, bs), Drop(tk)) = State(Without(e, tk), bs)
    BY DropDone
  <2>2. d = Without(e, tk) /\ y = Drop(tk)
    BY <1>1, <1>2, <1>5 DEF Cleared
  <2>3. QED
    BY <2>1, <2>2
<1>11. Done(State(d, bs), z) = State(d, bs)
  BY <1>7, DoneQuiet
<1>12. t = <<w, x, y, z>>
  BY <1>1 DEF ClearWrites
<1>13. OthersKeep(ats, bs, id)
  BY <1>7, <1>8 DEF OthersKeep
<1>14. After(s, t) = State(d, bs)
  BY <1>3, <1>4, <1>6, <1>9, <1>10, <1>11, <1>12
<1>15. QED
  BY <1>2, <1>3, <1>13, <1>14 DEF Clears

LEMMA ClearGone ==
  ASSUME NEW g, NEW key, NEW id
  PROVE  Gone(g, Cleared(g, key, id), key)
<1>1. PICK d : d = Cleared(g, key, id)
  OBVIOUS
<1>2. DOMAIN d = DOMAIN g \ {key, ThreadKey(id)}
  BY <1>1, ClearedDomain
<1>3. IsThread(ThreadKey(id))
  BY ThreadKeyParts
<1>4. ASSUME NEW k PROVE k \in RecordKeys(d) <=> k \in RecordKeys(g) \ {key}
  BY <1>2, <1>3, RecordKeysOf
<1>5. RecordKeys(d) = RecordKeys(g) \ {key}
  BY <1>4
<1>6. \A l \in RecordKeys(d) : d[l] = g[l]
  BY <1>1, <1>2, RecordKeysOf DEF Cleared, Without
<1>7. QED
  BY <1>1, <1>5, <1>6 DEF Gone

LEMMA RemovalSplit ==
  ASSUME NEW c, NEW ats, NEW gone, NEW next, Tidy(c, gone, next),
         NEW dr, ExactBut(c, dr, next, {}),
         NEW key \in RecordKeys(c), key # RootKey, c[key] \in RecTypes,
         NEW i \in RecordKeys(c), i # key, c[i] \in RecTypes,
         NEW minus, minus = Minus(c[i], c[key].kind),
         NEW u, Removes(u, c[key], key, minus)
  PROVE  \E g, d, f, bs : Removing(c, ats, u, key, g, d, f, bs, gone, next)
<1>1. PICK rec : rec = c[key]
  OBVIOUS
<1>2. PICK g : /\ After(State(c, ats), Contents(rec)) = State(g, ats)
               /\ Tidy(g, gone, next) /\ Redone(c, g, key, rec)
  BY <1>1, ContentsDone
<1>3. Same(c, g)
  BY <1>1, <1>2, RedoneSame
<1>4. /\ RecordKeys(g) = RecordKeys(c) /\ g[key] = rec /\ g[i] = c[i]
  BY <1>1, <1>2, RedoneAlike, RecordKeysOf DEF Redone
<1>5. PICK d : d = Cleared(g, key, rec.id)
  OBVIOUS
<1>6. PICK t : ClearWrites(t, rec, key)
  BY DEF ClearWrites
<1>7. \E bs : Clears(g, ats, t, d, bs, rec.id)
  BY <1>5, <1>6, ClearDone
<1>8. PICK bs : Clears(g, ats, t, d, bs, rec.id)
  BY <1>7
<1>9. After(State(g, ats), t) = State(d, bs) /\ OthersKeep(ats, bs, rec.id)
  BY <1>8 DEF Clears
<1>10. /\ Tidy(d, gone, next) /\ i \in RecordKeys(d) /\ d[i] = c[i]
  BY <1>2, <1>4, <1>5, TidyClear
<1>11. Gone(g, d, key)
  BY <1>5, ClearGone
<1>12. /\ minus \in RecTypes /\ minus.id = c[i].id /\ minus.kind = c[i].kind
       /\ minus.info = c[i].info
  BY MinusTyped, CountersKeep
<1>13. PICK f : /\ Done(State(d, bs), Update(minus)) = State(f, bs)
                /\ Redone(d, f, i, minus)
  BY <1>10, <1>12, UpdateDone
<1>14. Same(d, f)
  <2>1. /\ Redone(d, f, i, minus) /\ i \in RecordKeys(d)
        /\ minus.id = d[i].id /\ minus.kind = d[i].kind /\ minus.info = d[i].info
    BY <1>10, <1>12, <1>13
  <2>2. QED
    BY ONLY <2>1, RedoneSame
<1>15. After(State(c, ats), u) = State(f, bs)
  <2>1. PICK s : s = Contents(rec)
    OBVIOUS
  <2>2. PICK r : r = <<Update(minus), Save>>
    OBVIOUS
  <2>3. u = (s \o t) \o r
    BY <1>1, <1>6, <2>1, <2>2 DEF Removal, Contents, Removes, ClearWrites
  <2>4. Listed(s) /\ Listed(t) /\ Listed(r)
    <3>1. Listed(t)
      BY <1>6, ListedFour DEF ClearWrites
    <3>2. Listed(s) /\ Listed(r)
      BY <2>1, <2>2, ContentsListed, ListedTwo
    <3>3. QED
      BY <3>1, <3>2
  <2>5. PICK st : st = State(c, ats)
    OBVIOUS
  <2>6. After(st, (s \o t) \o r) = After(After(After(st, s), t), r)
    BY <2>4, AfterParts
  <2>7. After(State(d, bs), r) = State(f, bs)
    <3>1. After(State(d, bs), r) = Done(Done(State(d, bs), Update(minus)), Save)
      BY <2>2, AfterTwo
    <3>2. QED
      BY <1>13, <3>1, SaveDone
  <2>8. QED
    BY <1>2, <1>9, <2>1, <2>3, <2>5, <2>6, <2>7
<1>16. Removing(c, ats, u, key, g, d, f, bs, gone, next)
  BY <1>1, <1>2, <1>3, <1>9, <1>10, <1>11, <1>14, <1>15 DEF Removing
<1>17. QED
  BY <1>16

(* A removal takes one entry out of the tree of names.                     *)
LEMMA TreeRemoved ==
  ASSUME NEW c, NEW ats, NEW gone, NEW next, Tidy(c, gone, next),
         NEW p \in Paths, Found(c, p),
         NEW u, NEW g, NEW d, NEW f, NEW bs,
         Removing(c, ats, u, KeyAt(c, p), g, d, f, bs, gone, next)
  PROVE  Tree(f, bs) = Pruned(Tree(c, ats), p) /\ (Shallow(c) => Shallow(f))
<1>1. PICK key : key = KeyAt(c, p)
  OBVIOUS
<1>2. /\ Same(c, g) /\ Tidy(g, gone, next) /\ Gone(g, d, key) /\ Tidy(d, gone, next)
      /\ Same(d, f) /\ OthersKeep(ats, bs, c[key].id)
  BY <1>1 DEF Removing
<1>3. p \in Seq(Names) /\ p # <<>> /\ key \in RecordKeys(c)
  BY <1>1, PathSeq, FoundKey
<1>4. KeyAt(g, p) = key /\ Found(g, p) /\ g[key].id = c[key].id
  BY <1>1, <1>2, <1>3, MatchKeys DEF Same, Matches
<1>5. Gone(g, d, KeyAt(g, p)) /\ OthersKeep(ats, bs, g[KeyAt(g, p)].id)
  BY <1>2, <1>4
<1>6. Tree(d, bs) = Pruned(Tree(g, ats), p) /\ (Shallow(g) => Shallow(d))
  BY ONLY p \in Paths, <1>2, <1>4, <1>5, TreePruned
<1>7. Tree(g, ats) = Tree(c, ats) /\ (Shallow(c) => Shallow(g))
  BY <1>2, TreeSame
<1>8. Tree(f, bs) = Tree(d, bs) /\ (Shallow(d) => Shallow(f))
  BY <1>2, TreeSame
<1>9. QED
  BY <1>6, <1>7, <1>8

LEMMA NamesRemoveEntry ==
  ASSUME IInv, CountInv, Shallow(Ahead.cat), NEW path \in Paths, RemoveEntry(path)
  PROVE  NamesStep
<1>1. Idle
  BY DEF RemoveEntry
<1>2. CASE UNCHANGED <<cat, attrs, hdr, disk, todo, drift, lost>> /\ status' = "exited"
  BY <1>1, <1>2, Refused DEF Idle
<1>3. CASE ~(UNCHANGED <<cat, attrs, hdr, disk, todo, drift, lost>> /\ status' = "exited")
  <2>1. PICK key : key = KeyAt(cat, path)
    OBVIOUS
  <2>2. PICK minus : minus = Minus(RecordById(cat, key[1]), cat[key].kind)
    OBVIOUS
  <2>3. /\ Found(cat, path) /\ ~Occupied(cat[key])
        /\ Begin(Removal(cat[key], key) \o <<Update(minus), Save>>)
    BY <1>3, <2>1, <2>2 DEF RemoveEntry, Exit
  <2>4. PICK u : u = Removal(cat[key], key) \o <<Update(minus), Save>>
    OBVIOUS
  <2>5. todo' = u /\ cat' = cat /\ attrs' = attrs /\ status' = status /\ lost' = lost
    BY <2>3, <2>4 DEF Begin
  <2>6. Tidy(cat, LostIds, hdr.next) /\ hdr.next \in Nat
    BY <1>1, IdleTidy
  <2>7. key \in RecordKeys(cat) /\ key # RootKey /\ cat[key] \in RecTypes
    BY <2>1, <2>3, <2>6, FoundParts
  <2>8. PICK i \in RecordKeys(cat) :
          RecordById(cat, key[1]) = cat[i] /\ cat[i] \in RecTypes /\ i # key
    BY <2>1, <2>3, <2>6, FoundParts
  <2>9. minus = Minus(cat[i], cat[key].kind)
    BY <2>2, <2>8
  <2>10. ExactBut(cat, drift, hdr.next, {})
    BY <1>1, IdleCounts
  <2>11. \E g, d, f, bs : Removing(cat, attrs, u, key, g, d, f, bs, LostIds, hdr.next)
    <3>1. Removes(u, cat[key], key, minus)
      BY <2>4 DEF Removes
    <3>2. QED
      BY <2>6, <2>7, <2>8, <2>9, <2>10, <3>1, RemovalSplit
  <2>12. PICK g, d, f, bs : Removing(cat, attrs, u, key, g, d, f, bs, LostIds, hdr.next)
    BY <2>11
  <2>13. Tree(f, bs) = Pruned(Tree(cat, attrs), path) /\ (Shallow(cat) => Shallow(f))
    BY <2>1, <2>3, <2>6, <2>12, TreeRemoved
  <2>14. cat[key].kind = "folder" => \A l \in RecordKeys(cat) : l[1] # cat[key].id
    <3>1. SUFFICES ASSUME cat[key].kind = "folder"
                   PROVE  \A l \in RecordKeys(cat) : l[1] # cat[key].id
      OBVIOUS
    <3>2. PICK n \in Nat : n = cat[key].valence
      BY <2>7 DEF RecTypes
    <3>3. n = 0
      <4>1. ~(n > 0)
        BY <2>3, <3>1, <3>2 DEF Occupied
      <4>2. QED
        BY <4>1
    <3>4. PICK E : E = EntriesIn(cat, cat[key].id)
      OBVIOUS
    <3>5. IsFiniteSet(E) /\ Cardinality(E) \in Nat
      BY <2>10, <3>4, EntriesNumber DEF ExactBut
    <3>6. Cardinality(E) <= n
      BY <2>7, <2>10, <3>2, <3>4 DEF ExactBut, RightIn, Right
    <3>7. Cardinality(E) = 0
      BY <3>3, <3>5, <3>6
    <3>8. E = {}
      BY <3>5, <3>7, FS_EmptySet
    <3>9. QED
      BY <3>4, <3>8 DEF EntriesIn
  <2>15. PICK fs : fs = Tree(f, bs)
    OBVIOUS
  <2>16. NS!Deleted(Tree(cat, attrs), fs)
    BY <2>1, <2>3, <2>6, <2>13, <2>14, <2>15, TreeDeleted
  <2>17. Did(Tree(cat, attrs), Tree(f, bs), LostIds, LostIds)
    BY <2>15, <2>16 DEF Did
  <2>18. LostIds = LostIds'
    BY <2>5, LostNone
  <2>19. After(State(cat', attrs'), todo') = State(f, bs)
    BY <2>5, <2>12 DEF Removing
  <2>20. QED
    BY <1>1, <2>5, <2>13, <2>17, <2>18, <2>19, Promised
<1>4. QED
  BY <1>2, <1>3

-----------------------------------------------------------------------------
(* What is moved.                                                          *)

Transfers(c, e, from, to) ==
  /\ RecordKeys(e) = (RecordKeys(c) \ {from}) \cup {to}
  /\ \A l \in RecordKeys(c) \ {from} : e[l] = c[l]
  /\ ~TakenAt(c, from, to) => e[to] = c[from]

LEMMA ArrivedTransfers ==
  ASSUME NEW c, NEW from \in RecordKeys(c), NEW to, ~IsThread(to),
         NEW ats, NEW e, NEW more, NEW next, Arrived(c, ats, e, from, to, more, next)
  PROVE  Transfers(c, e, from, to)
<1>1. PICK rec, d : rec = c[from] /\ d = Cleared(c, from, rec.id)
  OBVIOUS
<1>2. Placed(d, e, to, rec)
  BY <1>1 DEF Arrived
<1>3. Gone(c, d, from)
  BY <1>1, ClearGone
<1>4. to \in DOMAIN d <=> TakenAt(c, from, to)
  BY <1>1, TakenIs
<1>5. IsThread(ThreadKey(rec.id))
  BY ThreadKeyParts
<1>6. ASSUME NEW k PROVE k \in RecordKeys(e) <=> k \in RecordKeys(d) \cup {to}
  <2>1. k \in RecordKeys(e) <=> k \in DOMAIN e /\ ~IsThread(k)
    BY RecordKeysOf
  <2>2. k \in RecordKeys(d) <=> k \in DOMAIN d /\ ~IsThread(k)
    BY RecordKeysOf
  <2>3. k \in DOMAIN e <=> k \in DOMAIN d \/ k = to \/ k = ThreadKey(rec.id)
    BY <1>2 DEF Placed
  <2>4. QED
    BY <1>5, <2>1, <2>2, <2>3
<1>7. RecordKeys(e) = RecordKeys(d) \cup {to}
  BY <1>6
<1>8. \A l \in RecordKeys(d) : e[l] = d[l]
  BY <1>2, RecordKeysOf DEF Placed
<1>9. RecordKeys(e) = (RecordKeys(c) \ {from}) \cup {to}
  BY <1>3, <1>7 DEF Gone
<1>10. \A l \in RecordKeys(c) \ {from} : e[l] = c[l]
  BY <1>3, <1>8 DEF Gone
<1>11. ~TakenAt(c, from, to) => e[to] = c[from]
  BY <1>1, <1>2, <1>4 DEF Placed
<1>12. QED
  BY <1>9, <1>10, <1>11 DEF Transfers

(* The two folders are written again, with other valences.                 *)
LikeAt(c, k, r) ==
  /\ k \in RecordKeys(c) /\ r \in RecTypes
  /\ r.id = c[k].id /\ r.kind = c[k].kind /\ r.info = c[k].info

TwoUpdated(e, ats, f, src, dst) ==
  /\ Done(Done(State(e, ats), Update(src)), Update(dst)) = State(f, ats)
  /\ Same(e, f)

LEMMA TwoSame ==
  ASSUME NEW e, NEW more, NEW next, Tidy(e, more, next),
         NEW i, NEW src, LikeAt(e, i, src), NEW j, NEW dst, LikeAt(e, j, dst), NEW ats
  PROVE  \E f : TwoUpdated(e, ats, f, src, dst)
<1>1. /\ i \in RecordKeys(e) /\ src \in RecTypes
      /\ src.id = e[i].id /\ src.kind = e[i].kind /\ src.info = e[i].info
  BY DEF LikeAt
<1>2. PICK g : /\ Done(State(e, ats), Update(src)) = State(g, ats)
               /\ Tidy(g, more, next) /\ Redone(e, g, i, src)
  BY <1>1, UpdateDone
<1>3. Same(e, g)
  BY <1>1, <1>2, RedoneSame
<1>4. /\ j \in RecordKeys(g) /\ dst \in RecTypes
      /\ dst.id = g[j].id /\ dst.kind = g[j].kind /\ dst.info = g[j].info
  BY <1>3 DEF LikeAt, Same, Matches
<1>5. PICK f : /\ Done(State(g, ats), Update(dst)) = State(f, ats)
               /\ Redone(g, f, j, dst)
  BY <1>2, <1>4, UpdateDone
<1>6. Same(g, f)
  BY <1>4, <1>5, RedoneSame
<1>7. Same(e, f)
  BY <1>3, <1>6, SameSame
<1>8. QED
  BY <1>2, <1>5, <1>7 DEF TwoUpdated

(* What a move does to the tree of names.                                  *)
MovesTree(c, ats, e, gone, more) ==
  /\ Did(Tree(c, ats), Tree(e, ats), gone, more)
  /\ Shallow(e)

LEMMA TreeMoved ==
  ASSUME NEW c, NEW gone, NEW next \in Nat, Tidy(c, gone, next), Shallow(c),
         NEW s \in Paths, Found(c, s),
         NEW t \in Paths, FolderAt(c, Front(t)) # NoFolder,
         s = t \/ ~NS!Under(s, t), Fits(c, s, t), NEW ats, NEW e, NEW more,
         Losing(c, gone, more, KeyAt(c, s), KeyAt(c, t)),
         Arrived(c, ats, e, KeyAt(c, s), KeyAt(c, t), more, next)
  PROVE  MovesTree(c, ats, e, gone, more)
<1>1. PICK from, to : from = KeyAt(c, s) /\ to = KeyAt(c, t)
  OBVIOUS
<1>2. /\ s \in Seq(Names) /\ s # <<>> /\ t \in Seq(Names) /\ t # <<>>
      /\ from \in RecordKeys(c) /\ ~IsThread(to)
      /\ FolderAt(c, Front(s)) # NoFolder
  BY <1>1, PathSeq, FoundKey, KeyAtParts
<1>3. Transfers(c, e, from, to)
  BY <1>1, <1>2, ArrivedTransfers
<1>4. /\ RecordKeys(e) = (RecordKeys(c) \ {from}) \cup {to}
      /\ \A l \in RecordKeys(c) \ {from} : e[l] = c[l]
      /\ ~TakenAt(c, from, to) => e[to] = c[from]
  BY <1>3 DEF Transfers
<1>5. Tidy(e, more, next) /\ Losing(c, gone, more, from, to)
  BY <1>1 DEF Arrived
<1>6. from = to => s = t
  BY <1>1, <1>2, KeyOne
<1>7. PICK as, bs : as = Tree(c, ats) /\ bs = Tree(e, ats)
  OBVIOUS
<1>8. CASE from = to
  <2>1. ~TakenAt(c, from, to) /\ more = gone
    BY <1>5, <1>8 DEF TakenAt, Losing
  <2>2. RecordKeys(e) = RecordKeys(c) /\ \A l \in RecordKeys(c) : e[l] = c[l]
    BY <1>2, <1>4, <1>8, <2>1
  <2>3. Same(c, e)
    BY <2>2 DEF Same, Matches
  <2>4. Tree(e, ats) = Tree(c, ats) /\ Shallow(e)
    BY <2>3, TreeSame
  <2>5. QED
    BY <2>1, <2>4 DEF MovesTree, Did
<1>9. CASE TakenAt(c, from, to)
  <2>1. from # to /\ to \in RecordKeys(c) /\ more = gone \cup {c[from].id}
    BY <1>2, <1>5, <1>9, RecordKeysOf DEF TakenAt, Losing
  <2>2. Gone(c, e, from)
    <3>1. RecordKeys(e) = RecordKeys(c) \ {from}
      BY <1>4, <2>1
    <3>2. QED
      BY <1>4, <3>1 DEF Gone
  <2>3. OthersKeep(ats, ats, c[KeyAt(c, s)].id) /\ Gone(c, e, KeyAt(c, s))
    BY <1>1, <2>2 DEF OthersKeep
  <2>4. Tree(e, ats) = Pruned(Tree(c, ats), s) /\ Shallow(e)
    BY <1>5, <2>3, TreePruned
  <2>5. PICK ids : ids = {c[KeyAt(c, s)].id}
    OBVIOUS
  <2>6. NS!Vanished(Tree(c, ats), bs, ids)
    BY <1>7, <2>4, <2>5, TreeVanished
  <2>7. more \ gone = ids /\ gone \subseteq more
    <3>1. c[from].id \notin gone
      BY <1>2, TidyNamed
    <3>2. QED
      BY <1>1, <2>1, <2>5, <3>1
  <2>8. NS!Vanished(as, bs, more \ gone)
    BY <1>7, <2>6, <2>7
  <2>9. Did(as, bs, gone, more)
    BY <2>7, <2>8 DEF Did
  <2>10. QED
    BY <1>7, <2>4, <2>9 DEF MovesTree
<1>10. CASE from # to /\ ~TakenAt(c, from, to)
  <2>1. to \notin RecordKeys(c) /\ ~Found(c, t) /\ more = gone
    BY <1>1, <1>5, <1>10, RecordKeysOf DEF TakenAt, Losing, Found
  <2>2. Swapped(c, e, from, to)
    BY <1>2, <1>4, <1>10, <2>1 DEF Swapped
  <2>3. ~NS!Under(s, t)
    <3>1. s # t
      BY <1>1, <1>10
    <3>2. QED
      BY <3>1
  <2>4. Swapped(c, e, KeyAt(c, s), KeyAt(c, t))
    BY <1>1, <2>2
  <2>5. Tree(e, ats) = Carried(Tree(c, ats), s, t) /\ t \in Present(e) /\ Shallow(e)
    BY <1>5, <2>1, <2>3, <2>4, TreeCarried
  <2>6. NS!Renamed(Tree(c, ats), Tree(e, ats))
    BY <2>1, <2>3, <2>5, TreeRenamed
  <2>7. NS!Renamed(as, bs)
    BY <1>7, <2>6
  <2>8. Did(as, bs, gone, more)
    BY <2>1, <2>7 DEF Did
  <2>9. QED
    BY <1>7, <2>5, <2>8 DEF MovesTree
<1>11. QED
  BY <1>8, <1>9, <1>10

(* A folder with another valence.                                          *)
LEMMA ValenceLike ==
  ASSUME NEW c, NEW k \in RecordKeys(c), c[k] \in RecTypes, NEW n \in Nat, NEW r,
         r = [c[k] EXCEPT !.valence = n], NEW e, k \in RecordKeys(e), e[k] = c[k]
  PROVE  LikeAt(e, k, r)
<1>1. r \in RecTypes /\ r.id = c[k].id /\ r.kind = c[k].kind
  BY ValenceTyped
<1>2. r.info = c[k].info
  BY CountersKeep
<1>3. QED
  BY <1>1, <1>2 DEF LikeAt

LEMMA NamesMove ==
  ASSUME IInv, CountInv, Shallow(Ahead.cat),
         NEW source \in Paths, NEW dest \in Paths, Move(source, dest)
  PROVE  NamesStep
<1>1. PICK from, to : from = KeyAt(cat, source) /\ to = KeyAt(cat, dest)
  OBVIOUS
<1>2. PICK rec : rec = cat[from]
  OBVIOUS
<1>3. PICK src : src = [RecordById(cat, from[1]) EXCEPT !.valence = Down(@)]
  OBVIOUS
<1>4. PICK dst : dst = [RecordById(cat, to[1]) EXCEPT !.valence = Up(@)]
  OBVIOUS
<1>5. /\ Idle /\ Found(cat, source) /\ FolderAt(cat, Front(dest)) # NoFolder
      /\ ~IsStrictPrefix(source, dest)
      /\ todo' = Relocation(rec, from, to) \o <<Update(src), Update(dst)>>
      /\ cat' = cat /\ attrs' = attrs /\ status' = status
      /\ lost' = lost \cup IF from # to /\ Found(cat, dest)
                           THEN {[id |-> rec.id, kind |-> rec.kind]} ELSE {}
  BY <1>1, <1>2, <1>3, <1>4 DEF Move
<1>6. Tidy(cat, LostIds, hdr.next) /\ hdr.next \in Nat
  BY <1>5, IdleTidy
<1>7. from \in RecordKeys(cat) /\ from # RootKey
  BY <1>1, <1>5, <1>6, FoundParts
<1>8. PICK i \in RecordKeys(cat) :
        RecordById(cat, from[1]) = cat[i] /\ cat[i] \in RecTypes /\ i # from
  BY <1>1, <1>5, <1>6, FoundParts
<1>9. to \in Keys /\ ~IsThread(to)
  BY <1>1, <1>5, <1>6, KeyAtKey
<1>10. to[1] = FolderAt(cat, Front(dest))
  BY <1>1, PathSeq, KeyAtParts
<1>11. PICK j \in RecordKeys(cat) :
         RecordById(cat, to[1]) = cat[j] /\ cat[j] \in RecTypes /\ j # from
  BY <1>1, <1>5, <1>6, <1>10, OutsideItself
<1>12. TakenAt(cat, from, to) <=> from # to /\ Found(cat, dest)
  BY <1>1 DEF TakenAt, Found
<1>13. PICK more : more = IF TakenAt(cat, from, to) THEN LostIds \cup {rec.id} ELSE LostIds
  OBVIOUS
<1>14. LostIds' = more /\ Losing(cat, LostIds, more, from, to)
  <2>1. CASE TakenAt(cat, from, to)
    <3>1. lost' = lost \cup {[id |-> rec.id, kind |-> rec.kind]}
      BY <1>5, <1>12, <2>1
    <3>2. LostIds' = LostIds \cup {rec.id}
      BY <3>1, LostOne
    <3>3. QED
      BY <1>2, <1>13, <2>1, <3>2 DEF Losing
  <2>2. CASE ~TakenAt(cat, from, to)
    <3>1. lost' = lost
      BY <1>5, <1>12, <2>2
    <3>2. LostIds' = LostIds
      BY <3>1, LostNone
    <3>3. QED
      BY <1>13, <2>2, <3>2 DEF Losing
  <2>3. QED
    BY <2>1, <2>2
<1>15. PICK e : Arrived(cat, attrs, e, from, to, more, hdr.next)
  BY <1>6, <1>7, <1>9, <1>14, MoveArrives
<1>16. /\ i \in RecordKeys(e) /\ e[i] = cat[i] /\ j \in RecordKeys(e) /\ e[j] = cat[j]
  <2>1. Transfers(cat, e, from, to)
    BY <1>7, <1>9, <1>15, ArrivedTransfers
  <2>2. QED
    BY <1>8, <1>11, <2>1 DEF Transfers
<1>17. LikeAt(e, i, src)
  <2>1. PICK n \in Nat : n = Down(cat[i].valence)
    BY <1>8, RecordParts, CountsTyped
  <2>2. src = [cat[i] EXCEPT !.valence = n]
    BY <1>3, <1>8, <2>1
  <2>3. QED
    BY <1>8, <1>16, <2>2, ValenceLike
<1>18. LikeAt(e, j, dst)
  <2>1. PICK n \in Nat : n = Up(cat[j].valence)
    BY <1>11, RecordParts, CountsTyped
  <2>2. dst = [cat[j] EXCEPT !.valence = n]
    BY <1>4, <1>11, <2>1
  <2>3. QED
    BY <1>11, <1>16, <2>2, ValenceLike
<1>19. Tidy(e, more, hdr.next)
  BY <1>15 DEF Arrived
<1>20. PICK f : TwoUpdated(e, attrs, f, src, dst)
  BY <1>17, <1>18, <1>19, TwoSame
<1>21. Tree(f, attrs) = Tree(e, attrs) /\ (Shallow(e) => Shallow(f))
  BY <1>19, <1>20, TreeSame DEF TwoUpdated
<1>22. Shallow(cat)
  BY <1>5, IdleView
<1>23. Fits(cat, source, dest)
  <2>1. ASSUME NEW p \in Paths, NS!Under(source, p), Found(cat, p)
        PROVE  Len(p) - Len(source) + Len(dest) <= MaxDepth
    <3>1. IsPrefix(source, p)
      BY <2>1, PathSeq, PrefixUnder
    <3>2. QED
      BY <2>1, <3>1 DEF Move
  <2>2. QED
    BY <2>1 DEF Fits
<1>24. source = dest \/ ~NS!Under(source, dest)
  <2>1. IsPrefix(source, dest) <=> NS!Under(source, dest)
    BY PathSeq, PrefixUnder
  <2>2. QED
    BY <1>5, <2>1 DEF IsStrictPrefix
<1>25. MovesTree(cat, attrs, e, LostIds, more)
  BY <1>1, <1>5, <1>6, <1>14, <1>15, <1>22, <1>23, <1>24, TreeMoved
<1>26. Did(Tree(cat, attrs), Tree(f, attrs), LostIds, more) /\ Shallow(f)
  BY <1>21, <1>25 DEF MovesTree
<1>27. After(State(cat', attrs'), todo') = State(f, attrs)
  <2>1. PICK st, t, v, w : /\ st = State(cat, attrs) /\ t = Relocation(rec, from, to)
                           /\ v = Update(src) /\ w = Update(dst)
    OBVIOUS
  <2>2. After(st, t) = State(e, attrs)
    BY <1>2, <1>15, <2>1 DEF Arrived
  <2>3. Listed(t) /\ Listed(<<v, w>>)
    BY <2>1, ListedFour, ListedTwo DEF Relocation
  <2>4. PICK u : u = <<v, w>>
    OBVIOUS
  <2>5. After(st, t \o u) = After(After(st, t), u)
    BY <2>3, <2>4, AfterJoin
  <2>6. PICK sv : sv = State(e, attrs)
    OBVIOUS
  <2>7. After(sv, <<v, w>>) = Done(Done(sv, v), w)
    BY AfterTwo
  <2>8. Done(Done(sv, v), w) = State(f, attrs)
    BY <1>20, <2>1, <2>6 DEF TwoUpdated
  <2>9. After(st, t \o u) = State(f, attrs)
    BY <2>2, <2>4, <2>5, <2>6, <2>7, <2>8
  <2>10. todo' = t \o u /\ cat' = cat /\ attrs' = attrs
    BY <1>5, <2>1, <2>4
  <2>11. QED
    BY <2>1, <2>9, <2>10
<1>28. more = LostIds'
  BY <1>14
<1>29. status' = status /\ Idle
  BY <1>5
<1>30. QED
  BY <1>26, <1>27, <1>28, <1>29, Promised

-----------------------------------------------------------------------------
LEMMA NamesOperation ==
  ASSUME IInv, CountInv, Shallow(Ahead.cat), Operation
  PROVE  NamesStep
<1>1. PICK path \in Paths :
        \/ NewFolder(path) \/ AddNewFile(path) \/ AddToFile(path) \/ RemoveEntry(path)
        \/ \E info \in Infos : ChangeInfo(path, info)
        \/ \E dest \in Paths : Move(path, dest)
        \/ \E a \in AttrNames : SetAttribute(path, a)
  BY DEF Operation
<1>2. QED
  BY <1>1, NamesNewFolder, NamesAddNewFile, NamesAddToFile, NamesRemoveEntry,
     NamesChangeInfo, NamesMove, NamesSetAttribute

LEMMA NamesNext ==
  ASSUME IInv, CountInv, Shallow(Ahead.cat), [Next]_vars
  PROVE  NamesStep
<1>1. CASE Write
  BY <1>1, NamesWrite
<1>2. CASE Operation
  BY <1>2, NamesOperation
<1>3. CASE Over
  BY <1>3, NamesStutter DEF Over
<1>4. CASE UNCHANGED vars
  BY <1>4, NamesStutter
<1>5. QED
  BY <1>1, <1>2, <1>3, <1>4 DEF Next

(* Every operation of catalog.c and xattr.c does to the tree of names what *)
(* it says and nothing else, wherever its writes may stop: newFolder and   *)
(* newFile bring one entry, removeFile takes one that has nothing under    *)
(* it, move takes all that is under an entry along, chmodFile, attrFile,   *)
(* chownFile and setAttribute change one entry.  Where a name is taken,    *)
(* what is moved to it is gone with all that is under it, and a folder     *)
(* that is made there never is.                                            *)
THEOREM CatalogImplementsNamespace == Spec => ImplementsNamespace
<1>1. Init => NS!NameInit /\ Shallow(Ahead.cat)
  BY NamesBegin
<1>2. IInv /\ CountInv /\ Shallow(Ahead.cat) /\ [Next]_vars =>
        [NS!Operate \/ NS!Stop]_(NS!nameVars) /\ Shallow(Ahead.cat)'
  BY NamesNext DEF NamesStep
<1>3. Spec => []IInv /\ []CountInv
  BY CatalogInductive, CountsInductive
<1>4. QED
  BY <1>1, <1>2, <1>3, PTL DEF Spec, ImplementsNamespace, NS!NameSpec
=============================================================================
