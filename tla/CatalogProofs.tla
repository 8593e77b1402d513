--------------------------- MODULE CatalogProofs ---------------------------
(***************************************************************************)
(* Proofs about Catalog.                                                   *)
(***************************************************************************)
EXTENDS Catalog, FiniteSetTheorems, SequenceTheorems, WellFoundedInduction, TLAPS

-----------------------------------------------------------------------------
(* Numbers.                                                                *)

(* A non-empty set of natural numbers has a least element.                 *)
LEMMA LeastNat ==
  ASSUME NEW T, T \subseteq Nat, T # {}
  PROVE  \E x \in T : \A y \in T : x <= y
<1> DEFINE Less == {p \in Nat \X Nat : p[1] < p[2]}
<1>1. IsWellFoundedOn(Less, Nat)
  BY Zenon, NatLessThanWellFounded DEF OpToRel
<1> HIDE DEF Less
<1>2. PICK x \in T : \A y \in T : ~ (<<y, x>> \in Less)
  BY <1>1, WFMin
<1>3. \A y \in T : ~ (y < x)
  BY <1>2 DEF Less
<1>4. QED
  BY <1>3

(***************************************************************************)
(* Catalogs.                                                               *)

Keys     == (Nat \ {NoFolder}) \X (Names \cup {Volume, NoName})
RecTypes == [kind : {"file", "folder"}, id : Nat, valence : Nat, folders : Nat,
             info : Infos]

(* Records and threads name each other, except that the threads of IDs in  *)
(* `gone` may name anything; every ID is below `next`.                     *)
Paired(c, k, gone) ==
  /\ c[k] \in RecTypes /\ c[k].id \notin gone
  /\ ThreadKey(c[k].id) \in DOMAIN c
  /\ c[ThreadKey(c[k].id)] = Thread(c[k].kind, k)

Held(c, id) == \E k \in RecordKeys(c) : c[k].id = id

Rooted(c) == /\ RootKey \in DOMAIN c
             /\ c[RootKey].id = kHFSRootFolderID /\ c[RootKey].kind = "folder"

Tidy(c, gone, next) ==
  /\ DOMAIN c \subseteq Keys
  /\ \A k \in RecordKeys(c) : Paired(c, k, gone)
  /\ \A k \in DOMAIN c : IsThread(k) => k[1] < next /\ (k[1] \notin gone => Held(c, k[1]))
  /\ Rooted(c)

(* Whole and Ids of any catalog.                                           *)
IdsIn(c) == {c[k].id : k \in RecordKeys(c)} \cup {k[1] : k \in {l \in DOMAIN c : IsThread(l)}}
WholeIn(c, id) ==
  \E k \in RecordKeys(c) :
    /\ \A l \in RecordKeys(c) : c[l].id = id <=> l = k
    /\ ThreadKey(id) \in DOMAIN c
    /\ c[ThreadKey(id)] = Thread(c[k].kind, k)

(***************************************************************************)
(* Writes to come.  What they do is said of a catalog c, and of the writes *)
(* of t from number m on.                                                  *)

HasThread(c, attr) == ThreadKey(attr[1]) \in DOMAIN c
AllOwned(as, c)    == \A attr \in as : HasThread(c, attr)

(* A record that is written again keeps its ID and kind.                   *)
Rewrites(c, rec) ==
  /\ rec \in RecTypes
  /\ \E k \in RecordKeys(c) : c[k].id = rec.id /\ c[k].kind = rec.kind

(* A write that leaves keys, IDs and kinds alone.                          *)
Settles(c, w) ==
  \/ w.do \in {"save", "uncount", "unset"}
  \/ w.do = "set" /\ w.attr \in Nat \X Nat /\ HasThread(c, w.attr)
  \/ w.do = "update" /\ Rewrites(c, w.rec)

Settling(c, t, m) == \A i \in m .. Len(t) : Settles(c, t[i])

(* Without the record at `key` and its thread.                             *)
Cleared(c, key, id) == Without(Without(c, key), ThreadKey(id))

RemovingAt(c, t, m, p) ==
  /\ p + 2 <= Len(t)
  /\ \A i \in m .. p - 1 : Settles(c, t[i])
  /\ t[p].do = "drop" /\ t[p].key \in RecordKeys(c) /\ t[p].key # RootKey
  /\ t[p + 1] = Strip(c[t[p].key].id)
  /\ t[p + 2] = Drop(ThreadKey(c[t[p].key].id))
  /\ Settling(Cleared(c, t[p].key, c[t[p].key].id), t, p + 3)

Rest(c, t, m) == Settling(c, t, m) \/ \E p \in m .. Len(t) : RemovingAt(c, t, m, p)

(* The catalog with what the m-th and the next write put there.            *)
Put1(c, t, m) == Added(c, t[m].key, t[m].rec)
Put2(c, t, m) == Put1(Put1(c, t, m), t, m + 1)

Adding(c, as, gone, next, t, m) ==
  /\ m < Len(t)
  /\ t[m].do = "put" /\ t[m].key \in Keys /\ ~IsThread(t[m].key)
  /\ t[m].rec \in RecTypes
  /\ t[m + 1].do = "put" /\ t[m + 1].key = ThreadKey(t[m].rec.id)
  /\ t[m + 1].key \notin DOMAIN c
  /\ LET f == Put2(c, t, m)
     IN  /\ Tidy(f, gone, next) /\ AllOwned(as, f)
         /\ Settling(f, t, m + 2)

(***************************************************************************)
(* The catalog in each part of an operation.                               *)

(* Records are written again, attributes come and go, an entry will go.    *)
Resting == Tidy(cat, LostIds, hdr.next) /\ AllOwned(attrs, cat) /\ Rest(cat, todo, 1)

(* A record and its thread will come.                                      *)
Coming == /\ Tidy(cat, LostIds, hdr.next)
          /\ Adding(cat, attrs, LostIds, hdr.next, todo, 1)

(* One key is missing, which the next write puts there.                    *)
Filling ==
  /\ todo # <<>> /\ todo[1].do = "put" /\ todo[1].key \notin DOMAIN cat
  /\ LET f == Put1(cat, todo, 1)
     IN  /\ Tidy(f, LostIds, hdr.next) /\ AllOwned(attrs, f)
         /\ Rest(f, todo, 2)

(* The record has gone; its attributes and its thread follow.              *)
ClearingAt(id, p) ==
  LET c == Without(cat, ThreadKey(id))
  IN  /\ todo[p] = Drop(ThreadKey(id)) /\ ThreadKey(id) \in DOMAIN cat
      /\ Tidy(c, LostIds, hdr.next)
      /\ \A i \in 1 .. p - 1 : todo[i] = Strip(id) \/ todo[i].do = "unset"
      /\ \A attr \in attrs : HasThread(c, attr) \/
           (attr[1] = id /\ \E i \in 1 .. p - 1 :
                              todo[i] = Strip(id) \/ todo[i] = Unset(attr))
      /\ Settling(c, todo, p + 1)

Clearing == \E p \in 1 .. Len(todo) : \E id \in IdsIn(cat) : ClearingAt(id, p)

(* The record has gone; its thread follows, and both come at another key.  *)
Crossing ==
  /\ todo # <<>> /\ todo[1].do = "drop"
  /\ todo[1].key \in DOMAIN cat /\ todo[1].key = ThreadKey(todo[1].key[1])
  /\ LET c == Without(cat, todo[1].key)
     IN  /\ Tidy(c, LostIds, hdr.next)
         /\ Adding(c, attrs, LostIds, hdr.next, todo, 2)

(* A record will be moved.                                                 *)
Departing ==
  /\ 2 <= Len(todo)
  /\ todo[1].do = "drop" /\ todo[1].key \in RecordKeys(cat) /\ todo[1].key # RootKey
  /\ LET id == cat[todo[1].key].id
         c  == Cleared(cat, todo[1].key, id)
     IN  /\ todo[2] = Drop(ThreadKey(id))
         /\ Tidy(cat, LostIds \ {id}, hdr.next)
         /\ Tidy(c, LostIds, hdr.next)
         /\ Adding(c, attrs, LostIds, hdr.next, todo, 3)

Listed(t) == \E S : t \in Seq(S)

Shapes ==
  /\ Listed(todo)
  /\ hdr \in [next : Nat, files : Nat, folders : Nat]
  /\ attrs \subseteq Nat \X Nat /\ IsFiniteSet(attrs)
  /\ \A id \in LostIds : id \in Nat /\ id < hdr.next
  /\ status = "exited" => todo = <<>>

IInv == Shapes /\ (Resting \/ Coming \/ Filling \/ Clearing \/ Crossing \/ Departing)
-----------------------------------------------------------------------------
(* Keys, threads and the two ways to change a catalog.                     *)

LEMMA ThreadKeyParts ==
  ASSUME NEW id
  PROVE  ThreadKey(id)[1] = id /\ ThreadKey(id)[2] = NoName /\ IsThread(ThreadKey(id))
  BY DEF ThreadKey, IsThread

LEMMA ThreadKeyOne ==
  ASSUME NEW id, NEW jd, ThreadKey(id) = ThreadKey(jd)
  PROVE  id = jd
  BY ThreadKeyParts

LEMMA KeyPair ==
  ASSUME NEW k \in Keys
  PROVE  /\ k[1] \in Nat /\ k[1] # NoFolder /\ k[2] \in Names \cup {Volume, NoName}
         /\ k = <<k[1], k[2]>>
  BY DEF Keys

LEMMA ThreadIsKey ==
  ASSUME NEW k \in Keys, IsThread(k)
  PROVE  k = ThreadKey(k[1])
  BY KeyPair DEF ThreadKey, IsThread

LEMMA ThreadParts ==
  ASSUME NEW kind, NEW k
  PROVE  /\ Thread(kind, k).of = kind
         /\ Thread(kind, k).parent = k[1] /\ Thread(kind, k).name = k[2]
  BY DEF Thread

LEMMA WithoutDomain ==
  ASSUME NEW c, NEW key
  PROVE  DOMAIN Without(c, key) = DOMAIN c \ {key}
  BY DEF Without

LEMMA WithoutAt ==
  ASSUME NEW c, NEW key, NEW k \in DOMAIN c, k # key
  PROVE  Without(c, key)[k] = c[k]
  BY DEF Without

LEMMA AddedDomain ==
  ASSUME NEW c, NEW key, NEW rec
  PROVE  DOMAIN Added(c, key, rec) = DOMAIN c \cup {key}
  BY DEF Added

LEMMA AddedOld ==
  ASSUME NEW c, NEW key, NEW rec, NEW k \in DOMAIN c
  PROVE  Added(c, key, rec)[k] = c[k]
  BY DEF Added

LEMMA AddedNew ==
  ASSUME NEW c, NEW key, NEW rec, key \notin DOMAIN c
  PROVE  Added(c, key, rec)[key] = rec
  BY DEF Added

LEMMA RecordKeysOf ==
  ASSUME NEW c, NEW k
  PROVE  k \in RecordKeys(c) <=> k \in DOMAIN c /\ ~IsThread(k)
  BY DEF RecordKeys

-----------------------------------------------------------------------------
(* Tidy catalogs.                                                          *)

LEMMA RecordParts ==
  ASSUME NEW rec \in RecTypes
  PROVE  /\ rec.kind \in {"file", "folder"} /\ rec.id \in Nat
         /\ rec.valence \in Nat /\ rec.folders \in Nat /\ rec.info \in Infos
  BY DEF RecTypes

(* The thread of a record leads to it.                                     *)
LEMMA TidyNamed ==
  ASSUME NEW c, NEW gone, NEW next, Tidy(c, gone, next), NEW k \in RecordKeys(c)
  PROVE  /\ Named(c, c[k].id) = k /\ RecordById(c, c[k].id) = c[k]
         /\ k \in Keys /\ k \in DOMAIN c /\ ~IsThread(k)
         /\ c[k] \in RecTypes /\ c[k].id \in Nat /\ c[k].id \notin gone
         /\ ThreadKey(c[k].id) \in DOMAIN c
         /\ c[ThreadKey(c[k].id)] = Thread(c[k].kind, k)
<1>1. k \in Keys /\ k \in DOMAIN c /\ ~IsThread(k) /\ Paired(c, k, gone)
  BY RecordKeysOf DEF Tidy
<1>2. /\ c[k] \in RecTypes /\ c[k].id \notin gone
      /\ ThreadKey(c[k].id) \in DOMAIN c
      /\ c[ThreadKey(c[k].id)] = Thread(c[k].kind, k)
  BY <1>1 DEF Paired
<1>3. c[k].id \in Nat
  BY <1>2, RecordParts
<1>4. Named(c, c[k].id) = <<k[1], k[2]>>
  BY <1>2, ThreadParts DEF Named
<1>5. Named(c, c[k].id) = k
  BY <1>1, <1>4, KeyPair
<1>6. QED
  BY <1>1, <1>2, <1>3, <1>5 DEF RecordById

(* An ID has one record.                                                   *)
LEMMA TidyOne ==
  ASSUME NEW c, NEW gone, NEW next, Tidy(c, gone, next),
         NEW k \in RecordKeys(c), NEW l \in RecordKeys(c), c[k].id = c[l].id
  PROVE  k = l
  BY TidyNamed

LEMMA TidyThread ==
  ASSUME NEW c, NEW gone, NEW next, Tidy(c, gone, next), NEW k \in DOMAIN c, IsThread(k)
  PROVE  /\ k \in Keys /\ k = ThreadKey(k[1]) /\ k[1] \in Nat /\ k[1] < next
         /\ k[1] \notin gone => Held(c, k[1])
<1>1. k \in Keys /\ k[1] < next /\ (k[1] \notin gone => Held(c, k[1]))
  BY DEF Tidy
<1>2. QED
  BY <1>1, KeyPair, ThreadIsKey

LEMMA TidyWhole ==
  ASSUME NEW c, NEW gone, NEW next, Tidy(c, gone, next), NEW id \in IdsIn(c), id \notin gone
  PROVE  WholeIn(c, id)
<1>1. Held(c, id)
  <2>1. CASE \E k \in RecordKeys(c) : c[k].id = id
    BY <2>1 DEF Held
  <2>2. CASE \E k \in DOMAIN c : IsThread(k) /\ k[1] = id
    BY <2>2, TidyThread
  <2>3. QED
    BY <2>1, <2>2 DEF IdsIn
<1>2. PICK k \in RecordKeys(c) : c[k].id = id
  BY <1>1 DEF Held
<1>3. \A l \in RecordKeys(c) : c[l].id = id <=> l = k
  BY <1>2, TidyOne
<1>4. ThreadKey(id) \in DOMAIN c /\ c[ThreadKey(id)] = Thread(c[k].kind, k)
  BY <1>2, TidyNamed
<1>5. QED
  BY <1>3, <1>4 DEF WholeIn

(* More lost IDs and more IDs given out.                                   *)
LEMMA TidyWiden ==
  ASSUME NEW c, NEW gone, NEW next \in Nat, Tidy(c, gone, next),
         NEW more, NEW after \in Nat, gone \subseteq more, next <= after,
         \A k \in RecordKeys(c) : c[k].id \notin more
  PROVE  Tidy(c, more, after)
<1>1. \A k \in RecordKeys(c) : Paired(c, k, more)
  BY DEF Tidy, Paired
<1>2. ASSUME NEW k \in DOMAIN c, IsThread(k)
      PROVE  k[1] < after /\ (k[1] \notin more => Held(c, k[1]))
  <2>1. k[1] \in Nat /\ k[1] < next /\ (k[1] \notin gone => Held(c, k[1]))
    BY <1>2, TidyThread
  <2>2. QED
    BY <2>1
<1>3. QED
  BY <1>1, <1>2 DEF Tidy

LEMMA TidyRoot ==
  ASSUME NEW c, NEW gone, NEW next, Tidy(c, gone, next)
  PROVE  /\ RootKey \in RecordKeys(c)
         /\ c[RootKey].id = kHFSRootFolderID /\ c[RootKey].kind = "folder"
<1>1. ~IsThread(RootKey)
  BY NamesAssumption DEF IsThread, RootKey
<1>2. QED
  BY <1>1, RecordKeysOf DEF Tidy, Rooted

(* The same keys, IDs and kinds.                                           *)
Alike(c, f) ==
  /\ DOMAIN f = DOMAIN c
  /\ \A k \in RecordKeys(c) : f[k].id = c[k].id /\ f[k].kind = c[k].kind

(* A record is written again.                                              *)
LEMMA TidyRewrite ==
  ASSUME NEW c, NEW gone, NEW next, Tidy(c, gone, next),
         NEW k \in RecordKeys(c), NEW rec \in RecTypes,
         rec.id = c[k].id, rec.kind = c[k].kind
  PROVE  LET d == Without(c, k)
             f == Added(d, k, rec)
         IN  k \notin DOMAIN d /\ Alike(c, f) /\ Tidy(f, gone, next)
<1> DEFINE d == Without(c, k)
           f == Added(d, k, rec)
<1>1. k \in DOMAIN c /\ ~IsThread(k)
  BY RecordKeysOf
<1>2. DOMAIN d = DOMAIN c \ {k} /\ \A l \in DOMAIN c : l # k => d[l] = c[l]
  BY WithoutDomain, WithoutAt
<1> HIDE DEF d
<1>3. /\ DOMAIN f = DOMAIN d \cup {k}
      /\ \A l \in DOMAIN d : f[l] = d[l]
      /\ k \notin DOMAIN d => f[k] = rec
  <2>1. DOMAIN f = DOMAIN d \cup {k}
    BY AddedDomain
  <2>2. \A l \in DOMAIN d : f[l] = d[l]
    BY AddedOld
  <2>3. k \notin DOMAIN d => f[k] = rec
    BY AddedNew
  <2>4. QED
    BY <2>1, <2>2, <2>3
<1> HIDE DEF f
<1>4. k \notin DOMAIN d /\ DOMAIN f = DOMAIN c
  BY <1>1, <1>2, <1>3
<1>5. f[k] = rec
  BY <1>3, <1>4
<1>6. ASSUME NEW l \in DOMAIN c, l # k PROVE f[l] = c[l]
  BY <1>2, <1>3, <1>6
<1>7. RecordKeys(f) = RecordKeys(c)
  BY <1>4 DEF RecordKeys
<1>8. Alike(c, f)
  BY <1>4, <1>5, <1>6, RecordKeysOf DEF Alike
<1>9. DOMAIN f \subseteq Keys
  BY <1>4 DEF Tidy
<1>10. ASSUME NEW l \in RecordKeys(f) PROVE Paired(f, l, gone)
  <2>1. l \in RecordKeys(c)
    BY <1>7
  <2>2. /\ c[l] \in RecTypes /\ c[l].id \notin gone
        /\ ThreadKey(c[l].id) \in DOMAIN c
        /\ c[ThreadKey(c[l].id)] = Thread(c[l].kind, l) /\ l \in DOMAIN c
    BY <2>1, TidyNamed
  <2>3. f[l].id = c[l].id /\ f[l].kind = c[l].kind
    BY <1>8, <2>1 DEF Alike
  <2>4. f[l] \in RecTypes
    BY <1>5, <1>6, <2>2
  <2>5. ThreadKey(c[l].id) # k
    BY <1>1, ThreadKeyParts
  <2>6. f[ThreadKey(c[l].id)] = c[ThreadKey(c[l].id)]
    BY <1>6, <2>2, <2>5
  <2>7. QED
    BY <1>4, <2>2, <2>3, <2>4, <2>6 DEF Paired
<1>11. ASSUME NEW l \in DOMAIN f, IsThread(l)
      PROVE  l[1] < next /\ (l[1] \notin gone => Held(f, l[1]))
  <2>1. l[1] < next /\ (l[1] \notin gone => Held(c, l[1]))
    BY <1>4, <1>11 DEF Tidy
  <2>2. Held(c, l[1]) => Held(f, l[1])
    BY <1>7, <1>8 DEF Held, Alike
  <2>3. QED
    BY <2>1, <2>2
<1>12. Rooted(f)
  <2>1. RootKey \in RecordKeys(c) /\ RootKey \in DOMAIN c
    BY RecordKeysOf, TidyRoot
  <2>2. f[RootKey].id = c[RootKey].id /\ f[RootKey].kind = c[RootKey].kind
    BY <1>8, <2>1 DEF Alike
  <2>3. QED
    BY <1>4, <2>1, <2>2, TidyRoot DEF Rooted
<1>13. Tidy(f, gone, next)
  BY <1>9, <1>10, <1>11, <1>12 DEF Tidy
<1>14. QED
  BY <1>4, <1>8, <1>13 DEF d, f

LEMMA ClearedDomain ==
  ASSUME NEW c, NEW key, NEW id
  PROVE  DOMAIN Cleared(c, key, id) = DOMAIN c \ {key, ThreadKey(id)}
<1>1. DOMAIN Without(c, key) = DOMAIN c \ {key}
  BY WithoutDomain
<1>2. DOMAIN Cleared(c, key, id) = DOMAIN Without(c, key) \ {ThreadKey(id)}
  BY WithoutDomain DEF Cleared
<1>3. QED
  BY <1>1, <1>2

LEMMA ClearedAt ==
  ASSUME NEW c, NEW key, NEW id, NEW k \in DOMAIN c, k # key, k # ThreadKey(id)
  PROVE  Cleared(c, key, id)[k] = c[k]
<1>1. k \in DOMAIN Without(c, key) /\ Without(c, key)[k] = c[k]
  BY WithoutDomain, WithoutAt
<1>2. Cleared(c, key, id)[k] = Without(c, key)[k]
  BY <1>1, WithoutAt DEF Cleared
<1>3. QED
  BY <1>1, <1>2

(* A record and its thread are taken away.                                 *)
LEMMA TidyClear ==
  ASSUME NEW c, NEW gone, NEW next, Tidy(c, gone, next),
         NEW k \in RecordKeys(c), k # RootKey
  PROVE  LET d == Cleared(c, k, c[k].id)
         IN  /\ Tidy(d, gone, next)
             /\ \A l \in RecordKeys(d) : l \in RecordKeys(c) /\ d[l] = c[l] /\ l # k
                                         /\ d[l].id # c[k].id
             /\ \A l \in RecordKeys(c) : l # k => l \in RecordKeys(d) /\ d[l] = c[l]
<1> DEFINE d == Cleared(c, k, c[k].id)
           tk == ThreadKey(c[k].id)
<1>1. k \in DOMAIN c /\ ~IsThread(k) /\ IsThread(tk) /\ tk[1] = c[k].id
  BY RecordKeysOf, ThreadKeyParts
<1>2. /\ DOMAIN d = DOMAIN c \ {k, tk}
      /\ \A l \in DOMAIN c : l # k /\ l # tk => d[l] = c[l]
  <2>1. DOMAIN d = DOMAIN c \ {k, tk}
    BY ClearedDomain
  <2>2. ASSUME NEW l \in DOMAIN c, l # k, l # tk PROVE d[l] = c[l]
    BY <2>2, ClearedAt
  <2>3. QED
    BY <2>1, <2>2
<1>3. DOMAIN d = DOMAIN c \ {k, tk}
  BY <1>2
<1>4. \A l \in DOMAIN d : l \in DOMAIN c /\ d[l] = c[l]
  BY <1>2, <1>3
<1> HIDE DEF d, tk
<1>5. ASSUME NEW l \in RecordKeys(d)
      PROVE  l \in RecordKeys(c) /\ d[l] = c[l] /\ l # k /\ d[l].id # c[k].id
  <2>1. l \in RecordKeys(c) /\ d[l] = c[l] /\ l # k
    BY <1>3, <1>4, RecordKeysOf
  <2>2. c[l].id # c[k].id
    BY <2>1, TidyOne
  <2>3. QED
    BY <2>1, <2>2
<1>6. ASSUME NEW l \in RecordKeys(c), l # k PROVE l \in RecordKeys(d) /\ d[l] = c[l]
  <2>1. l \in DOMAIN d /\ ~IsThread(l)
    BY <1>1, <1>3, <1>6, RecordKeysOf
  <2>2. QED
    BY <1>4, <2>1, RecordKeysOf
<1>7. DOMAIN d \subseteq Keys
  BY <1>3 DEF Tidy
<1>8. ASSUME NEW l \in RecordKeys(d) PROVE Paired(d, l, gone)
  <2>1. l \in RecordKeys(c) /\ d[l] = c[l] /\ c[l].id # c[k].id
    BY <1>5
  <2>2. /\ c[l] \in RecTypes /\ c[l].id \notin gone
        /\ ThreadKey(c[l].id) \in DOMAIN c
        /\ c[ThreadKey(c[l].id)] = Thread(c[l].kind, l)
    BY <2>1, TidyNamed
  <2>3. ThreadKey(c[l].id) # tk /\ ThreadKey(c[l].id) # k
    BY <1>1, <2>1, ThreadKeyParts
  <2>4. ThreadKey(c[l].id) \in DOMAIN d
    BY <1>3, <2>2, <2>3
  <2>5. QED
    BY <1>4, <2>1, <2>2, <2>4 DEF Paired
<1>9. ASSUME NEW l \in DOMAIN d, IsThread(l)
      PROVE  l[1] < next /\ (l[1] \notin gone => Held(d, l[1]))
  <2>1. l \in DOMAIN c /\ l # tk
    BY <1>3
  <2>2. l = ThreadKey(l[1]) /\ l[1] < next /\ (l[1] \notin gone => Held(c, l[1]))
    BY <1>9, <2>1, TidyThread
  <2>3. l[1] # c[k].id
    BY <2>1, <2>2 DEF tk
  <2>4. ASSUME Held(c, l[1]) PROVE Held(d, l[1])
    <3>1. PICK j \in RecordKeys(c) : c[j].id = l[1]
      BY <2>4 DEF Held
    <3>2. j # k
      BY <2>3, <3>1
    <3>3. QED
      BY <1>6, <3>1, <3>2 DEF Held
  <2>5. QED
    BY <2>2, <2>4
<1>10. Rooted(d)
  BY <1>6, RecordKeysOf, TidyRoot DEF Rooted
<1>11. Tidy(d, gone, next)
  BY <1>7, <1>8, <1>9, <1>10 DEF Tidy
<1>12. QED
  BY <1>5, <1>6, <1>11 DEF d

(* A record and its thread come.                                           *)
LEMMA TidyPlace ==
  ASSUME NEW c, NEW gone, NEW next \in Nat, Tidy(c, gone, next),
         NEW key \in Keys, ~IsThread(key),
         NEW rec \in RecTypes, rec.id # NoFolder, rec.id < next,
         ThreadKey(rec.id) \notin DOMAIN c,
         key \in DOMAIN c <=> rec.id \in gone
  PROVE  LET f == Added(Added(c, key, rec), ThreadKey(rec.id), Thread(rec.kind, key))
         IN  /\ Tidy(f, gone, next)
             /\ DOMAIN f = DOMAIN c \cup {key, ThreadKey(rec.id)}
             /\ \A l \in DOMAIN c : f[l] = c[l]
             /\ key \notin DOMAIN c => f[key] = rec
<1> DEFINE d  == Added(c, key, rec)
           tk == ThreadKey(rec.id)
           th == Thread(rec.kind, key)
           f  == Added(d, tk, th)
<1>1. rec.id \in Nat /\ IsThread(tk) /\ tk[1] = rec.id /\ tk = ThreadKey(rec.id)
  BY RecordParts, ThreadKeyParts
<1>2. tk \in Keys
  BY <1>1 DEF Keys, tk, ThreadKey
<1>3. /\ DOMAIN d = DOMAIN c \cup {key}
      /\ \A l \in DOMAIN c : d[l] = c[l]
      /\ key \notin DOMAIN c => d[key] = rec
  <2>1. DOMAIN d = DOMAIN c \cup {key}
    BY AddedDomain
  <2>2. \A l \in DOMAIN c : d[l] = c[l]
    BY AddedOld
  <2>3. key \notin DOMAIN c => d[key] = rec
    BY AddedNew
  <2>4. QED
    BY <2>1, <2>2, <2>3
<1>4. th = Thread(rec.kind, key) /\ tk \notin DOMAIN c
  OBVIOUS
<1> HIDE DEF d, tk, th
<1>5. /\ DOMAIN f = DOMAIN d \cup {tk}
      /\ \A l \in DOMAIN d : f[l] = d[l]
      /\ tk \notin DOMAIN d => f[tk] = th
  <2>1. DOMAIN f = DOMAIN d \cup {tk}
    BY AddedDomain
  <2>2. \A l \in DOMAIN d : f[l] = d[l]
    BY AddedOld
  <2>3. tk \notin DOMAIN d => f[tk] = th
    BY AddedNew
  <2>4. QED
    BY <2>1, <2>2, <2>3
<1> HIDE DEF f
<1>6. tk # key
  BY <1>1
<1>7. DOMAIN f = DOMAIN c \cup {key, tk}
  BY <1>3, <1>5
<1>8. \A l \in DOMAIN c : f[l] = c[l]
  BY <1>3, <1>5
<1>9. key \notin DOMAIN c => f[key] = rec
  BY <1>3, <1>5
<1>10. f[tk] = th
  BY <1>3, <1>4, <1>5, <1>6
<1>11. \A l \in RecordKeys(f) : l \in RecordKeys(c) \/ (l = key /\ key \notin DOMAIN c)
  BY <1>1, <1>7, RecordKeysOf
<1>12. \A l \in RecordKeys(c) : l \in RecordKeys(f) /\ f[l] = c[l]
  BY <1>7, <1>8, RecordKeysOf
<1>13. DOMAIN f \subseteq Keys
  BY <1>2, <1>7 DEF Tidy
<1>14. ASSUME NEW l \in RecordKeys(f) PROVE Paired(f, l, gone)
  <2>1. CASE l \in RecordKeys(c)
    <3>1. /\ c[l] \in RecTypes /\ c[l].id \notin gone
          /\ ThreadKey(c[l].id) \in DOMAIN c
          /\ c[ThreadKey(c[l].id)] = Thread(c[l].kind, l) /\ l \in DOMAIN c
      BY <2>1, TidyNamed
    <3>2. f[l] = c[l] /\ f[ThreadKey(c[l].id)] = c[ThreadKey(c[l].id)]
      BY <1>8, <3>1
    <3>3. QED
      BY <1>7, <3>1, <3>2 DEF Paired
  <2>2. CASE l = key /\ key \notin DOMAIN c
    <3>1. f[l] = rec /\ rec.id \notin gone /\ f[ThreadKey(rec.id)] = Thread(rec.kind, key)
      BY <1>1, <1>4, <1>9, <1>10, <2>2
    <3>2. QED
      BY <1>1, <1>7, <2>2, <3>1 DEF Paired
  <2>3. QED
    BY <1>11, <2>1, <2>2
<1>15. ASSUME NEW l \in DOMAIN f, IsThread(l)
       PROVE  l[1] < next /\ (l[1] \notin gone => Held(f, l[1]))
  <2>1. CASE l \in DOMAIN c
    <3>1. l[1] < next /\ (l[1] \notin gone => Held(c, l[1]))
      BY <1>15, <2>1, TidyThread
    <3>2. Held(c, l[1]) => Held(f, l[1])
      BY <1>12 DEF Held
    <3>3. QED
      BY <3>1, <3>2
  <2>2. CASE l = tk
    <3>1. l[1] = rec.id
      BY <1>1, <2>2
    <3>2. ASSUME rec.id \notin gone PROVE Held(f, rec.id)
      <4>1. key \in RecordKeys(f) /\ f[key] = rec
        BY <1>7, <1>9, <3>2, RecordKeysOf
      <4>2. QED
        BY <4>1 DEF Held
    <3>3. QED
      BY <3>1, <3>2
  <2>3. QED
    BY <1>7, <1>15, <2>1, <2>2
<1>16. Rooted(f)
  BY <1>12, RecordKeysOf, TidyRoot DEF Rooted
<1>17. Tidy(f, gone, next)
  BY <1>13, <1>14, <1>15, <1>16 DEF Tidy
<1>18. QED
  BY <1>7, <1>8, <1>9, <1>17 DEF f, d, tk, th

-----------------------------------------------------------------------------
(* What is whole while a key is missing, or a thread is left over.         *)

LEMMA WholeWhileFilling ==
  ASSUME NEW c, NEW key, NEW rec, NEW gone, NEW next, key \notin DOMAIN c,
         Tidy(Added(c, key, rec), gone, next),
         NEW id \in IdsIn(c), id \notin gone,
         id # (IF IsThread(key) THEN key[1] ELSE rec.id)
  PROVE  WholeIn(c, id)
<1> DEFINE f == Added(c, key, rec)
<1>1. /\ DOMAIN f = DOMAIN c \cup {key}
      /\ \A k \in DOMAIN c : f[k] = c[k]
      /\ f[key] = rec
  <2>1. DOMAIN f = DOMAIN c \cup {key}
    BY AddedDomain
  <2>2. \A k \in DOMAIN c : f[k] = c[k]
    BY AddedOld
  <2>3. f[key] = rec
    BY AddedNew
  <2>4. QED
    BY <2>1, <2>2, <2>3
<1>2. Tidy(f, gone, next)
  OBVIOUS
<1> HIDE DEF f
<1>3. \A k \in RecordKeys(c) : k \in RecordKeys(f) /\ f[k] = c[k]
  BY <1>1, RecordKeysOf
<1>4. id \in IdsIn(f)
  <2>1. CASE \E k \in RecordKeys(c) : c[k].id = id
    BY <1>3, <2>1 DEF IdsIn
  <2>2. CASE \E k \in DOMAIN c : IsThread(k) /\ k[1] = id
    BY <1>1, <2>2 DEF IdsIn
  <2>3. QED
    BY <2>1, <2>2 DEF IdsIn
<1>5. WholeIn(f, id)
  BY <1>2, <1>4, TidyWhole
<1>6. PICK k \in RecordKeys(f) :
        /\ \A l \in RecordKeys(f) : f[l].id = id <=> l = k
        /\ ThreadKey(id) \in DOMAIN f
        /\ f[ThreadKey(id)] = Thread(f[k].kind, k)
  BY <1>5 DEF WholeIn
<1>7. k # key
  <2>1. SUFFICES ASSUME k = key PROVE FALSE
    OBVIOUS
  <2>2. ~IsThread(key) /\ f[key].id = id
    BY <1>6, <2>1, RecordKeysOf
  <2>3. QED
    BY <1>1, <2>2
<1>8. k \in RecordKeys(c)
  BY <1>1, <1>6, <1>7, RecordKeysOf
<1>9. ThreadKey(id) # key
  BY ThreadKeyParts
<1>10. ThreadKey(id) \in DOMAIN c
  BY <1>1, <1>6, <1>9
<1>11. c[ThreadKey(id)] = Thread(c[k].kind, k)
  BY <1>1, <1>3, <1>6, <1>8, <1>10
<1>12. \A l \in RecordKeys(c) : c[l].id = id <=> l = k
  BY <1>3, <1>6
<1>13. QED
  BY <1>8, <1>10, <1>11, <1>12 DEF WholeIn

LEMMA WholeWhileClearing ==
  ASSUME NEW c, NEW jd, NEW gone, NEW next,
         Tidy(Without(c, ThreadKey(jd)), gone, next),
         NEW id \in IdsIn(c), id \notin gone, id # jd
  PROVE  WholeIn(c, id)
<1> DEFINE tk == ThreadKey(jd)
           d  == Without(c, tk)
<1>1. IsThread(tk) /\ tk[1] = jd /\ tk = ThreadKey(jd)
  BY ThreadKeyParts
<1>2. Tidy(d, gone, next)
  OBVIOUS
<1> HIDE DEF tk
<1>3. DOMAIN d = DOMAIN c \ {tk} /\ \A k \in DOMAIN c : k # tk => d[k] = c[k]
  BY WithoutDomain, WithoutAt
<1> HIDE DEF d
<1>4. RecordKeys(d) = RecordKeys(c) /\ \A k \in RecordKeys(c) : d[k] = c[k]
  BY <1>1, <1>3, RecordKeysOf DEF RecordKeys
<1>5. id \in IdsIn(d)
  <2>1. CASE \E k \in RecordKeys(c) : c[k].id = id
    BY <1>4, <2>1 DEF IdsIn
  <2>2. CASE \E k \in DOMAIN c : IsThread(k) /\ k[1] = id
    BY <1>1, <1>3, <2>2 DEF IdsIn
  <2>3. QED
    BY <2>1, <2>2 DEF IdsIn
<1>6. WholeIn(d, id)
  BY <1>2, <1>5, TidyWhole
<1>7. PICK k \in RecordKeys(d) :
        /\ \A l \in RecordKeys(d) : d[l].id = id <=> l = k
        /\ ThreadKey(id) \in DOMAIN d
        /\ d[ThreadKey(id)] = Thread(d[k].kind, k)
  BY <1>6 DEF WholeIn
<1>8. ThreadKey(id) \in DOMAIN c /\ c[ThreadKey(id)] = Thread(c[k].kind, k)
  BY <1>3, <1>4, <1>7
<1>9. \A l \in RecordKeys(c) : c[l].id = id <=> l = k
  BY <1>4, <1>7
<1>10. QED
  BY <1>4, <1>7, <1>8, <1>9 DEF WholeIn

-----------------------------------------------------------------------------
(* Writes to come depend on keys, IDs and kinds alone.                     *)

LEMMA AlikeSettles ==
  ASSUME NEW c, NEW f, Alike(c, f), NEW w, Settles(c, w)
  PROVE  Settles(f, w)
<1>1. RecordKeys(f) = RecordKeys(c)
  BY DEF RecordKeys, Alike
<1>2. \A rec : Rewrites(c, rec) => Rewrites(f, rec)
  BY <1>1 DEF Rewrites, Alike
<1>3. \A attr : HasThread(c, attr) => HasThread(f, attr)
  BY DEF HasThread, Alike
<1>4. QED
  BY <1>2, <1>3 DEF Settles

LEMMA AlikeCleared ==
  ASSUME NEW c, NEW f, Alike(c, f), NEW key, NEW id
  PROVE  Alike(Cleared(c, key, id), Cleared(f, key, id))
<1> DEFINE tk == ThreadKey(id)
           d  == Cleared(c, key, id)
           g  == Cleared(f, key, id)
<1>1. /\ DOMAIN d = DOMAIN c \ {key, tk}
      /\ \A k \in DOMAIN c : k # key /\ k # tk => d[k] = c[k]
  BY ClearedDomain, ClearedAt
<1>2. /\ DOMAIN g = DOMAIN f \ {key, tk}
      /\ \A k \in DOMAIN f : k # key /\ k # tk => g[k] = f[k]
  BY ClearedDomain, ClearedAt
<1> HIDE DEF d, g, tk
<1>3. DOMAIN g = DOMAIN d
  BY <1>1, <1>2 DEF Alike
<1>4. ASSUME NEW k \in RecordKeys(d) PROVE g[k].id = d[k].id /\ g[k].kind = d[k].kind
  <2>1. k \in DOMAIN d /\ ~IsThread(k)
    BY RecordKeysOf
  <2>2. k \in RecordKeys(c) /\ k # key /\ k # tk /\ k \in DOMAIN c
    BY <1>1, <2>1, RecordKeysOf
  <2>3. d[k] = c[k] /\ g[k] = f[k]
    BY <1>1, <1>2, <2>2 DEF Alike
  <2>4. QED
    BY <2>2, <2>3 DEF Alike
<1>5. Alike(d, g)
  BY <1>3, <1>4 DEF Alike
<1>6. QED
  BY <1>5 DEF d, g

LEMMA AlikeRemoving ==
  ASSUME NEW c, NEW f, Alike(c, f), NEW t, NEW m, NEW p, RemovingAt(c, t, m, p)
  PROVE  RemovingAt(f, t, m, p)
<1> DEFINE key == t[p].key
           id  == c[key].id
<1>1. key \in RecordKeys(c)
  BY DEF RemovingAt
<1>2. key \in RecordKeys(f) /\ f[key].id = id
  BY <1>1 DEF Alike, RecordKeys
<1>3. Alike(Cleared(c, key, id), Cleared(f, key, id))
  BY AlikeCleared
<1>4. Settling(Cleared(c, key, id), t, p + 3)
  BY DEF RemovingAt
<1>5. Settling(Cleared(f, key, id), t, p + 3)
  BY <1>3, <1>4, AlikeSettles DEF Settling
<1>6. \A i \in m .. p - 1 : Settles(f, t[i])
  BY AlikeSettles DEF RemovingAt
<1>7. /\ p + 2 <= Len(t) /\ t[p].do = "drop" /\ key # RootKey
      /\ t[p + 1] = Strip(id) /\ t[p + 2] = Drop(ThreadKey(id))
  BY DEF RemovingAt
<1>8. QED
  BY <1>2, <1>5, <1>6, <1>7 DEF RemovingAt

LEMMA AlikeOwned ==
  ASSUME NEW c, NEW f, Alike(c, f), NEW as, AllOwned(as, c)
  PROVE  AllOwned(as, f)
  BY DEF AllOwned, HasThread, Alike

-----------------------------------------------------------------------------
(* Paths.                                                                  *)

LEMMA FrontParts ==
  ASSUME NEW S, NEW s \in Seq(S), s # <<>>
  PROVE  /\ Len(s) \in Nat \ {0} /\ Front(s) \in Seq(S) /\ Len(Front(s)) = Len(s) - 1
         /\ \A i \in 1 .. Len(s) - 1 : Front(s)[i] = s[i]
         /\ Last(s) \in S /\ Last(s) = s[Len(s)]
<1>1. PICK l \in Nat : l = Len(s)
  BY LenProperties
<1>2. l # 0
  BY <1>1, EmptySeq
<1>3. Last(s) = s[l] /\ s[l] \in S
  BY <1>1, <1>2, ElementOfSeq DEF Last
<1>4. PICK a, b \in Int : a = 1 /\ b = l - 1
  OBVIOUS
<1>5. \A i \in a .. b : i \in 1 .. Len(s)
  BY <1>1, <1>4
<1>6. /\ SubSeq(s, a, b) \in Seq(S)
      /\ Len(SubSeq(s, a, b)) = IF a <= b THEN b - a + 1 ELSE 0
      /\ \A i \in 1 .. b - a + 1 : SubSeq(s, a, b)[i] = s[a + i - 1]
  BY <1>5, SubSeqProperties, ElementOfSeq
<1>7. Front(s) = SubSeq(s, a, b)
  BY <1>1, <1>4 DEF Front
<1>8. Len(Front(s)) = l - 1
  BY <1>2, <1>4, <1>6, <1>7
<1>9. ASSUME NEW i \in 1 .. l - 1 PROVE Front(s)[i] = s[i]
  <2>1. i \in 1 .. b - a + 1 /\ a + i - 1 = i
    BY <1>4
  <2>2. QED
    BY <1>6, <1>7, <2>1
<1>10. QED
  BY <1>1, <1>2, <1>3, <1>6, <1>7, <1>8, <1>9

(* One step of FolderAt's walk g.                                          *)
WalkKey(path, g, n) == <<g[n - 1], path[n]>>
WalkStep(c, path, g, n) ==
  IF n = 0 THEN kHFSRootFolderID
  ELSE IF WalkKey(path, g, n) \in DOMAIN c /\ c[WalkKey(path, g, n)].kind = "folder"
       THEN c[WalkKey(path, g, n)].id ELSE NoFolder

Walks(c, path, m, g) == g = [n \in 0 .. m |-> WalkStep(c, path, g, n)]
Walk(c, path)        == CHOOSE g : Walks(c, path, Len(path), g)

LEMMA FolderAtWalk ==
  ASSUME NEW c, NEW path
  PROVE  FolderAt(c, path) = Walk(c, path)[Len(path)]
  BY DEF FolderAt, Walk, Walks, WalkStep, WalkKey

LEMMA WalkAt ==
  ASSUME NEW c, NEW path, NEW m \in Nat, NEW g, Walks(c, path, m, g)
  PROVE  DOMAIN g = 0 .. m /\ \A n \in 0 .. m : g[n] = WalkStep(c, path, g, n)
  BY DEF Walks

LEMMA WalkExists ==
  ASSUME NEW c, NEW path, NEW top \in Nat
  PROVE  \E g : Walks(c, path, top, g)
<1> DEFINE T == {m \in Nat : ~ \E g : Walks(c, path, m, g)}
<1>1. SUFFICES ASSUME T # {} PROVE FALSE
  OBVIOUS
<1>2. PICK m \in T : \A l \in T : m <= l
  BY <1>1, LeastNat
<1>3. m \in Nat /\ ~ \E g : Walks(c, path, m, g)
  OBVIOUS
<1>4. CASE m = 0
  <2> DEFINE g == [n \in 0 .. 0 |-> kHFSRootFolderID]
  <2>1. g = [n \in 0 .. 0 |-> WalkStep(c, path, g, n)]
    BY DEF WalkStep
  <2>2. Walks(c, path, 0, g)
    BY <2>1 DEF Walks
  <2>3. QED
    BY <1>3, <1>4, <2>2
<1>5. CASE m # 0
  <2>1. PICK l \in Nat : l = m - 1
    BY <1>3, <1>5
  <2>2. l \notin T
    BY <1>2, <2>1
  <2>3. PICK g : Walks(c, path, l, g)
    BY <2>2
  <2>4. \A n \in 0 .. l : g[n] = WalkStep(c, path, g, n)
    BY <2>3, WalkAt
  <2> DEFINE last == WalkStep(c, path, g, m)
             h    == [n \in 0 .. m |-> IF n = m THEN last ELSE g[n]]
  <2> HIDE DEF last
  <2>5. \A n \in 0 .. l : h[n] = g[n]
    BY <1>3, <2>1
  <2>6. h[m] = last
    BY <1>3
  <2>7. DOMAIN h = 0 .. m
    OBVIOUS
  <2> HIDE DEF h
  <2>8. ASSUME NEW n \in 0 .. m PROVE h[n] = WalkStep(c, path, h, n)
    <3>1. CASE n = 0
      <4>1. h[0] = g[0] /\ g[0] = WalkStep(c, path, g, 0)
        BY <2>1, <2>4, <2>5
      <4>2. QED
        BY <3>1, <4>1 DEF WalkStep
    <3>2. CASE n # 0
      <4>1. n - 1 \in 0 .. l
        BY <1>3, <2>1, <3>2
      <4>2. WalkKey(path, h, n) = WalkKey(path, g, n)
        BY <2>5, <4>1 DEF WalkKey
      <4>3. WalkStep(c, path, h, n) = WalkStep(c, path, g, n)
        BY <3>2, <4>2 DEF WalkStep
      <4>4. h[n] = WalkStep(c, path, g, n)
        <5>1. CASE n = m
          BY <2>6, <5>1 DEF last
        <5>2. CASE n # m
          <6>1. n \in 0 .. l
            BY <1>3, <2>1, <5>2
          <6>2. QED
            BY <2>4, <2>5, <6>1
        <5>3. QED
          BY <5>1, <5>2
      <4>5. QED
        BY <4>3, <4>4
    <3>3. QED
      BY <3>1, <3>2
  <2>9. h = [n \in 0 .. m |-> h[n]]
    BY DEF h
  <2>10. h = [n \in 0 .. m |-> WalkStep(c, path, h, n)]
    BY <2>8, <2>9, Zenon
  <2>11. QED
    BY <1>3, <2>10 DEF Walks
<1>6. QED
  BY <1>4, <1>5

LEMMA WalkIs ==
  ASSUME NEW c, NEW path, NEW top \in Nat, top = Len(path)
  PROVE  \A n \in 0 .. top : Walk(c, path)[n] = WalkStep(c, path, Walk(c, path), n)
<1>1. Walks(c, path, Len(path), Walk(c, path))
  BY WalkExists DEF Walk
<1>2. QED
  BY <1>1, WalkAt

(* The walk to a path begins with the walk to its parent.                  *)
LEMMA WalkFront ==
  ASSUME NEW c, NEW path \in Seq(Names), path # <<>>
  PROVE  \A n \in 0 .. Len(path) - 1 : Walk(c, path)[n] = Walk(c, Front(path))[n]
<1>1. PICK l \in Nat : l = Len(path) - 1 /\ l + 1 = Len(path) /\ l = Len(Front(path))
  BY FrontParts
<1> DEFINE g == Walk(c, path)
           h == Walk(c, Front(path))
           T == {n \in 0 .. l : g[n] # h[n]}
<1>2. \A n \in 0 .. l + 1 : g[n] = WalkStep(c, path, g, n)
  BY <1>1, WalkIs
<1>3. \A n \in 0 .. l : h[n] = WalkStep(c, Front(path), h, n)
  BY <1>1, WalkIs
<1>4. \A i \in 1 .. l : Front(path)[i] = path[i]
  BY <1>1, FrontParts
<1> HIDE DEF g, h
<1>5. SUFFICES ASSUME T # {} PROVE FALSE
  BY <1>1 DEF g, h
<1>6. PICK m \in T : \A n \in T : m <= n
  <2>1. T \subseteq Nat
    OBVIOUS
  <2>2. QED
    BY <1>5, <2>1, LeastNat
<1>7. m \in 0 .. l /\ g[m] # h[m]
  OBVIOUS
<1>8. CASE m = 0
  <2>1. g[0] = kHFSRootFolderID /\ h[0] = kHFSRootFolderID
    BY <1>2, <1>3 DEF WalkStep
  <2>2. QED
    BY <1>7, <1>8, <2>1
<1>9. CASE m # 0
  <2>1. m - 1 \in 0 .. l /\ m - 1 \notin T /\ m \in 1 .. l
    BY <1>6, <1>7, <1>9
  <2>2. g[m - 1] = h[m - 1]
    BY <2>1
  <2>3. WalkKey(path, g, m) = WalkKey(Front(path), h, m)
    BY <1>4, <2>1, <2>2 DEF WalkKey
  <2>4. g[m] = WalkStep(c, path, g, m) /\ h[m] = WalkStep(c, Front(path), h, m)
    BY <1>2, <1>3, <1>7
  <2>5. WalkStep(c, path, g, m) = WalkStep(c, Front(path), h, m)
    BY <1>9, <2>3 DEF WalkStep
  <2>6. QED
    BY <1>7, <2>4, <2>5
<1>10. QED
  BY <1>8, <1>9

LEMMA FolderAtRoot ==
  ASSUME NEW c
  PROVE  FolderAt(c, <<>>) = kHFSRootFolderID
<1>1. PICK z \in Nat : z = Len(<<>>) /\ z = 0
  OBVIOUS
<1>2. Walk(c, <<>>)[0] = WalkStep(c, <<>>, Walk(c, <<>>), 0)
  BY <1>1, WalkIs
<1>3. QED
  BY <1>1, <1>2, FolderAtWalk DEF WalkStep

LEMMA FolderAtStep ==
  ASSUME NEW c, NEW path \in Seq(Names), path # <<>>
  PROVE  FolderAt(c, path) =
           IF KeyAt(c, path) \in DOMAIN c /\ c[KeyAt(c, path)].kind = "folder"
           THEN c[KeyAt(c, path)].id ELSE NoFolder
<1>1. PICK l \in Nat : /\ l = Len(path) - 1 /\ l + 1 = Len(path)
                       /\ l = Len(Front(path)) /\ Last(path) = path[l + 1]
  BY FrontParts
<1>2. Walk(c, path)[l + 1] = WalkStep(c, path, Walk(c, path), l + 1)
  BY <1>1, WalkIs
<1>3. Walk(c, path)[l] = Walk(c, Front(path))[l]
  BY <1>1, WalkFront
<1>4. WalkKey(path, Walk(c, path), l + 1) = <<Walk(c, path)[l], path[l + 1]>>
  BY <1>1 DEF WalkKey
<1>5. KeyAt(c, path) = WalkKey(path, Walk(c, path), l + 1)
  BY <1>1, <1>3, <1>4, FolderAtWalk DEF KeyAt
<1>6. FolderAt(c, path) = WalkStep(c, path, Walk(c, path), l + 1)
  BY <1>1, <1>2, FolderAtWalk
<1>7. l + 1 # 0
  OBVIOUS
<1>8. QED
  BY <1>5, <1>6, <1>7 DEF WalkStep

(* Where a path's record would be.                                         *)
LEMMA KeyAtParts ==
  ASSUME NEW c, NEW path \in Seq(Names), path # <<>>
  PROVE  /\ KeyAt(c, path)[1] = FolderAt(c, Front(path))
         /\ KeyAt(c, path)[2] = Last(path) /\ Last(path) \in Names
         /\ ~IsThread(KeyAt(c, path)) /\ KeyAt(c, path) # RootKey
<1>1. Last(path) \in Names
  BY FrontParts
<1>2. KeyAt(c, path)[1] = FolderAt(c, Front(path)) /\ KeyAt(c, path)[2] = Last(path)
  BY DEF KeyAt
<1>3. RootKey[2] = Volume
  BY DEF RootKey
<1>4. QED
  BY <1>1, <1>2, <1>3, NamesAssumption DEF IsThread

(* The folder of a path has a record.                                      *)
LEMMA FolderHeld ==
  ASSUME NEW c, NEW gone, NEW next, Tidy(c, gone, next),
         NEW path \in Seq(Names), FolderAt(c, path) # NoFolder
  PROVE  \E k \in RecordKeys(c) : /\ c[k].id = FolderAt(c, path) /\ c[k].kind = "folder"
                                  /\ path = <<>> => k = RootKey
                                  /\ path # <<>> => k = KeyAt(c, path)
<1>1. CASE path = <<>>
  BY <1>1, FolderAtRoot, TidyRoot
<1>2. CASE path # <<>>
  <2>1. ~IsThread(KeyAt(c, path))
    BY <1>2, KeyAtParts
  <2>2. /\ KeyAt(c, path) \in DOMAIN c /\ c[KeyAt(c, path)].kind = "folder"
        /\ FolderAt(c, path) = c[KeyAt(c, path)].id
    BY <1>2, FolderAtStep
  <2>3. KeyAt(c, path) \in RecordKeys(c)
    BY <2>1, <2>2, RecordKeysOf
  <2>4. QED
    BY <1>2, <2>2, <2>3
<1>3. QED
  BY <1>1, <1>2

(* No folder has two paths.                                                *)
LEMMA FolderOne ==
  ASSUME NEW c, NEW gone, NEW next, Tidy(c, gone, next),
         NEW p \in Seq(Names), NEW q \in Seq(Names),
         FolderAt(c, p) = FolderAt(c, q), FolderAt(c, p) # NoFolder
  PROVE  p = q
<1> DEFINE Twice(r, s) == /\ FolderAt(c, r) = FolderAt(c, s)
                          /\ FolderAt(c, r) # NoFolder /\ r # s
           T == {n \in Nat : \E r, s \in Seq(Names) : Len(r) = n /\ Twice(r, s)}
<1>1. SUFFICES ASSUME p # q PROVE FALSE
  OBVIOUS
<1>2. Len(p) \in T
  BY <1>1, LenProperties
<1>3. PICK m \in T : \A n \in T : m <= n
  <2>1. T \subseteq Nat /\ T # {}
    BY <1>2
  <2>2. QED
    BY <2>1, LeastNat
<1>4. PICK r, s \in Seq(Names) : Len(r) = m /\ Twice(r, s)
  OBVIOUS
<1>5. PICK k \in RecordKeys(c) :
        /\ c[k].id = FolderAt(c, r) /\ c[k].kind = "folder"
        /\ r = <<>> => k = RootKey
        /\ r # <<>> => k = KeyAt(c, r)
  BY <1>4, FolderHeld
<1>6. PICK l \in RecordKeys(c) :
        /\ c[l].id = FolderAt(c, s) /\ c[l].kind = "folder"
        /\ s = <<>> => l = RootKey
        /\ s # <<>> => l = KeyAt(c, s)
  BY <1>4, FolderHeld
<1>7. k = l
  BY <1>4, <1>5, <1>6, TidyOne
<1>8. CASE r = <<>> \/ s = <<>>
  BY <1>4, <1>5, <1>6, <1>7, <1>8, KeyAtParts
<1>9. CASE r # <<>> /\ s # <<>>
  <2>1. KeyAt(c, r) = KeyAt(c, s) /\ k = KeyAt(c, r)
    BY <1>5, <1>6, <1>7, <1>9
  <2>2. FolderAt(c, Front(r)) = FolderAt(c, Front(s)) /\ Last(r) = Last(s)
    <3>1. KeyAt(c, r)[1] = FolderAt(c, Front(r)) /\ KeyAt(c, r)[2] = Last(r)
      BY <1>9, KeyAtParts
    <3>2. KeyAt(c, s)[1] = FolderAt(c, Front(s)) /\ KeyAt(c, s)[2] = Last(s)
      BY <1>9, KeyAtParts
    <3>3. QED
      BY <2>1, <3>1, <3>2
  <2>3. k \in Keys
    BY TidyNamed
  <2>4. FolderAt(c, Front(r)) # NoFolder
    BY <1>9, <2>1, <2>3, KeyAtParts, KeyPair
  <2>5. PICK a \in Nat \ {0} : a = Len(r)
    BY <1>9, FrontParts
  <2>6. Front(r) \in Seq(Names) /\ Front(s) \in Seq(Names) /\ Len(Front(r)) = a - 1
    BY <1>9, <2>5, FrontParts
  <2>7. a - 1 \in Nat /\ a = m
    BY <1>4, <2>5
  <2>8. a - 1 \notin T
    BY <1>3, <2>7
  <2>9. Front(r) = Front(s)
    BY <2>2, <2>4, <2>6, <2>7, <2>8
  <2>10. PICK b \in Nat \ {0} : b = Len(s)
    BY <1>9, FrontParts
  <2>11. Len(Front(s)) = b - 1
    BY <1>9, <2>10, FrontParts
  <2>12. a = b
    BY <2>6, <2>9, <2>11
  <2>13. \A i \in 1 .. a - 1 : r[i] = Front(r)[i]
    BY <1>9, <2>5, FrontParts
  <2>14. \A i \in 1 .. a - 1 : s[i] = Front(s)[i]
    BY <1>9, <2>10, <2>12, FrontParts
  <2>15. r[a] = s[a]
    BY <1>9, <2>2, <2>5, <2>10, <2>12, FrontParts
  <2>16. \A i \in 1 .. a : r[i] = s[i]
    <3>1. ASSUME NEW i \in 1 .. a, i # a PROVE r[i] = s[i]
      <4>1. i \in 1 .. a - 1
        BY <3>1
      <4>2. r[i] = Front(r)[i] /\ s[i] = Front(s)[i]
        BY <2>13, <2>14, <4>1
      <4>3. QED
        BY <2>9, <4>2
    <3>2. QED
      BY <2>15, <3>1
  <2>17. r = s
    BY <2>5, <2>10, <2>12, <2>16, SeqEqual
  <2>18. QED
    BY <1>4, <2>17
<1>10. QED
  BY <1>8, <1>9

-----------------------------------------------------------------------------
(* Sequences of writes.                                                    *)

LEMMA ListedLen ==
  ASSUME NEW t, Listed(t)
  PROVE  Len(t) \in Nat /\ (t # <<>> => Len(t) \in Nat \ {0}) /\ (Len(t) = 0 => t = <<>>)
<1>1. PICK S : t \in Seq(S)
  BY DEF Listed
<1>2. QED
  BY <1>1, LenProperties, EmptySeq

LEMMA ListedCat ==
  ASSUME NEW s, NEW t, Listed(s), Listed(t)
  PROVE  /\ Listed(s \o t) /\ Len(s \o t) = Len(s) + Len(t)
         /\ \A i \in 1 .. Len(s) : (s \o t)[i] = s[i]
         /\ \A i \in 1 .. Len(t) : (s \o t)[Len(s) + i] = t[i]
<1>1. PICK S : s \in Seq(S)
  BY DEF Listed
<1>2. PICK T : t \in Seq(T)
  BY DEF Listed
<1>3. s \in Seq(S \cup T) /\ t \in Seq(S \cup T)
  BY <1>1, <1>2
<1>4. PICK m, n \in Nat : m = Len(s) /\ n = Len(t)
  BY <1>1, <1>2, LenProperties
<1>5. /\ s \o t \in Seq(S \cup T) /\ Len(s \o t) = m + n
      /\ \A i \in 1 .. m + n : (s \o t)[i] = IF i <= m THEN s[i] ELSE t[i - m]
  BY <1>3, <1>4, ConcatProperties
<1>6. \A i \in 1 .. m : i \in 1 .. m + n /\ i <= m
  OBVIOUS
<1>7. \A i \in 1 .. m : (s \o t)[i] = s[i]
  BY <1>5, <1>6
<1>8. \A i \in 1 .. n : m + i \in 1 .. m + n /\ ~(m + i <= m) /\ m + i - m = i
  OBVIOUS
<1>9. \A i \in 1 .. n : (s \o t)[m + i] = t[i]
  BY <1>5, <1>8
<1>10. QED
  BY <1>4, <1>5, <1>7, <1>9 DEF Listed

(* u is s and then t.                                                      *)
Joined(s, t, u) ==
  /\ Listed(u) /\ Len(u) = Len(s) + Len(t)
  /\ \A i \in 1 .. Len(s) : u[i] = s[i]
  /\ \A i \in 1 .. Len(t) : u[Len(s) + i] = t[i]

LEMMA ListedJoined ==
  ASSUME NEW s, NEW t, Listed(s), Listed(t), NEW u, u = s \o t
  PROVE  Joined(s, t, u)
<1>1. Listed(u)
  BY ListedCat
<1>2. Len(u) = Len(s) + Len(t)
  BY ListedCat
<1>3. \A i \in 1 .. Len(s) : u[i] = s[i]
  BY ListedCat
<1>4. \A i \in 1 .. Len(t) : u[Len(s) + i] = t[i]
  BY ListedCat
<1>5. QED
  BY <1>1, <1>2, <1>3, <1>4 DEF Joined

LEMMA ListedTail ==
  ASSUME NEW t, Listed(t), t # <<>>
  PROVE  /\ Listed(Tail(t)) /\ Len(Tail(t)) = Len(t) - 1 /\ Head(t) = t[1]
         /\ \A i \in 2 .. Len(t) : Tail(t)[i - 1] = t[i]
<1>1. PICK S : t \in Seq(S)
  BY DEF Listed
<1>2. PICK l \in Nat \ {0} : l = Len(t)
  BY <1>1, ListedLen
<1>3. /\ Tail(t) \in Seq(S) /\ Len(Tail(t)) = l - 1 /\ Head(t) = t[1]
      /\ \A i \in 1 .. l - 1 : Tail(t)[i] = t[i + 1]
  BY <1>1, <1>2, HeadTailProperties
<1>4. ASSUME NEW i \in 2 .. l PROVE Tail(t)[i - 1] = t[i]
  <2>1. i - 1 \in 1 .. l - 1 /\ (i - 1) + 1 = i
    OBVIOUS
  <2>2. QED
    BY <1>3, <2>1
<1>5. QED
  BY <1>2, <1>3, <1>4 DEF Listed

LEMMA ListedOne ==
  ASSUME NEW v
  PROVE  Listed(<<v>>) /\ Len(<<v>>) = 1 /\ <<v>>[1] = v
<1>1. <<v>> \in Seq({v})
  OBVIOUS
<1>2. QED
  BY <1>1 DEF Listed

LEMMA ListedTwo ==
  ASSUME NEW v, NEW w
  PROVE  Listed(<<v, w>>) /\ Len(<<v, w>>) = 2 /\ <<v, w>>[1] = v /\ <<v, w>>[2] = w
<1>1. <<v, w>> \in Seq({v, w})
  OBVIOUS
<1>2. QED
  BY <1>1 DEF Listed

LEMMA ListedFour ==
  ASSUME NEW v, NEW w, NEW x, NEW y
  PROVE  /\ Listed(<<v, w, x, y>>) /\ Len(<<v, w, x, y>>) = 4
         /\ <<v, w, x, y>>[1] = v /\ <<v, w, x, y>>[2] = w
         /\ <<v, w, x, y>>[3] = x /\ <<v, w, x, y>>[4] = y
<1>1. <<v, w, x, y>> \in Seq({v, w, x, y})
  OBVIOUS
<1>2. QED
  BY <1>1 DEF Listed

LEMMA ListedNone == Listed(<<>>) /\ Len(<<>>) = 0
<1>1. <<>> \in Seq({})
  OBVIOUS
<1>2. QED
  BY <1>1 DEF Listed

(* The writes of t from number m on are those of u, d places later.        *)
Shifted(t, m, u, d) ==
  /\ Len(t) \in Nat /\ Len(u) = Len(t) + d
  /\ \A i \in m .. Len(t) : u[i + d] = t[i]

LEMMA ShiftedTail ==
  ASSUME NEW t, Listed(t), t # <<>>
  PROVE  Shifted(t, 2, Tail(t), -1)
<1>1. PICK l \in Nat \ {0} : l = Len(t)
  BY ListedLen
<1>2. Len(Tail(t)) = l - 1 /\ \A i \in 2 .. l : Tail(t)[i - 1] = t[i]
  BY <1>1, ListedTail
<1>3. \A i \in 2 .. l : i + (-1) = i - 1
  OBVIOUS
<1>4. \A i \in 2 .. l : Tail(t)[i + (-1)] = t[i]
  BY <1>2, <1>3
<1>5. QED
  BY <1>1, <1>2, <1>4 DEF Shifted

(* The first write makes way for those of s.                               *)
LEMMA ShiftedHead ==
  ASSUME NEW t, Listed(t), t # <<>>, NEW s, Listed(s)
  PROVE  /\ Listed(s \o Tail(t)) /\ Shifted(t, 2, s \o Tail(t), Len(s) - 1)
         /\ \A i \in 1 .. Len(s) : (s \o Tail(t))[i] = s[i]
<1>1. PICK l \in Nat \ {0} : l = Len(t)
  BY ListedLen
<1>2. PICK n \in Nat : n = Len(s)
  BY ListedLen
<1>3. /\ Listed(Tail(t)) /\ Len(Tail(t)) = l - 1
      /\ \A i \in 2 .. l : Tail(t)[i - 1] = t[i]
  BY <1>1, ListedTail
<1>4. /\ Listed(s \o Tail(t)) /\ Len(s \o Tail(t)) = n + (l - 1)
      /\ \A i \in 1 .. n : (s \o Tail(t))[i] = s[i]
      /\ \A i \in 1 .. l - 1 : (s \o Tail(t))[n + i] = Tail(t)[i]
  <2>1. PICK u : u = s \o Tail(t)
    OBVIOUS
  <2>2. Joined(s, Tail(t), u)
    BY <1>3, <2>1, ListedJoined
  <2>3. /\ Listed(u) /\ Len(u) = Len(s) + Len(Tail(t))
        /\ \A i \in 1 .. Len(s) : u[i] = s[i]
        /\ \A i \in 1 .. Len(Tail(t)) : u[Len(s) + i] = Tail(t)[i]
    BY <2>2 DEF Joined
  <2>4. /\ Len(u) = n + (l - 1)
        /\ \A i \in 1 .. n : u[i] = s[i]
        /\ \A i \in 1 .. l - 1 : u[n + i] = Tail(t)[i]
    BY <1>2, <1>3, <2>3
  <2>5. QED
    BY <2>1, <2>3, <2>4
<1>5. ASSUME NEW i \in 2 .. l PROVE (s \o Tail(t))[i + (n - 1)] = t[i]
  <2>1. i - 1 \in 1 .. l - 1 /\ n + (i - 1) = i + (n - 1)
    OBVIOUS
  <2>2. (s \o Tail(t))[n + (i - 1)] = Tail(t)[i - 1]
    BY <1>4, <2>1
  <2>3. QED
    BY <1>3, <2>1, <2>2
<1>6. n + (l - 1) = l + (n - 1)
  OBVIOUS
<1>7. QED
  BY <1>1, <1>2, <1>4, <1>5, <1>6 DEF Shifted

LEMMA ShiftSettling ==
  ASSUME NEW t, NEW m \in Int, NEW u, NEW d \in Int, Shifted(t, m, u, d),
         NEW c, NEW j \in Int, m <= j, Settling(c, t, j)
  PROVE  Settling(c, u, j + d)
<1>1. PICK l \in Nat : l = Len(t) /\ Len(u) = l + d
  BY DEF Shifted
<1>2. ASSUME NEW i \in j + d .. l + d PROVE Settles(c, u[i])
  <2>1. i - d \in m .. l /\ i - d \in j .. l /\ (i - d) + d = i
    OBVIOUS
  <2>2. u[i] = t[i - d]
    BY <1>1, <2>1 DEF Shifted
  <2>3. QED
    BY <1>1, <2>1, <2>2 DEF Settling
<1>3. QED
  BY <1>1, <1>2 DEF Settling

LEMMA ShiftRemoving ==
  ASSUME NEW t, NEW m \in Int, NEW u, NEW d \in Int, Shifted(t, m, u, d),
         NEW c, NEW j \in Int, m <= j, NEW p \in Int, j <= p, RemovingAt(c, t, j, p)
  PROVE  RemovingAt(c, u, j + d, p + d)
<1> DEFINE key == t[p].key
           id  == c[key].id
<1>1. PICK l \in Nat : l = Len(t) /\ Len(u) = l + d
  BY DEF Shifted
<1>2. /\ p + 2 <= l
      /\ \A i \in j .. p - 1 : Settles(c, t[i])
      /\ t[p].do = "drop" /\ key \in RecordKeys(c) /\ key # RootKey
      /\ t[p + 1] = Strip(id) /\ t[p + 2] = Drop(ThreadKey(id))
      /\ Settling(Cleared(c, key, id), t, p + 3)
  BY <1>1 DEF RemovingAt
<1>3. \A i \in m .. l : u[i + d] = t[i]
  BY <1>1 DEF Shifted
<1>4. u[p + d] = t[p]
  BY <1>2, <1>3
<1>5. u[(p + d) + 1] = t[p + 1]
  <2>1. (p + 1) + d = (p + d) + 1 /\ p + 1 \in m .. l
    BY <1>2
  <2>2. QED
    BY <1>3, <2>1
<1>6. u[(p + d) + 2] = t[p + 2]
  <2>1. (p + 2) + d = (p + d) + 2 /\ p + 2 \in m .. l
    BY <1>2
  <2>2. QED
    BY <1>3, <2>1
<1>7. Settling(Cleared(c, key, id), u, (p + d) + 3)
  <2>1. m <= p + 3 /\ p + 3 \in Int /\ (p + 3) + d = (p + d) + 3
    OBVIOUS
  <2>2. Settling(Cleared(c, key, id), u, (p + 3) + d)
    BY <1>2, <2>1, ShiftSettling
  <2>3. QED
    BY <2>1, <2>2
<1>8. ASSUME NEW i \in j + d .. (p + d) - 1 PROVE Settles(c, u[i])
  <2>1. i - d \in j .. p - 1 /\ i - d \in m .. l /\ (i - d) + d = i
    BY <1>2
  <2>2. u[i] = t[i - d]
    BY <1>3, <2>1
  <2>3. QED
    BY <1>2, <2>1, <2>2
<1>9. (p + d) + 2 <= Len(u)
  BY <1>1, <1>2
<1>10. QED
  BY <1>2, <1>4, <1>5, <1>6, <1>7, <1>8, <1>9 DEF RemovingAt

LEMMA ShiftRest ==
  ASSUME NEW t, NEW m \in Int, NEW u, NEW d \in Int, Shifted(t, m, u, d),
         NEW c, NEW j \in Int, m <= j, Rest(c, t, j)
  PROVE  Rest(c, u, j + d)
<1>1. CASE Settling(c, t, j)
  BY <1>1, ShiftSettling DEF Rest
<1>2. CASE \E p \in j .. Len(t) : RemovingAt(c, t, j, p)
  <2>1. PICK l \in Nat : l = Len(t) /\ Len(u) = l + d
    BY DEF Shifted
  <2>2. PICK p \in j .. l : RemovingAt(c, t, j, p)
    BY <1>2, <2>1
  <2>3. RemovingAt(c, u, j + d, p + d)
    BY <2>2, ShiftRemoving
  <2>4. p + d \in j + d .. Len(u)
    BY <2>1
  <2>5. QED
    BY <2>3, <2>4 DEF Rest
<1>3. QED
  BY <1>1, <1>2 DEF Rest

LEMMA ShiftAdding ==
  ASSUME NEW t, NEW m \in Int, NEW u, NEW d \in Int, Shifted(t, m, u, d),
         NEW c, NEW as, NEW gone, NEW next, Adding(c, as, gone, next, t, m)
  PROVE  Adding(c, as, gone, next, u, m + d)
<1> DEFINE f == Put2(c, t, m)
<1>1. PICK l \in Nat : l = Len(t) /\ Len(u) = l + d
  BY DEF Shifted
<1>2. m < l
  BY <1>1 DEF Adding
<1>3. u[m + d] = t[m]
  BY <1>1, <1>2 DEF Shifted
<1>4. u[(m + d) + 1] = t[m + 1]
  <2>1. (m + 1) + d = (m + d) + 1 /\ m + 1 \in m .. l
    BY <1>2
  <2>2. QED
    BY <1>1, <2>1 DEF Shifted
<1>5. Put2(c, u, m + d) = f
  BY <1>3, <1>4 DEF Put1, Put2
<1>6. Tidy(f, gone, next) /\ AllOwned(as, f) /\ Settling(f, t, m + 2)
  BY DEF Adding
<1>7. Settling(f, u, (m + d) + 2)
  <2>1. m <= m + 2 /\ m + 2 \in Int /\ (m + 2) + d = (m + d) + 2
    OBVIOUS
  <2> HIDE DEF f
  <2>2. Settling(f, u, (m + 2) + d)
    BY <1>6, <2>1, ShiftSettling
  <2>3. QED
    BY <2>1, <2>2
<1>8. m + d < Len(u)
  BY <1>1, <1>2
<1>9. /\ t[m].do = "put" /\ t[m].key \in Keys /\ ~IsThread(t[m].key)
      /\ t[m].rec \in RecTypes
      /\ t[m + 1].do = "put" /\ t[m + 1].key = ThreadKey(t[m].rec.id)
      /\ t[m + 1].key \notin DOMAIN c
  BY DEF Adding
<1>10. QED
  BY <1>3, <1>4, <1>5, <1>6, <1>7, <1>8, <1>9 DEF Adding

(* The next write leaves keys, IDs and kinds alone, or begins a removal.   *)
LEMMA RestHead ==
  ASSUME NEW c, NEW t, Listed(t), t # <<>>, Rest(c, t, 1)
  PROVE  (Settles(c, t[1]) /\ Rest(c, t, 2)) \/ RemovingAt(c, t, 1, 1)
<1>1. PICK l \in Nat \ {0} : l = Len(t)
  BY ListedLen
<1>2. CASE Settling(c, t, 1)
  BY <1>1, <1>2 DEF Rest, Settling
<1>3. CASE \E p \in 1 .. Len(t) : RemovingAt(c, t, 1, p)
  <2>1. PICK p \in 1 .. l : RemovingAt(c, t, 1, p)
    BY <1>1, <1>3
  <2>2. CASE p # 1
    <3>1. 1 \in 1 .. p - 1 /\ p \in 2 .. l /\ \A i \in 2 .. p - 1 : i \in 1 .. p - 1
      BY <2>2
    <3>2. Settles(c, t[1]) /\ RemovingAt(c, t, 2, p)
      BY <2>1, <3>1 DEF RemovingAt
    <3>3. QED
      BY <1>1, <3>1, <3>2 DEF Rest
  <2>3. QED
    BY <2>1, <2>2
<1>4. QED
  BY <1>2, <1>3 DEF Rest

-----------------------------------------------------------------------------
(* Every attribute is one of those that a removal unsets.                  *)
LEMMA NthAll ==
  ASSUME NEW own, own \subseteq Nat \X Nat, IsFiniteSet(own), NEW attr \in own
  PROVE  /\ Cardinality(own) \in Nat
         /\ \E i \in 1 .. Cardinality(own) : Nth(own, i) = attr
<1> DEFINE Prior(k) == {l \in own : Before(l, k)}
           rank(k)  == Cardinality(Prior(k))
<1>1. PICK n \in Nat : n = Cardinality(own)
  BY FS_CardinalityType
<1>2. \A k \in own : IsFiniteSet(Prior(k)) /\ rank(k) \in Nat
  <2>1. \A k \in own : Prior(k) \subseteq own
    OBVIOUS
  <2>2. \A k \in own : IsFiniteSet(Prior(k))
    BY <2>1, FS_Subset
  <2> HIDE DEF Prior
  <2>3. QED
    BY <2>2, FS_CardinalityType
<1>3. ASSUME NEW k \in own, NEW l \in own PROVE k = l \/ Before(k, l) \/ Before(l, k)
  <2>1. PICK a, b, x, y \in Nat : k = <<a, b>> /\ l = <<x, y>>
    OBVIOUS
  <2>2. QED
    BY <2>1 DEF Before
<1>4. ASSUME NEW k \in own, NEW l \in own, Before(k, l) PROVE rank(k) # rank(l)
  <2>1. Prior(k) \subseteq Prior(l)
    <3>1. SUFFICES ASSUME NEW j \in own, Before(j, k) PROVE Before(j, l)
      OBVIOUS
    <3>2. PICK a, b \in Nat : k = <<a, b>>
      OBVIOUS
    <3>3. PICK x, y \in Nat : l = <<x, y>>
      OBVIOUS
    <3>4. PICK v, w \in Nat : j = <<v, w>>
      OBVIOUS
    <3>5. QED
      BY <1>4, <3>1, <3>2, <3>3, <3>4 DEF Before
  <2>2. k \in Prior(l) /\ k \notin Prior(k)
    <3>1. PICK a, b \in Nat : k = <<a, b>>
      OBVIOUS
    <3>2. ~Before(k, k)
      BY <3>1 DEF Before
    <3>3. QED
      BY <1>4, <3>2
  <2>3. IsFiniteSet(Prior(l))
    BY <1>2
  <2> HIDE DEF Prior
  <2>4. Cardinality(Prior(k)) = Cardinality(Prior(l)) => Prior(k) = Prior(l)
    BY <2>1, <2>3, FS_Subset
  <2>5. QED
    BY <2>2, <2>4
<1>5. PICK r \in Nat : r = rank(attr)
  BY <1>2
<1>6. r < n
  <2>1. Prior(attr) \subseteq own \ {attr}
    <3>1. PICK a, b \in Nat : attr = <<a, b>>
      OBVIOUS
    <3>2. ~Before(attr, attr)
      BY <3>1 DEF Before
    <3>3. QED
      BY <3>2
  <2>2. IsFiniteSet(own \ {attr}) /\ Cardinality(own \ {attr}) = n - 1
    BY <1>1, FS_RemoveElement
  <2> HIDE DEF Prior
  <2>3. Cardinality(Prior(attr)) <= Cardinality(own \ {attr})
    BY <2>1, <2>2, FS_Subset
  <2>4. QED
    BY <1>1, <1>5, <2>2, <2>3
<1>7. Nth(own, r + 1) = CHOOSE k \in own : rank(k) = (r + 1) - 1
  BY DEF Nth
<1> HIDE DEF rank
<1>8. (r + 1) - 1 = r
  OBVIOUS
<1>9. Nth(own, r + 1) = CHOOSE k \in own : rank(k) = r
  BY <1>7, <1>8
<1>10. Nth(own, r + 1) \in own /\ rank(Nth(own, r + 1)) = r
  BY <1>5, <1>9
<1>11. Nth(own, r + 1) = attr
  BY <1>3, <1>4, <1>5, <1>10
<1>12. r + 1 \in 1 .. n
  BY <1>6
<1>13. QED
  BY <1>1, <1>11, <1>12

-----------------------------------------------------------------------------
(* The writes keep the invariant.                                          *)

(* What every write but those that end an operation leaves alone.          *)
LEMMA KeptShapes ==
  ASSUME Shapes, Listed(todo'), attrs' \subseteq Nat \X Nat, IsFiniteSet(attrs'),
         hdr' \in [next : Nat, files : Nat, folders : Nat], hdr'.next = hdr.next,
         lost' = lost, status' # "exited"
  PROVE  Shapes' /\ LostIds' = LostIds
<1>1. LostIds' = LostIds
  BY DEF LostIds
<1>2. QED
  BY <1>1 DEF Shapes

LEMMA Dropping ==
  ASSUME IInv, DropRecord
  PROVE  IInv'
<1>1. /\ Listed(todo) /\ todo # <<>> /\ Head(todo).do = "drop" /\ Running
      /\ cat' = Without(cat, Head(todo).key) /\ todo' = Tail(todo)
      /\ attrs' = attrs /\ hdr' = hdr /\ status' = status /\ lost' = lost
  BY DEF IInv, Shapes, DropRecord, Doing
<1>2. Head(todo) = todo[1] /\ Listed(todo') /\ Shifted(todo, 2, todo', -1)
  BY <1>1, ListedTail, ShiftedTail
<1>3. Shapes' /\ LostIds' = LostIds
  BY <1>1, <1>2, KeptShapes DEF IInv, Shapes, Running
<1>4. PICK l \in Nat \ {0} : l = Len(todo) /\ Len(todo') = l - 1
  BY <1>1, ListedLen, ListedTail
<1>5. CASE Resting
  <2>1. PICK key, id : key = todo[1].key /\ id = cat[key].id
    OBVIOUS
  <2>2. PICK c : c = Cleared(cat, key, id)
    OBVIOUS
  <2>3. ~Settles(cat, todo[1])
    BY <1>1, <1>2 DEF Settles
  <2>4. RemovingAt(cat, todo, 1, 1)
    BY <1>1, <1>5, <2>3, RestHead DEF Resting
  <2>5. /\ 1 + 2 <= l
        /\ key \in RecordKeys(cat) /\ key # RootKey
        /\ todo[1 + 1] = Strip(id) /\ todo[1 + 2] = Drop(ThreadKey(id))
        /\ Settling(c, todo, 1 + 3)
    BY <1>4, <2>1, <2>2, <2>4 DEF RemovingAt
  <2>6. todo'[1] = Strip(id) /\ todo'[2] = Drop(ThreadKey(id))
    <3>1. 2 \in 2 .. l /\ 3 \in 2 .. l /\ 2 + (-1) = 1 /\ 3 + (-1) = 2
      BY <2>5
    <3>2. todo'[2 + (-1)] = todo[2] /\ todo'[3 + (-1)] = todo[3]
      BY <1>2, <1>4, <3>1 DEF Shifted
    <3>3. 1 + 1 = 2 /\ 1 + 2 = 3
      OBVIOUS
    <3>4. QED
      BY <2>5, <3>1, <3>2, <3>3
  <2>7. Tidy(cat, LostIds, hdr.next) /\ AllOwned(attrs, cat)
    BY <1>5 DEF Resting
  <2>8. Tidy(c, LostIds, hdr.next)
    BY <2>1, <2>2, <2>5, <2>7, TidyClear
  <2>9. cat' = Without(cat, key) /\ Without(cat', ThreadKey(id)) = c
    BY <1>1, <1>2, <2>1, <2>2 DEF Cleared
  <2>10. ThreadKey(id) \in DOMAIN cat' /\ id \in IdsIn(cat')
    <3>1. ThreadKey(id) \in DOMAIN cat
      BY <2>1, <2>5, <2>7, TidyNamed
    <3>2. ThreadKey(id) # key /\ IsThread(ThreadKey(id)) /\ ThreadKey(id)[1] = id
      BY <2>5, RecordKeysOf, ThreadKeyParts
    <3>3. DOMAIN cat' = DOMAIN cat \ {key}
      BY <2>9, WithoutDomain
    <3>4. ThreadKey(id) \in DOMAIN cat'
      BY <3>1, <3>2, <3>3
    <3>5. QED
      BY <3>2, <3>4 DEF IdsIn
  <2>11. Settling(c, todo', 3)
    <3>1. 4 + (-1) = 3 /\ 1 + 3 = 4
      OBVIOUS
    <3>2. Settling(c, todo, 4)
      BY <2>5, <3>1
    <3>3. Settling(c, todo', 4 + (-1))
      BY <1>2, <3>2, ShiftSettling
    <3>4. QED
      BY <3>1, <3>3
  <2>12. ASSUME NEW attr \in attrs
         PROVE  HasThread(c, attr) \/
                  (attr[1] = id /\ \E i \in 1 .. 2 - 1 :
                                     todo'[i] = Strip(id) \/ todo'[i] = Unset(attr))
    <3>1. ThreadKey(attr[1]) \in DOMAIN cat
      BY <2>7 DEF AllOwned, HasThread
    <3>2. ThreadKey(attr[1]) # key
      BY <2>5, RecordKeysOf, ThreadKeyParts
    <3>3. CASE attr[1] = id
      <4>1. 1 \in 1 .. 2 - 1
        OBVIOUS
      <4>2. QED
        BY <2>6, <3>3, <4>1
    <3>4. CASE attr[1] # id
      <4>1. ThreadKey(attr[1]) # ThreadKey(id)
        BY <3>4, ThreadKeyOne
      <4>2. DOMAIN c = DOMAIN cat \ {key, ThreadKey(id)}
        BY <2>2, ClearedDomain
      <4>3. ThreadKey(attr[1]) \in DOMAIN c
        BY <3>1, <3>2, <4>1, <4>2
      <4>4. QED
        BY <4>3 DEF HasThread
    <3>5. QED
      BY <3>3, <3>4
  <2>13. \A i \in 1 .. 2 - 1 : todo'[i] = Strip(id) \/ todo'[i].do = "unset"
    <3>1. \A i \in 1 .. 2 - 1 : i = 1
      OBVIOUS
    <3>2. QED
      BY <2>6, <3>1
  <2>14. 2 \in 1 .. Len(todo') /\ 2 + 1 = 3
    BY <1>4, <2>5
  <2>15. ClearingAt(id, 2)'
    BY <1>1, <1>3, <2>6, <2>8, <2>9, <2>10, <2>11, <2>12, <2>13, <2>14 DEF ClearingAt
  <2>16. Clearing'
    BY <2>10, <2>14, <2>15 DEF Clearing
  <2>17. QED
    BY <1>3, <2>16 DEF IInv
<1>6. CASE Coming
  BY <1>1, <1>2, <1>6 DEF Coming, Adding
<1>7. CASE Filling
  BY <1>1, <1>2, <1>7 DEF Filling
<1>8. CASE Clearing
  <2>1. PICK p \in 1 .. l, id \in IdsIn(cat) : ClearingAt(id, p)
    BY <1>4, <1>8 DEF Clearing
  <2> DEFINE c == Without(cat, ThreadKey(id))
  <2>2. /\ todo[p] = Drop(ThreadKey(id))
        /\ Tidy(c, LostIds, hdr.next)
        /\ \A i \in 1 .. p - 1 : todo[i] = Strip(id) \/ todo[i].do = "unset"
        /\ \A attr \in attrs : HasThread(c, attr) \/
             (attr[1] = id /\ \E i \in 1 .. p - 1 :
                                todo[i] = Strip(id) \/ todo[i] = Unset(attr))
        /\ Settling(c, todo, p + 1)
    BY <2>1 DEF ClearingAt
  <2>3. p = 1
    <3>1. SUFFICES ASSUME p # 1 PROVE FALSE
      OBVIOUS
    <3>2. 1 \in 1 .. p - 1
      BY <3>1
    <3>3. todo[1] = Strip(id) \/ todo[1].do = "unset"
      BY <2>2, <3>2
    <3>4. QED
      BY <1>1, <1>2, <3>3 DEF Strip
  <2>4. todo[1].key = ThreadKey(id)
    BY <2>2, <2>3 DEF Drop
  <2>5. cat' = c
    BY <1>1, <1>2, <2>4
  <2>6. 1 .. p - 1 = {}
    BY <2>3
  <2>7. AllOwned(attrs, c)
    BY <2>2, <2>6 DEF AllOwned
  <2> HIDE DEF c
  <2>8. Settling(c, todo', 2 + (-1))
    BY <1>2, <2>2, <2>3, ShiftSettling
  <2>9. Rest(c, todo', 1)
    BY <2>8 DEF Rest
  <2>10. Resting'
    BY <1>1, <1>3, <2>2, <2>5, <2>7, <2>9 DEF Resting
  <2>11. QED
    BY <1>3, <2>10 DEF IInv
<1>9. CASE Crossing
  <2> DEFINE c == Without(cat, todo[1].key)
  <2>1. Tidy(c, LostIds, hdr.next) /\ Adding(c, attrs, LostIds, hdr.next, todo, 2)
    BY <1>9 DEF Crossing
  <2>2. cat' = c
    BY <1>1, <1>2
  <2> HIDE DEF c
  <2>3. Adding(c, attrs, LostIds, hdr.next, todo', 2 + (-1))
    BY <1>2, <2>1, ShiftAdding
  <2>4. 2 + (-1) = 1
    OBVIOUS
  <2>5. Coming'
    BY <1>1, <1>3, <2>1, <2>2, <2>3, <2>4 DEF Coming
  <2>6. QED
    BY <1>3, <2>5 DEF IInv
<1>10. CASE Departing
  <2> DEFINE key == todo[1].key
             id  == cat[key].id
             c   == Cleared(cat, key, id)
  <2>1. /\ 2 <= l
        /\ key \in RecordKeys(cat) /\ key # RootKey
        /\ todo[2] = Drop(ThreadKey(id))
        /\ Tidy(cat, LostIds \ {id}, hdr.next)
        /\ Tidy(c, LostIds, hdr.next)
        /\ Adding(c, attrs, LostIds, hdr.next, todo, 3)
    BY <1>4, <1>10 DEF Departing
  <2>2. cat' = Without(cat, key) /\ Without(cat', ThreadKey(id)) = c
    BY <1>1, <1>2 DEF Cleared
  <2>3. ThreadKey(id) \in DOMAIN cat' /\ IsThread(ThreadKey(id))
    <3>1. ThreadKey(id) \in DOMAIN cat
      BY <2>1, TidyNamed
    <3>2. ThreadKey(id) # key /\ IsThread(ThreadKey(id))
      BY <2>1, RecordKeysOf, ThreadKeyParts
    <3>3. DOMAIN cat' = DOMAIN cat \ {key}
      BY <2>2, WithoutDomain
    <3>4. QED
      BY <3>1, <3>2, <3>3
  <2>4. todo'[1] = Drop(ThreadKey(id))
    <3>1. 2 \in 2 .. l /\ 2 + (-1) = 1
      BY <2>1
    <3>2. todo'[2 + (-1)] = todo[2]
      BY <1>2, <1>4, <3>1 DEF Shifted
    <3>3. QED
      BY <2>1, <3>1, <3>2
  <2> HIDE DEF c
  <2>5. Adding(c, attrs, LostIds, hdr.next, todo', 3 + (-1))
    <3>1. Shifted(todo, 3, todo', -1)
      BY <1>2 DEF Shifted
    <3>2. QED
      BY <2>1, <3>1, ShiftAdding
  <2>6. 3 + (-1) = 2
    OBVIOUS
  <2>7. /\ todo'[1].do = "drop" /\ todo'[1].key = ThreadKey(id)
        /\ todo'[1].key = ThreadKey(todo'[1].key[1])
    <3>1. Drop(ThreadKey(id)).do = "drop" /\ Drop(ThreadKey(id)).key = ThreadKey(id)
      BY DEF Drop
    <3>2. ThreadKey(id)[1] = id
      BY ThreadKeyParts
    <3>3. QED
      BY <2>4, <3>1, <3>2
  <2>8. todo' # <<>>
    BY <1>4, <2>1, ListedNone
  <2>9. Crossing'
    BY <1>1, <1>3, <2>1, <2>2, <2>3, <2>5, <2>6, <2>7, <2>8 DEF Crossing
  <2>10. QED
    BY <1>3, <2>9 DEF IInv
<1>11. QED
  BY <1>5, <1>6, <1>7, <1>8, <1>9, <1>10 DEF IInv

LEMMA Putting ==
  ASSUME IInv, PutRecord
  PROVE  IInv'
<1>1. /\ Listed(todo) /\ todo # <<>> /\ Head(todo).do = "put" /\ Running
      /\ cat' = Added(cat, Head(todo).key, Head(todo).rec) /\ todo' = Tail(todo)
      /\ attrs' = attrs /\ hdr' = hdr /\ status' = status /\ lost' = lost
  BY DEF IInv, Shapes, PutRecord, Doing
<1>2. Head(todo) = todo[1] /\ Listed(todo') /\ Shifted(todo, 2, todo', -1)
  BY <1>1, ListedTail, ShiftedTail
<1>3. Shapes' /\ LostIds' = LostIds
  BY <1>1, <1>2, KeptShapes DEF IInv, Shapes, Running
<1>4. PICK l \in Nat \ {0} : l = Len(todo) /\ Len(todo') = l - 1
  BY <1>1, ListedLen, ListedTail
<1>5. cat' = Put1(cat, todo, 1)
  BY <1>1, <1>2 DEF Put1
<1>6. CASE Resting
  <2>1. ~Settles(cat, todo[1]) /\ ~RemovingAt(cat, todo, 1, 1)
    BY <1>1, <1>2 DEF Settles, RemovingAt
  <2>2. QED
    BY <1>1, <1>6, <2>1, RestHead DEF Resting
<1>7. CASE Coming
  <2> DEFINE f == Put2(cat, todo, 1)
  <2>1. /\ 1 < l /\ ~IsThread(todo[1].key)
        /\ todo[1 + 1].do = "put" /\ todo[1 + 1].key = ThreadKey(todo[1].rec.id)
        /\ todo[1 + 1].key \notin DOMAIN cat
        /\ Tidy(f, LostIds, hdr.next) /\ AllOwned(attrs, f)
        /\ Settling(f, todo, 1 + 2)
    BY <1>4, <1>7 DEF Coming, Adding
  <2>2. todo'[1] = todo[1 + 1]
    <3>1. 2 \in 2 .. l /\ 2 + (-1) = 1 /\ 1 + 1 = 2
      BY <2>1
    <3>2. todo'[2 + (-1)] = todo[2]
      BY <1>2, <1>4, <3>1 DEF Shifted
    <3>3. QED
      BY <3>1, <3>2
  <2>3. Put1(cat', todo', 1) = f
    BY <1>5, <2>2 DEF Put1, Put2
  <2>4. todo'[1].key \notin DOMAIN cat'
    <3>1. DOMAIN cat' = DOMAIN cat \cup {todo[1].key}
      <4>1. cat' = Added(cat, todo[1].key, todo[1].rec)
        BY <1>1, <1>2
      <4>2. QED
        BY <4>1, AddedDomain
    <3>2. todo'[1].key # todo[1].key
      BY <2>1, <2>2, ThreadKeyParts
    <3>3. QED
      BY <2>1, <2>2, <3>1, <3>2
  <2>5. Rest(f, todo', 2)
    <3>1. 1 + 2 = 3 /\ 3 + (-1) = 2 /\ 2 <= 3
      OBVIOUS
    <3> HIDE DEF f
    <3>2. Settling(f, todo, 3)
      BY <2>1, <3>1
    <3>3. Settling(f, todo', 3 + (-1))
      BY <1>2, <3>1, <3>2, ShiftSettling
    <3>4. QED
      BY <3>1, <3>3 DEF Rest
  <2>6. todo' # <<>>
    BY <1>4, <2>1, ListedNone
  <2> HIDE DEF f
  <2>7. Filling'
    BY <1>1, <1>3, <2>1, <2>2, <2>3, <2>4, <2>5, <2>6 DEF Filling
  <2>8. QED
    BY <1>3, <2>7 DEF IInv
<1>8. CASE Filling
  <2> DEFINE f == Put1(cat, todo, 1)
  <2>1. Tidy(f, LostIds, hdr.next) /\ AllOwned(attrs, f) /\ Rest(f, todo, 2)
    BY <1>8 DEF Filling
  <2>2. cat' = f
    BY <1>5
  <2> HIDE DEF f
  <2>3. Rest(f, todo', 2 + (-1))
    BY <1>2, <2>1, ShiftRest
  <2>4. 2 + (-1) = 1
    OBVIOUS
  <2>5. Resting'
    BY <1>1, <1>3, <2>1, <2>2, <2>3, <2>4 DEF Resting
  <2>6. QED
    BY <1>3, <2>5 DEF IInv
<1>9. CASE Clearing
  <2>1. PICK p \in 1 .. l, id \in IdsIn(cat) : ClearingAt(id, p)
    BY <1>4, <1>9 DEF Clearing
  <2>2. CASE p = 1
    BY <1>1, <1>2, <2>1, <2>2 DEF ClearingAt, Drop
  <2>3. CASE p # 1
    <3>1. 1 \in 1 .. p - 1
      BY <2>3
    <3>2. todo[1] = Strip(id) \/ todo[1].do = "unset"
      BY <2>1, <3>1 DEF ClearingAt
    <3>3. QED
      BY <1>1, <1>2, <3>2 DEF Strip
  <2>4. QED
    BY <2>2, <2>3
<1>10. CASE Crossing
  BY <1>1, <1>2, <1>10 DEF Crossing
<1>11. CASE Departing
  BY <1>1, <1>2, <1>11 DEF Departing
<1>12. QED
  BY <1>6, <1>7, <1>8, <1>9, <1>10, <1>11 DEF IInv

LEMMA Updating ==
  ASSUME IInv, BeginUpdate
  PROVE  IInv'
<1>1. /\ Listed(todo) /\ todo # <<>> /\ Head(todo).do = "update" /\ Running
      /\ attrs' = attrs /\ hdr' = hdr /\ status' = status /\ lost' = lost
  BY DEF IInv, Shapes, BeginUpdate, Doing
<1>2. PICK rec, key : /\ rec = Head(todo).rec /\ key = Named(cat, rec.id)
                      /\ cat' = Without(cat, key)
                      /\ todo' = <<Put(key, rec)>> \o Tail(todo)
  BY DEF BeginUpdate
<1>3. /\ Head(todo) = todo[1] /\ Listed(todo') /\ Shifted(todo, 2, todo', 0)
      /\ todo'[1] = Put(key, rec)
  <2>1. PICK w : w = Put(key, rec)
    OBVIOUS
  <2>2. PICK s : s = <<w>> /\ Listed(s) /\ Len(s) = 1 /\ s[1] = w
    BY ListedOne
  <2>3. /\ Listed(s \o Tail(todo)) /\ Shifted(todo, 2, s \o Tail(todo), Len(s) - 1)
        /\ \A i \in 1 .. Len(s) : (s \o Tail(todo))[i] = s[i]
    <3>1. Listed(s)
      BY <2>2
    <3>2. QED
      BY <1>1, <3>1, ShiftedHead
  <2>4. 1 - 1 = 0 /\ 1 \in 1 .. 1
    OBVIOUS
  <2>5. /\ Listed(s \o Tail(todo)) /\ Shifted(todo, 2, s \o Tail(todo), 0)
        /\ (s \o Tail(todo))[1] = w
    BY <2>2, <2>3, <2>4
  <2>6. QED
    BY <1>1, <1>2, <2>1, <2>2, <2>5, ListedTail
<1>4. Shapes' /\ LostIds' = LostIds
  BY <1>1, <1>3, KeptShapes DEF IInv, Shapes, Running
<1>5. PICK l \in Nat \ {0} : l = Len(todo) /\ Len(todo') = l
  BY <1>1, <1>3, ListedLen DEF Shifted
<1>6. CASE Resting
  <2>1. ~RemovingAt(cat, todo, 1, 1)
    BY <1>1, <1>3 DEF RemovingAt
  <2>2. Settles(cat, todo[1]) /\ Rest(cat, todo, 2)
    BY <1>1, <1>6, <2>1, RestHead DEF Resting
  <2>3. Rewrites(cat, rec)
    BY <1>1, <1>2, <1>3, <2>2 DEF Settles
  <2>4. PICK k \in RecordKeys(cat) :
          rec \in RecTypes /\ cat[k].id = rec.id /\ cat[k].kind = rec.kind
    BY <2>3 DEF Rewrites
  <2>5. Tidy(cat, LostIds, hdr.next) /\ AllOwned(attrs, cat)
    BY <1>6 DEF Resting
  <2>6. key = k
    BY <1>2, <2>4, <2>5, TidyNamed
  <2> DEFINE f == Added(Without(cat, k), k, rec)
  <2>7. k \notin DOMAIN Without(cat, k) /\ Alike(cat, f) /\ Tidy(f, LostIds, hdr.next)
    BY <2>4, <2>5, TidyRewrite
  <2>8. todo'[1].do = "put" /\ todo'[1].key = k /\ todo'[1].rec = rec
    BY <1>3, <2>6 DEF Put
  <2>9. Put1(cat', todo', 1) = f
    BY <1>2, <2>6, <2>8 DEF Put1
  <2>10. todo'[1].key \notin DOMAIN cat'
    BY <1>2, <2>6, <2>7, <2>8
  <2> HIDE DEF f
  <2>11. AllOwned(attrs, f)
    BY <2>5, <2>7, AlikeOwned
  <2>12. Rest(f, todo, 2)
    <3>1. CASE Settling(cat, todo, 2)
      BY <2>7, <3>1, AlikeSettles DEF Settling, Rest
    <3>2. CASE \E p \in 2 .. Len(todo) : RemovingAt(cat, todo, 2, p)
      BY <2>7, <3>2, AlikeRemoving DEF Rest
    <3>3. QED
      BY <2>2, <3>1, <3>2 DEF Rest
  <2>13. Rest(f, todo', 2)
    <3>1. Rest(f, todo', 2 + 0)
      BY <1>3, <2>12, ShiftRest
    <3>2. QED
      BY <3>1
  <2>14. todo' # <<>>
    BY <1>5, ListedNone
  <2>15. Filling'
    BY <1>1, <1>4, <2>7, <2>8, <2>9, <2>10, <2>11, <2>13, <2>14 DEF Filling
  <2>16. QED
    BY <1>4, <2>15 DEF IInv
<1>7. CASE Coming
  BY <1>1, <1>3, <1>7 DEF Coming, Adding
<1>8. CASE Filling
  BY <1>1, <1>3, <1>8 DEF Filling
<1>9. CASE Clearing
  <2>1. PICK p \in 1 .. l, id \in IdsIn(cat) : ClearingAt(id, p)
    BY <1>5, <1>9 DEF Clearing
  <2>2. CASE p = 1
    BY <1>1, <1>3, <2>1, <2>2 DEF ClearingAt, Drop
  <2>3. CASE p # 1
    <3>1. 1 \in 1 .. p - 1
      BY <2>3
    <3>2. todo[1] = Strip(id) \/ todo[1].do = "unset"
      BY <2>1, <3>1 DEF ClearingAt
    <3>3. QED
      BY <1>1, <1>3, <3>2 DEF Strip
  <2>4. QED
    BY <2>2, <2>3
<1>10. CASE Crossing
  BY <1>1, <1>3, <1>10 DEF Crossing
<1>11. CASE Departing
  BY <1>1, <1>3, <1>11 DEF Departing
<1>12. QED
  BY <1>6, <1>7, <1>8, <1>9, <1>10, <1>11 DEF IInv

(* Counters, the header and single attributes.                             *)
LEMMA Slight ==
  ASSUME IInv, todo # <<>>, Head(todo).do \in {"save", "uncount", "unset", "set"},
         cat' = cat, todo' = Tail(todo), status' = status, lost' = lost, Running,
         attrs' \subseteq Nat \X Nat, IsFiniteSet(attrs'),
         hdr' \in [next : Nat, files : Nat, folders : Nat], hdr'.next = hdr.next,
         attrs' \subseteq attrs \cup (IF Head(todo).do = "set" THEN {Head(todo).attr} ELSE {}),
         Head(todo).do = "unset" => Head(todo).attr \notin attrs'
  PROVE  IInv'
<1>1. Listed(todo)
  BY DEF IInv, Shapes
<1>2. Head(todo) = todo[1] /\ Listed(todo') /\ Shifted(todo, 2, todo', -1)
  BY <1>1, ListedTail, ShiftedTail
<1>3. Shapes' /\ LostIds' = LostIds
  BY <1>1, <1>2, KeptShapes DEF IInv, Shapes, Running
<1>4. PICK l \in Nat \ {0} : l = Len(todo) /\ Len(todo') = l - 1
  BY <1>1, ListedLen, ListedTail
<1>5. CASE Resting
  <2>1. ~RemovingAt(cat, todo, 1, 1)
    BY <1>2 DEF RemovingAt
  <2>2. Settles(cat, todo[1]) /\ Rest(cat, todo, 2)
    BY <1>1, <1>5, <2>1, RestHead DEF Resting
  <2>3. Rest(cat, todo', 1)
    <3>1. Rest(cat, todo', 2 + (-1))
      BY <1>2, <2>2, ShiftRest
    <3>2. 2 + (-1) = 1
      OBVIOUS
    <3>3. QED
      BY <3>1, <3>2
  <2>4. AllOwned(attrs', cat)
    <3>1. CASE Head(todo).do = "set"
      <4>1. HasThread(cat, Head(todo).attr)
        BY <1>2, <2>2, <3>1 DEF Settles
      <4>2. QED
        BY <1>5, <3>1, <4>1 DEF Resting, AllOwned
    <3>2. CASE Head(todo).do # "set"
      BY <1>5, <3>2 DEF Resting, AllOwned
    <3>3. QED
      BY <3>1, <3>2
  <2>5. Resting'
    BY <1>3, <1>5, <2>3, <2>4 DEF Resting
  <2>6. QED
    BY <1>3, <2>5 DEF IInv
<1>6. CASE Coming
  BY <1>2, <1>6 DEF Coming, Adding
<1>7. CASE Filling
  BY <1>2, <1>7 DEF Filling
<1>8. CASE Clearing
  <2>1. PICK p \in 1 .. l, id \in IdsIn(cat) : ClearingAt(id, p)
    BY <1>4, <1>8 DEF Clearing
  <2> DEFINE c == Without(cat, ThreadKey(id))
  <2>2. /\ todo[p] = Drop(ThreadKey(id)) /\ ThreadKey(id) \in DOMAIN cat
        /\ Tidy(c, LostIds, hdr.next)
        /\ \A i \in 1 .. p - 1 : todo[i] = Strip(id) \/ todo[i].do = "unset"
        /\ \A attr \in attrs : HasThread(c, attr) \/
             (attr[1] = id /\ \E i \in 1 .. p - 1 :
                                todo[i] = Strip(id) \/ todo[i] = Unset(attr))
        /\ Settling(c, todo, p + 1)
    BY <2>1 DEF ClearingAt
  <2>3. p # 1
    BY <1>2, <2>2 DEF Drop
  <2>4. 1 \in 1 .. p - 1 /\ p \in 2 .. l
    BY <2>3
  <2>5. todo[1] # Strip(id) /\ todo[1].do = "unset"
    BY <1>2, <2>2, <2>4 DEF Strip
  <2>6. attrs' \subseteq attrs /\ todo[1].attr \notin attrs'
    BY <1>2, <2>5
  <2>7. \A i \in 2 .. l : todo'[i - 1] = todo[i]
    BY <1>1, <1>4, ListedTail
  <2> HIDE DEF c
  <2>8. todo'[p - 1] = Drop(ThreadKey(id))
    BY <2>2, <2>4, <2>7
  <2>9. ASSUME NEW i \in 1 .. (p - 1) - 1
        PROVE  todo'[i] = Strip(id) \/ todo'[i].do = "unset"
    <3>1. i + 1 \in 1 .. p - 1 /\ i + 1 \in 2 .. l /\ (i + 1) - 1 = i
      BY <2>4
    <3>2. todo'[i] = todo[i + 1]
      BY <2>7, <3>1
    <3>3. QED
      BY <2>2, <3>1, <3>2
  <2>10. ASSUME NEW attr \in attrs'
         PROVE  HasThread(c, attr) \/
                  (attr[1] = id /\ \E i \in 1 .. (p - 1) - 1 :
                                     todo'[i] = Strip(id) \/ todo'[i] = Unset(attr))
    <3>1. CASE HasThread(c, attr)
      BY <3>1
    <3>2. CASE attr[1] = id /\ \E i \in 1 .. p - 1 : todo[i] = Strip(id) \/ todo[i] = Unset(attr)
      <4>1. PICK i \in 1 .. p - 1 : todo[i] = Strip(id) \/ todo[i] = Unset(attr)
        BY <3>2
      <4>2. Unset(attr).attr = attr
        BY DEF Unset
      <4>3. i # 1
        BY <2>5, <2>6, <4>1, <4>2
      <4>4. i - 1 \in 1 .. (p - 1) - 1 /\ i \in 2 .. l
        BY <2>4, <4>3
      <4>5. todo'[i - 1] = todo[i]
        BY <2>7, <4>4
      <4>6. QED
        BY <3>2, <4>1, <4>4, <4>5
    <3>3. attr \in attrs
      BY <2>6
    <3>4. QED
      BY <2>2, <3>1, <3>2, <3>3
  <2>11. Settling(c, todo', (p - 1) + 1)
    <3>1. Settling(c, todo', (p + 1) + (-1))
      BY <1>2, <2>2, <2>4, ShiftSettling
    <3>2. (p + 1) + (-1) = (p - 1) + 1
      OBVIOUS
    <3>3. QED
      BY <3>1, <3>2
  <2>12. ClearingAt(id, p - 1)'
    BY <1>3, <2>2, <2>8, <2>9, <2>10, <2>11 DEF ClearingAt, c
  <2>13. p - 1 \in 1 .. Len(todo')
    BY <1>4, <2>4
  <2>14. Clearing'
    BY <2>12, <2>13 DEF Clearing
  <2>15. QED
    BY <1>3, <2>14 DEF IInv
<1>9. CASE Crossing
  BY <1>2, <1>9 DEF Crossing
<1>10. CASE Departing
  BY <1>2, <1>10 DEF Departing
<1>11. QED
  BY <1>5, <1>6, <1>7, <1>8, <1>9, <1>10 DEF IInv

LEMMA CountsTyped ==
  ASSUME NEW n \in Nat
  PROVE  Up(n) \in Nat /\ Down(n) \in Nat
  BY BoundsAssumption DEF Up, Down

LEMMA Counting ==
  ASSUME IInv, UncountEntry \/ SaveHeader
  PROVE  IInv'
<1>1. /\ todo # <<>> /\ Head(todo).do \in {"save", "uncount"} /\ Running
      /\ cat' = cat /\ todo' = Tail(todo) /\ status' = status /\ lost' = lost
      /\ attrs' = attrs
  BY DEF UncountEntry, SaveHeader, Doing
<1>2. hdr \in [next : Nat, files : Nat, folders : Nat]
  BY DEF IInv, Shapes
<1>3. hdr' \in [next : Nat, files : Nat, folders : Nat] /\ hdr'.next = hdr.next
  <2>1. hdr' \in {hdr, [hdr EXCEPT !.files = Down(hdr.files)],
                  [hdr EXCEPT !.folders = Down(hdr.folders)]}
    BY DEF UncountEntry, SaveHeader
  <2>2. Down(hdr.files) \in Nat /\ Down(hdr.folders) \in Nat
    BY <1>2, CountsTyped
  <2>3. QED
    BY <1>2, <2>1, <2>2
<1>4. attrs \subseteq Nat \X Nat /\ IsFiniteSet(attrs)
  BY DEF IInv, Shapes
<1>5. QED
  BY <1>1, <1>3, <1>4, Slight

LEMMA Unsetting ==
  ASSUME IInv, UnsetAttribute
  PROVE  IInv'
<1>1. /\ todo # <<>> /\ Head(todo).do = "unset" /\ Running
      /\ cat' = cat /\ todo' = Tail(todo) /\ status' = status /\ lost' = lost
      /\ attrs' = attrs \ {Head(todo).attr} /\ hdr' = hdr
  BY DEF UnsetAttribute, Doing
<1>2. /\ attrs \subseteq Nat \X Nat /\ IsFiniteSet(attrs)
      /\ hdr \in [next : Nat, files : Nat, folders : Nat]
  BY DEF IInv, Shapes
<1>3. IsFiniteSet(attrs')
  BY <1>1, <1>2, FS_RemoveElement
<1>4. QED
  BY <1>1, <1>2, <1>3, Slight

LEMMA Setting ==
  ASSUME IInv, AddAttribute
  PROVE  IInv'
<1>1. /\ todo # <<>> /\ Head(todo).do = "set" /\ Running
      /\ cat' = cat /\ todo' = Tail(todo) /\ status' = status /\ lost' = lost
      /\ attrs' = attrs \cup {Head(todo).attr} /\ hdr' = hdr
  BY DEF AddAttribute, Doing
<1>2. /\ attrs \subseteq Nat \X Nat /\ IsFiniteSet(attrs) /\ Listed(todo)
      /\ hdr \in [next : Nat, files : Nat, folders : Nat]
  BY DEF IInv, Shapes
<1>3. IsFiniteSet(attrs')
  BY <1>1, <1>2, FS_AddElement
<1>4. Head(todo) = todo[1]
  BY <1>1, <1>2, ListedTail
<1>5. CASE Resting
  <2>1. ~RemovingAt(cat, todo, 1, 1)
    BY <1>1, <1>4 DEF RemovingAt
  <2>2. Settles(cat, todo[1])
    BY <1>1, <1>2, <1>5, <2>1, RestHead DEF Resting
  <2>3. Head(todo).attr \in Nat \X Nat
    BY <1>1, <1>4, <2>2 DEF Settles
  <2>4. QED
    BY <1>1, <1>2, <1>3, <2>3, Slight
<1>6. CASE Clearing
  <2>1. PICK l \in Nat : l = Len(todo)
    BY <1>2, ListedLen
  <2>2. PICK p \in 1 .. l, id \in IdsIn(cat) : ClearingAt(id, p)
    BY <1>6, <2>1 DEF Clearing
  <2>3. CASE p = 1
    BY <1>1, <1>4, <2>2, <2>3 DEF ClearingAt, Drop
  <2>4. CASE p # 1
    <3>1. 1 \in 1 .. p - 1
      BY <2>4
    <3>2. todo[1] = Strip(id) \/ todo[1].do = "unset"
      BY <2>2, <3>1 DEF ClearingAt
    <3>3. QED
      BY <1>1, <1>4, <3>2 DEF Strip
  <2>5. QED
    BY <2>3, <2>4
<1>7. CASE Coming \/ Filling \/ Crossing \/ Departing
  BY <1>1, <1>4, <1>7 DEF Coming, Adding, Filling, Crossing, Departing
<1>8. QED
  BY <1>5, <1>6, <1>7 DEF IInv

LEMMA Stripping ==
  ASSUME IInv, StripAttributes
  PROVE  IInv'
<1>1. /\ Listed(todo) /\ todo # <<>> /\ Head(todo).do = "strip" /\ Running
      /\ cat' = cat /\ attrs' = attrs /\ hdr' = hdr /\ lost' = lost
      /\ attrs \subseteq Nat \X Nat /\ IsFiniteSet(attrs)
      /\ hdr \in [next : Nat, files : Nat, folders : Nat]
  BY DEF IInv, Shapes, StripAttributes, Doing
<1>2. Head(todo) = todo[1]
  BY <1>1, ListedTail
<1>3. PICK id, own : id = todo[1].id /\ own = {k \in attrs : k[1] = id}
  OBVIOUS
<1>4. CASE AttrPanics(<<id, 0>>)
  <2>1. status' = "panic" /\ todo' = todo
    BY <1>2, <1>3, <1>4 DEF StripAttributes
  <2>2. Shapes' /\ LostIds' = LostIds
    BY <1>1, <2>1, KeptShapes DEF IInv
  <2>3. (Resting <=> Resting') /\ (Coming <=> Coming') /\ (Filling <=> Filling')
    BY <1>1, <2>1, <2>2 DEF Resting, Coming, Filling
  <2>4. (Crossing <=> Crossing') /\ (Departing <=> Departing')
    BY <1>1, <2>1, <2>2 DEF Crossing, Departing
  <2>5. Clearing <=> Clearing'
    BY <1>1, <2>1, <2>2 DEF Clearing, ClearingAt
  <2>6. QED
    BY <2>2, <2>3, <2>4, <2>5 DEF IInv
<1>5. CASE ~AttrPanics(<<id, 0>>)
  <2>1. PICK n : n = Cardinality(own)
    OBVIOUS
  <2>2. own \subseteq Nat \X Nat /\ IsFiniteSet(own)
    BY <1>1, <1>3, FS_Subset
  <2>3. n \in Nat
    BY <2>1, <2>2, FS_CardinalityType
  <2>4. PICK s : s = [i \in 1 .. n |-> Unset(Nth(own, i))]
    OBVIOUS
  <2>5. Listed(s) /\ Len(s) = n /\ \A i \in 1 .. n : s[i] = Unset(Nth(own, i))
    <3>1. PICK T : T = {Unset(Nth(own, i)) : i \in 1 .. n}
      OBVIOUS
    <3>2. s \in [1 .. n -> T]
      BY <2>4, <3>1
    <3>3. s \in Seq(T) /\ Len(s) = n
      BY <2>3, <3>2
    <3>4. QED
      BY <2>4, <3>3 DEF Listed
  <2>6. todo' = s \o Tail(todo) /\ status' = status
    BY <1>2, <1>3, <1>5, <2>1, <2>4 DEF StripAttributes
  <2>7. /\ Listed(todo') /\ Shifted(todo, 2, todo', n - 1)
        /\ \A i \in 1 .. n : todo'[i] = s[i]
    BY <1>1, <2>5, <2>6, ShiftedHead
  <2>8. Shapes' /\ LostIds' = LostIds
    BY <1>1, <2>6, <2>7, KeptShapes DEF IInv, Running
  <2>9. PICK l \in Nat \ {0} : l = Len(todo) /\ Len(todo') = l + (n - 1)
    BY <1>1, <2>7, ListedLen DEF Shifted
  <2>10. CASE Resting
    <3>1. ~RemovingAt(cat, todo, 1, 1) /\ ~Settles(cat, todo[1])
      BY <1>1, <1>2 DEF RemovingAt, Settles
    <3>2. QED
      BY <1>1, <2>10, <3>1, RestHead DEF Resting
  <2>11. CASE Clearing
    <3>1. PICK p \in 1 .. l, jd \in IdsIn(cat) : ClearingAt(jd, p)
      BY <2>9, <2>11 DEF Clearing
    <3> DEFINE c == Without(cat, ThreadKey(jd))
               q == p + (n - 1)
    <3>2. /\ todo[p] = Drop(ThreadKey(jd)) /\ ThreadKey(jd) \in DOMAIN cat
          /\ Tidy(c, LostIds, hdr.next)
          /\ \A i \in 1 .. p - 1 : todo[i] = Strip(jd) \/ todo[i].do = "unset"
          /\ \A attr \in attrs : HasThread(c, attr) \/
               (attr[1] = jd /\ \E i \in 1 .. p - 1 :
                                  todo[i] = Strip(jd) \/ todo[i] = Unset(attr))
          /\ Settling(c, todo, p + 1)
      BY <3>1 DEF ClearingAt
    <3>3. p # 1
      BY <1>1, <1>2, <3>2 DEF Drop
    <3>4. 1 \in 1 .. p - 1 /\ p \in 2 .. l
      BY <3>3
    <3>5. todo[1] = Strip(jd)
      BY <1>1, <1>2, <3>2, <3>4
    <3>6. jd = id
      BY <1>3, <3>5 DEF Strip
    <3>7. \A i \in 2 .. l : todo'[i + (n - 1)] = todo[i]
      BY <2>7, <2>9 DEF Shifted
    <3> HIDE DEF c
    <3>8. todo'[q] = Drop(ThreadKey(jd))
      BY <3>2, <3>4, <3>7
    <3>9. q \in 1 .. Len(todo') /\ q \in Nat /\ n < q + 1
      BY <2>3, <2>9, <3>4
    <3>10. ASSUME NEW i \in 1 .. q - 1
           PROVE  todo'[i] = Strip(jd) \/ todo'[i].do = "unset"
      <4>1. CASE i <= n
        <5>1. i \in 1 .. n
          BY <4>1
        <5>2. todo'[i] = Unset(Nth(own, i))
          BY <2>5, <2>7, <5>1
        <5>3. QED
          BY <5>2 DEF Unset
      <4>2. CASE ~(i <= n)
        <5>1. PICK j \in Int : j = i - (n - 1)
          BY <2>3
        <5>2. j \in 2 .. l /\ j \in 1 .. p - 1 /\ j + (n - 1) = i
          BY <2>3, <4>2, <5>1
        <5>3. todo'[i] = todo[j]
          BY <3>7, <5>2
        <5>4. QED
          BY <3>2, <5>2, <5>3
      <4>3. QED
        BY <4>1, <4>2
    <3>11. ASSUME NEW attr \in attrs
           PROVE  HasThread(c, attr) \/
                    (attr[1] = jd /\ \E i \in 1 .. q - 1 :
                                       todo'[i] = Strip(jd) \/ todo'[i] = Unset(attr))
      <4>1. CASE HasThread(c, attr)
        BY <4>1
      <4>2. CASE attr[1] = jd
        <5>1. attr \in own
          BY <1>3, <3>6, <4>2
        <5>2. PICK i \in 1 .. n : Nth(own, i) = attr
          BY <2>1, <2>2, <5>1, NthAll
        <5>3. todo'[i] = Unset(attr)
          BY <2>5, <2>7, <5>2
        <5>4. i \in 1 .. q - 1
          BY <2>3, <3>4
        <5>5. QED
          BY <4>2, <5>3, <5>4
      <4>3. QED
        BY <3>2, <4>1, <4>2
    <3>12. Settling(c, todo', q + 1)
      <4>1. Settling(c, todo', (p + 1) + (n - 1))
        <5>1. 2 <= p + 1 /\ n - 1 \in Int
          BY <2>3, <3>4
        <5>2. QED
          BY <2>7, <3>2, <5>1, ShiftSettling
      <4>2. (p + 1) + (n - 1) = q + 1
        BY <2>3
      <4>3. QED
        BY <4>1, <4>2
    <3>13. PICK r \in Nat : r = q
      BY <3>9
    <3> HIDE DEF q
    <3>14. ClearingAt(jd, r)'
      BY <1>1, <2>8, <3>2, <3>8, <3>10, <3>11, <3>12, <3>13 DEF ClearingAt, c
    <3>15. Clearing'
      BY <1>1, <3>9, <3>13, <3>14 DEF Clearing
    <3>16. QED
      BY <2>8, <3>15 DEF IInv
  <2>12. CASE Coming \/ Filling \/ Crossing \/ Departing
    BY <1>1, <1>2, <2>12 DEF Coming, Adding, Filling, Crossing, Departing
  <2>13. QED
    BY <2>10, <2>11, <2>12 DEF IInv
<1>6. QED
  BY <1>4, <1>5

-----------------------------------------------------------------------------
(* What the operations begin with.                                         *)

LEMMA IdleTidy ==
  ASSUME IInv, Idle
  PROVE  /\ Tidy(cat, LostIds, hdr.next) /\ AllOwned(attrs, cat)
         /\ hdr.next \in Nat /\ \A id \in LostIds : id \in Nat /\ id < hdr.next
         /\ todo = <<>> /\ status = "running" /\ Shapes
<1>1. Len(todo) = 0 /\ todo = <<>> /\ status = "running"
  BY ListedNone DEF Idle, Running
<1>2. 1 .. Len(todo) = {}
  BY <1>1
<1>3. ~Coming /\ ~Filling /\ ~Clearing /\ ~Crossing /\ ~Departing
  BY <1>1, <1>2 DEF Coming, Adding, Filling, Clearing, Crossing, Departing
<1>4. Resting
  BY <1>3 DEF IInv
<1>5. QED
  BY <1>1, <1>4 DEF IInv, Shapes, Resting

LEMMA PathSeq ==
  ASSUME NEW path \in Paths
  PROVE  path \in Seq(Names) /\ path # <<>>
<1>1. PICK n \in 1 .. MaxDepth : path \in [1 .. n -> Names]
  BY DEF Paths
<1>2. MaxDepth \in Nat
  BY BoundsAssumption
<1>3. path \in Seq(Names) /\ Len(path) = n /\ n # 0
  BY <1>1, <1>2
<1>4. QED
  BY <1>3, ListedNone

LEMMA TidyIds ==
  ASSUME NEW c, NEW gone, NEW next \in Nat, Tidy(c, gone, next), NEW k \in RecordKeys(c)
  PROVE  c[k].id \in Nat \ {NoFolder} /\ c[k].id < next
<1>1. PICK id : id = c[k].id /\ id \in Nat /\ ThreadKey(id) \in DOMAIN c
  BY TidyNamed
<1>2. IsThread(ThreadKey(id)) /\ ThreadKey(id)[1] = id
  BY ThreadKeyParts
<1>3. ThreadKey(id) \in Keys /\ ThreadKey(id)[1] < next
  BY <1>1, <1>2, TidyThread
<1>4. id # NoFolder
  BY <1>2, <1>3, KeyPair
<1>5. QED
  BY <1>1, <1>2, <1>3, <1>4

(* The record of a folder that a path leads to.                            *)
LEMMA FolderRecord ==
  ASSUME NEW c, NEW gone, NEW next, Tidy(c, gone, next),
         NEW path \in Seq(Names), FolderAt(c, path) # NoFolder
  PROVE  \E k \in RecordKeys(c) :
           /\ RecordById(c, FolderAt(c, path)) = c[k] /\ c[k].id = FolderAt(c, path)
           /\ c[k].kind = "folder" /\ c[k] \in RecTypes
<1>1. PICK k \in RecordKeys(c) : c[k].id = FolderAt(c, path) /\ c[k].kind = "folder"
  BY FolderHeld
<1>2. RecordById(c, c[k].id) = c[k] /\ c[k] \in RecTypes
  BY TidyNamed
<1>3. QED
  BY <1>1, <1>2

LEMMA KeyAtKey ==
  ASSUME NEW c, NEW gone, NEW next, Tidy(c, gone, next),
         NEW path \in Paths, FolderAt(c, Front(path)) # NoFolder
  PROVE  KeyAt(c, path) \in Keys /\ ~IsThread(KeyAt(c, path))
<1>1. path \in Seq(Names) /\ path # <<>> /\ Front(path) \in Seq(Names) /\ Last(path) \in Names
  BY PathSeq, FrontParts
<1>2. PICK k \in RecordKeys(c) : c[k].id = FolderAt(c, Front(path)) /\ c[k] \in RecTypes
  BY <1>1, FolderRecord
<1>3. PICK id : id = FolderAt(c, Front(path)) /\ id \in Nat /\ id # NoFolder
  BY <1>2, RecordParts
<1>4. PICK name \in Names : name = Last(path)
  BY <1>1
<1>5. KeyAt(c, path) = <<id, name>>
  BY <1>3, <1>4 DEF KeyAt
<1>6. <<id, name>> \in Keys
  BY <1>3 DEF Keys
<1>7. QED
  BY <1>1, <1>5, <1>6, KeyAtParts

(* What a path leads to, and the folder it is in, which is another record. *)
LEMMA FoundParts ==
  ASSUME NEW c, NEW gone, NEW next \in Nat, Tidy(c, gone, next),
         NEW path \in Paths, Found(c, path)
  PROVE  LET key == KeyAt(c, path)
         IN  /\ key \in RecordKeys(c) /\ key # RootKey /\ key \in DOMAIN c
             /\ c[key] \in RecTypes
             /\ key[1] = FolderAt(c, Front(path)) /\ key[1] # NoFolder
             /\ \E k \in RecordKeys(c) :
                  /\ RecordById(c, key[1]) = c[k] /\ c[k] \in RecTypes
                  /\ k # key
<1> DEFINE key == KeyAt(c, path)
<1>1. /\ path \in Seq(Names) /\ path # <<>> /\ Front(path) \in Seq(Names)
      /\ Len(path) \in Nat /\ Len(Front(path)) = Len(path) - 1
  BY PathSeq, FrontParts
<1>2. /\ key[1] = FolderAt(c, Front(path)) /\ ~IsThread(key) /\ key # RootKey
      /\ key \in DOMAIN c
  BY <1>1, KeyAtParts DEF Found
<1>3. key \in RecordKeys(c)
  BY <1>2, RecordKeysOf
<1>4. key \in Keys /\ c[key] \in RecTypes
  BY <1>3, TidyNamed
<1>5. key[1] # NoFolder
  BY <1>4, KeyPair
<1>6. FolderAt(c, Front(path)) # NoFolder
  BY <1>2, <1>5
<1>7. PICK k \in RecordKeys(c) :
        /\ RecordById(c, FolderAt(c, Front(path))) = c[k]
        /\ c[k].id = FolderAt(c, Front(path))
        /\ c[k].kind = "folder" /\ c[k] \in RecTypes
  BY <1>1, <1>6, FolderRecord
<1>8. k # key
  <2>1. SUFFICES ASSUME k = key PROVE FALSE
    OBVIOUS
  <2>2. FolderAt(c, path) = c[key].id
    BY <1>1, <1>2, <1>7, <2>1, FolderAtStep
  <2>3. FolderAt(c, path) = FolderAt(c, Front(path))
    BY <1>7, <2>1, <2>2
  <2>4. Front(path) = path
    BY <1>1, <1>6, <2>3, FolderOne
  <2>5. QED
    BY <1>1, <2>4
<1> HIDE DEF key
<1>9. RecordById(c, key[1]) = c[k]
  BY <1>2, <1>7
<1>10. QED
  BY <1>2, <1>3, <1>4, <1>5, <1>7, <1>8, <1>9 DEF key

LEMMA RootTyped == RootRecord \in RecTypes /\ RootRecord.kind = "folder"
                   /\ RootRecord.id = kHFSRootFolderID
<1>1. PICK i : i = (CHOOSE j \in Infos : TRUE) /\ i \in Infos
  BY BoundsAssumption
<1>2. RootRecord = [kind |-> "folder", id |-> kHFSRootFolderID, valence |-> 0,
                    folders |-> 0, info |-> i]
  BY <1>1 DEF RootRecord
<1>3. QED
  BY <1>1, <1>2 DEF RecTypes, kHFSRootFolderID

LEMMA NewTyped ==
  ASSUME NEW kind \in {"file", "folder"}, NEW id \in Nat
  PROVE  /\ NewRecord(kind, id) \in RecTypes
         /\ NewRecord(kind, id).id = id /\ NewRecord(kind, id).kind = kind
<1>1. PICK r \in RecTypes : r = RootRecord
  BY RootTyped
<1>2. NewRecord(kind, id) = [r EXCEPT !.kind = kind, !.id = id]
  BY <1>1 DEF NewRecord
<1>3. PICK s : s = [r EXCEPT !.kind = kind, !.id = id]
  OBVIOUS
<1>4. s \in RecTypes /\ s.id = id /\ s.kind = kind
  BY <1>3 DEF RecTypes
<1>5. QED
  BY <1>2, <1>3, <1>4

LEMMA ValenceTyped ==
  ASSUME NEW r \in RecTypes, NEW n \in Nat
  PROVE  /\ [r EXCEPT !.valence = n] \in RecTypes
         /\ [r EXCEPT !.valence = n].id = r.id /\ [r EXCEPT !.valence = n].kind = r.kind
  BY DEF RecTypes

LEMMA PlusTyped ==
  ASSUME NEW r \in RecTypes, NEW kind
  PROVE  Plus(r, kind) \in RecTypes /\ Plus(r, kind).id = r.id /\ Plus(r, kind).kind = r.kind
<1>1. PICK n, m \in Nat : n = Up(r.valence) /\ m = IF kind = "folder" THEN Up(r.folders)
                                                   ELSE r.folders
  BY RecordParts, CountsTyped
<1>2. Plus(r, kind) = [r EXCEPT !.valence = n, !.folders = m]
  BY <1>1 DEF Plus
<1>3. QED
  <2>1. PICK s : s = [r EXCEPT !.valence = n, !.folders = m]
    OBVIOUS
  <2>2. s \in RecTypes /\ s.id = r.id /\ s.kind = r.kind
    BY <2>1 DEF RecTypes
  <2>3. QED
    BY <1>2, <2>1, <2>2

LEMMA MinusTyped ==
  ASSUME NEW r \in RecTypes, NEW kind
  PROVE  Minus(r, kind) \in RecTypes /\ Minus(r, kind).id = r.id /\ Minus(r, kind).kind = r.kind
<1>1. PICK n, m \in Nat : n = Down(r.valence) /\ m = IF kind = "folder" THEN Down(r.folders)
                                                     ELSE r.folders
  BY RecordParts, CountsTyped
<1>2. Minus(r, kind) = [r EXCEPT !.valence = n, !.folders = m]
  BY <1>1 DEF Minus
<1>3. QED
  <2>1. PICK s : s = [r EXCEPT !.valence = n, !.folders = m]
    OBVIOUS
  <2>2. s \in RecTypes /\ s.id = r.id /\ s.kind = r.kind
    BY <2>1 DEF RecTypes
  <2>3. QED
    BY <1>2, <2>1, <2>2

LEMMA SettlesSave == \A c : Settles(c, Save)
  BY DEF Settles, Save

LEMMA SettlesUpdate ==
  ASSUME NEW c, NEW rec, Rewrites(c, rec)
  PROVE  Settles(c, Update(rec))
  BY DEF Settles, Update

(* Two writes put a record and its thread.                                 *)
LEMMA PlaceAdds ==
  ASSUME NEW c, NEW gone, NEW next \in Nat, Tidy(c, gone, next),
         NEW key \in Keys, ~IsThread(key),
         NEW rec \in RecTypes, rec.id # NoFolder, rec.id < next,
         ThreadKey(rec.id) \notin DOMAIN c,
         key \in DOMAIN c <=> rec.id \in gone,
         NEW as, \A attr \in as : ThreadKey(attr[1]) \in DOMAIN c \cup {ThreadKey(rec.id)},
         NEW t, NEW m \in Nat, Len(t) \in Nat, m < Len(t),
         t[m] = Put(key, rec), t[m + 1] = Put(ThreadKey(rec.id), Thread(rec.kind, key)),
         Settling(Added(Added(c, key, rec), ThreadKey(rec.id), Thread(rec.kind, key)),
                  t, m + 2)
  PROVE  Adding(c, as, gone, next, t, m)
<1>1. PICK f : f = Added(Added(c, key, rec), ThreadKey(rec.id), Thread(rec.kind, key))
  OBVIOUS
<1>2. Tidy(f, gone, next) /\ DOMAIN f = DOMAIN c \cup {key, ThreadKey(rec.id)}
  <2>1. Tidy(Added(Added(c, key, rec), ThreadKey(rec.id), Thread(rec.kind, key)), gone, next)
    BY TidyPlace, Zenon
  <2>2. DOMAIN Added(Added(c, key, rec), ThreadKey(rec.id), Thread(rec.kind, key)) =
          DOMAIN c \cup {key, ThreadKey(rec.id)}
    <3>1. PICK d : d = Added(c, key, rec) /\ DOMAIN d = DOMAIN c \cup {key}
      BY AddedDomain
    <3>2. DOMAIN Added(d, ThreadKey(rec.id), Thread(rec.kind, key)) =
            DOMAIN d \cup {ThreadKey(rec.id)}
      BY AddedDomain
    <3>3. QED
      BY <3>1, <3>2
  <2>3. QED
    BY <1>1, <2>1, <2>2
<1>3. /\ t[m].do = "put" /\ t[m].key = key /\ t[m].rec = rec
      /\ t[m + 1].do = "put" /\ t[m + 1].key = ThreadKey(rec.id)
      /\ t[m + 1].rec = Thread(rec.kind, key)
  BY DEF Put
<1>4. Put2(c, t, m) = f
  BY <1>1, <1>3 DEF Put1, Put2
<1>5. AllOwned(as, f)
  BY <1>2 DEF AllOwned, HasThread
<1>6. QED
  BY <1>1, <1>2, <1>3, <1>4, <1>5 DEF Adding

LEMMA PlaceKeeps ==
  ASSUME NEW c, NEW key, NEW rec, NEW tk, NEW th, NEW k \in RecordKeys(c),
         NEW new \in RecTypes, c[k].id = new.id, c[k].kind = new.kind
  PROVE  Rewrites(Added(Added(c, key, rec), tk, th), new)
<1>1. PICK d : d = Added(c, key, rec)
  OBVIOUS
<1>2. k \in DOMAIN c /\ ~IsThread(k)
  BY RecordKeysOf
<1>3. DOMAIN d = DOMAIN c \cup {key}
  BY <1>1, AddedDomain
<1>4. d[k] = c[k]
  BY <1>1, <1>2, AddedOld
<1>5. PICK f : f = Added(d, tk, th)
  OBVIOUS
<1>6. DOMAIN f = DOMAIN d \cup {tk}
  BY <1>5, AddedDomain
<1>7. f[k] = d[k]
  BY <1>2, <1>3, <1>5, AddedOld
<1>8. k \in RecordKeys(f) /\ f[k] = c[k]
  BY <1>2, <1>3, <1>4, <1>6, <1>7, RecordKeysOf
<1>9. QED
  BY <1>1, <1>5, <1>8 DEF Rewrites

LEMMA PlaceHolds ==
  ASSUME NEW c, NEW key, ~IsThread(key), key \notin DOMAIN c, NEW rec \in RecTypes,
         NEW tk, tk # key, NEW th
  PROVE  Rewrites(Added(Added(c, key, rec), tk, th), rec)
<1>1. PICK d : d = Added(c, key, rec)
  OBVIOUS
<1>2. DOMAIN d = DOMAIN c \cup {key}
  BY <1>1, AddedDomain
<1>3. d[key] = rec
  BY <1>1, AddedNew
<1>4. PICK f : f = Added(d, tk, th)
  OBVIOUS
<1>5. DOMAIN f = DOMAIN d \cup {tk}
  BY <1>4, AddedDomain
<1>6. f[key] = d[key]
  BY <1>2, <1>4, AddedOld
<1>7. key \in RecordKeys(f) /\ f[key] = rec
  BY <1>2, <1>3, <1>5, <1>6, RecordKeysOf
<1>8. QED
  BY <1>1, <1>4, <1>7 DEF Rewrites

-----------------------------------------------------------------------------
(* The operations keep the invariant.                                      *)

LEMMA Resuming ==
  ASSUME IInv, Idle, cat' = cat, attrs' = attrs, hdr' = hdr, lost' = lost,
         status' = status, Listed(todo'), Rest(cat, todo', 1)
  PROVE  IInv'
<1>1. /\ Tidy(cat, LostIds, hdr.next) /\ AllOwned(attrs, cat) /\ Shapes
      /\ status = "running"
  BY IdleTidy
<1>2. Shapes' /\ LostIds' = LostIds
  <2>1. /\ attrs \subseteq Nat \X Nat /\ IsFiniteSet(attrs)
        /\ hdr \in [next : Nat, files : Nat, folders : Nat]
    BY <1>1 DEF Shapes
  <2>2. QED
    BY <1>1, <2>1, KeptShapes
<1>3. Resting'
  BY <1>1, <1>2 DEF Resting
<1>4. QED
  BY <1>2, <1>3 DEF IInv

(* The process stops between two operations.                               *)
LEMMA Stopping ==
  ASSUME IInv, Idle, UNCHANGED <<cat, attrs, hdr, disk, todo, drift, lost>>,
         status' \in {"exited", "panic"}
  PROVE  IInv'
<1>1. /\ Tidy(cat, LostIds, hdr.next) /\ AllOwned(attrs, cat) /\ Shapes /\ todo = <<>>
  BY IdleTidy
<1>2. Resting
  BY <1>1, ListedNone DEF Resting, Rest, Settling
<1>3. LostIds' = LostIds
  BY DEF LostIds
<1>4. Shapes'
  BY <1>1, <1>3 DEF Shapes
<1>5. Resting'
  BY <1>2, <1>3 DEF Resting
<1>6. QED
  BY <1>4, <1>5 DEF IInv

LEMMA CountedTyped ==
  ASSUME hdr \in [next : Nat, files : Nat, folders : Nat], NEW kind
  PROVE  /\ Counted(kind) \in [next : Nat, files : Nat, folders : Nat]
         /\ Counted(kind).next = hdr.next + 1
<1>1. PICK n \in Nat : n = hdr.next + 1
  OBVIOUS
<1>2. PICK i \in Nat : i = IF kind = "file" THEN Up(hdr.files) ELSE hdr.files
  BY CountsTyped
<1>3. PICK j \in Nat : j = IF kind = "folder" THEN Up(hdr.folders) ELSE hdr.folders
  BY CountsTyped
<1>4. Counted(kind) = [next |-> n, files |-> i, folders |-> j]
  BY <1>1, <1>2, <1>3 DEF Counted
<1>5. QED
  BY <1>1, <1>4

(* newFolder and newFile, with what else they write.                       *)
LEMMA Creating ==
  ASSUME IInv, Idle, NEW path \in Paths, CanCreate(path),
         NEW kind \in {"file", "folder"}, NEW more,
         Listed(more), \A i \in 1 .. Len(more) :
           \/ more[i] = Save
           \/ more[i] = Update(NewRecord(kind, hdr.next)) /\ ~Found(cat, path),
         cat' = cat, attrs' = attrs, status' = status, hdr' = Counted(kind),
         todo' = Creation(kind, path) \o more,
         LostIds' = IF Found(cat, path) THEN LostIds \cup {hdr.next} ELSE LostIds
  PROVE  IInv'
<1>1. /\ Tidy(cat, LostIds, hdr.next) /\ AllOwned(attrs, cat) /\ hdr.next \in Nat
      /\ \A id \in LostIds : id \in Nat /\ id < hdr.next
      /\ Shapes /\ status = "running"
  BY IdleTidy
<1>2. PICK next \in Nat : next = hdr.next
  BY <1>1
<1>3. PICK key : key = KeyAt(cat, path)
  OBVIOUS
<1>4. PICK rec : rec = NewRecord(kind, next)
  OBVIOUS
<1>5. FolderAt(cat, Front(path)) # NoFolder
  BY DEF CanCreate
<1>6. /\ path \in Seq(Names) /\ path # <<>> /\ Front(path) \in Seq(Names)
      /\ key[1] = FolderAt(cat, Front(path))
  BY <1>3, PathSeq, FrontParts, KeyAtParts
<1>7. key \in Keys /\ ~IsThread(key)
  BY <1>1, <1>3, <1>5, KeyAtKey
<1>8. rec \in RecTypes /\ rec.id = next /\ rec.kind = kind
  BY <1>2, <1>4, NewTyped
<1>9. PICK k \in RecordKeys(cat) :
        RecordById(cat, FolderAt(cat, Front(path))) = cat[k] /\ cat[k] \in RecTypes
  BY <1>1, <1>5, <1>6, FolderRecord
<1>10. PICK plus : plus = Plus(cat[k], kind)
  OBVIOUS
<1>11. plus \in RecTypes /\ plus.id = cat[k].id /\ plus.kind = cat[k].kind
  BY <1>9, <1>10, PlusTyped
<1> DEFINE tk == ThreadKey(next)
           th == Thread(kind, key)
<1>12. PICK t : t = <<Put(key, rec), Put(tk, th), Update(plus), Save>>
  OBVIOUS
<1>13. RecordById(cat, key[1]) = cat[k]
  BY <1>6, <1>9
<1>14. Creation(kind, path) = t
  BY <1>2, <1>3, <1>4, <1>10, <1>12, <1>13 DEF Creation
<1>15. /\ Listed(t) /\ Len(t) = 4 /\ t[1] = Put(key, rec) /\ t[2] = Put(tk, th)
       /\ t[3] = Update(plus) /\ t[4] = Save
  BY <1>12, ListedFour
<1>16. PICK n \in Nat : n = Len(more)
  BY ListedLen
<1>17. /\ Listed(todo') /\ Len(todo') = 4 + n
       /\ \A i \in 1 .. 4 : todo'[i] = t[i]
       /\ \A i \in 1 .. n : todo'[4 + i] = more[i]
  <2>1. PICK u : u = t \o more
    OBVIOUS
  <2>2. Joined(t, more, u)
    BY <1>15, <2>1, ListedJoined
  <2>3. /\ Listed(u) /\ Len(u) = 4 + n /\ (\A i \in 1 .. 4 : u[i] = t[i])
        /\ \A i \in 1 .. n : u[4 + i] = more[i]
    BY <1>15, <1>16, <2>2 DEF Joined
  <2>4. todo' = u
    BY <1>14, <2>1
  <2>5. QED
    BY <2>3, <2>4
<1>18. next # NoFolder /\ tk \notin DOMAIN cat /\ (\A j \in RecordKeys(cat) : cat[j].id # next)
  <2>1. \A j \in RecordKeys(cat) : cat[j].id \in Nat \ {NoFolder} /\ cat[j].id < next
    BY <1>1, <1>2, TidyIds
  <2>2. next # NoFolder
    BY <2>1 DEF NoFolder
  <2>3. IsThread(tk) /\ tk[1] = next
    BY ThreadKeyParts
  <2>4. tk \in DOMAIN cat => next < next
    BY <1>1, <1>2, <2>3, TidyThread
  <2>5. QED
    BY <2>1, <2>2, <2>4
<1>19. PICK gone : gone = IF Found(cat, path) THEN LostIds \cup {next} ELSE LostIds
  OBVIOUS
<1>20. LostIds' = gone /\ hdr'.next = next + 1 /\ next + 1 \in Nat
  BY <1>1, <1>2, <1>19, CountedTyped DEF Shapes
<1>21. Tidy(cat, gone, next + 1)
  <2>1. \A j \in RecordKeys(cat) : cat[j].id \notin gone
    BY <1>1, <1>18, <1>19, TidyNamed
  <2>2. LostIds \subseteq gone /\ next <= next + 1
    BY <1>19
  <2>3. QED
    BY <1>1, <1>2, <1>20, <2>1, <2>2, TidyWiden
<1>22. next \notin LostIds
  BY <1>1, <1>2
<1>23. key \in DOMAIN cat <=> next \in gone
  BY <1>3, <1>19, <1>22 DEF Found
<1>24. PICK f : f = Added(Added(cat, key, rec), tk, th)
  OBVIOUS
<1>25. Rewrites(f, plus)
  BY <1>11, <1>24, PlaceKeeps
<1>26. ~Found(cat, path) => Rewrites(f, rec)
  <2>1. tk # key
    BY <1>7, ThreadKeyParts
  <2>2. QED
    BY <1>3, <1>7, <1>8, <1>24, <2>1, PlaceHolds DEF Found
<1>27. ASSUME NEW i \in 3 .. 4 + n PROVE Settles(f, todo'[i])
  <2>1. CASE i = 3
    BY <1>15, <1>17, <1>25, <2>1, SettlesUpdate
  <2>2. CASE i = 4
    BY <1>15, <1>17, <2>2, SettlesSave
  <2>3. CASE i \notin {3, 4}
    <3>1. i - 4 \in 1 .. n /\ 4 + (i - 4) = i
      BY <2>3
    <3>2. todo'[i] = more[i - 4]
      BY <1>17, <3>1
    <3>3. CASE more[i - 4] = Save
      BY <3>2, <3>3, SettlesSave
    <3>4. CASE more[i - 4] = Update(rec) /\ ~Found(cat, path)
      BY <1>26, <3>2, <3>4, SettlesUpdate
    <3>5. QED
      BY <1>2, <1>4, <1>16, <3>1, <3>3, <3>4
  <2>4. QED
    BY <2>1, <2>2, <2>3
<1>28. Settling(f, todo', 1 + 2)
  BY <1>17, <1>27 DEF Settling
<1>29. \A attr \in attrs : ThreadKey(attr[1]) \in DOMAIN cat \cup {tk}
  BY <1>1 DEF AllOwned, HasThread
<1>30. todo'[1] = Put(key, rec) /\ todo'[1 + 1] = Put(tk, th)
  BY <1>15, <1>17
<1>31. 1 < Len(todo') /\ Len(todo') \in Nat /\ next < next + 1
  BY <1>17
<1>32. PICK u : u = todo'
  OBVIOUS
<1>33. Adding(cat, attrs, gone, next + 1, u, 1)
  BY <1>7, <1>8, <1>18, <1>20, <1>21, <1>23, <1>24, <1>28, <1>29, <1>30, <1>31, <1>32, PlaceAdds
<1>34. Coming'
  BY <1>20, <1>21, <1>32, <1>33 DEF Coming
<1>35. Shapes'
  <2>1. /\ hdr \in [next : Nat, files : Nat, folders : Nat]
        /\ attrs \subseteq Nat \X Nat /\ IsFiniteSet(attrs)
    BY <1>1 DEF Shapes
  <2>2. hdr' \in [next : Nat, files : Nat, folders : Nat]
    BY <2>1, CountedTyped
  <2>3. \A id \in gone : id \in Nat /\ id < next + 1
    <3>1. ASSUME NEW id \in gone PROVE id \in Nat /\ id < next + 1
      <4>1. CASE id = next
        BY <4>1
      <4>2. CASE id \in LostIds
        BY <1>1, <1>2, <4>2
      <4>3. QED
        BY <1>19, <4>1, <4>2
    <3>2. QED
      BY <3>1
  <2>4. QED
    BY <1>1, <1>17, <1>20, <2>1, <2>2, <2>3 DEF Shapes
<1>36. QED
  BY <1>34, <1>35 DEF IInv

LEMMA LostNone ==
  ASSUME lost' = lost
  PROVE  LostIds' = LostIds
  BY DEF LostIds

LEMMA LostOne ==
  ASSUME NEW id, NEW kind, lost' = lost \cup {[id |-> id, kind |-> kind]}
  PROVE  LostIds' = LostIds \cup {id}
<1>1. PICK l : l = [id |-> id, kind |-> kind]
  OBVIOUS
<1>2. l.id = id /\ lost' = lost \cup {l}
  BY <1>1
<1>3. QED
  BY <1>2 DEF LostIds

LEMMA ContentParts ==
  ASSUME NEW rec
  PROVE  /\ Listed(Content(rec)) /\ Len(Content(rec)) = 2
         /\ Content(rec)[1] = Save /\ Content(rec)[2] = Update(rec)
  BY ListedTwo DEF Content

(* What there is at a key may be written again.                            *)
LEMMA RewritesHeld ==
  ASSUME NEW c, NEW k \in RecordKeys(c), NEW rec \in RecTypes,
         rec.id = c[k].id, rec.kind = c[k].kind
  PROVE  Rewrites(c, rec)
  BY DEF Rewrites

LEMMA KeepsNewFolder ==
  ASSUME IInv, NEW path \in Paths, NewFolder(path)
  PROVE  IInv'
<1>1. /\ Idle /\ CanCreate(path) /\ hdr' = Counted("folder")
      /\ todo' = Creation("folder", path)
      /\ cat' = cat /\ attrs' = attrs /\ status' = status
  BY DEF NewFolder
<1>2. Creation("folder", path) \o <<>> = Creation("folder", path)
  <2>1. PICK v, w, x, y : Creation("folder", path) = <<v, w, x, y>>
    BY DEF Creation
  <2>2. <<v, w, x, y>> \o <<>> = <<v, w, x, y>>
    OBVIOUS
  <2>3. QED
    BY <2>1, <2>2
<1>3. LostIds' = IF Found(cat, path) THEN LostIds \cup {hdr.next} ELSE LostIds
  <2>1. CASE Found(cat, path)
    <3>1. lost' = lost \cup {[id |-> hdr.next, kind |-> "folder"]}
      BY <2>1 DEF NewFolder
    <3>2. QED
      BY <2>1, <3>1, LostOne
  <2>2. CASE ~Found(cat, path)
    <3>1. lost' = lost
      BY <2>2 DEF NewFolder
    <3>2. QED
      BY <2>2, <3>1, LostNone
  <2>3. QED
    BY <2>1, <2>2
<1>4. Listed(<<>>) /\ \A i \in 1 .. Len(<<>>) : FALSE
  BY ListedNone
<1>5. todo' = Creation("folder", path) \o <<>>
  BY <1>1, <1>2
<1>6. QED
  BY <1>1, <1>3, <1>4, <1>5, Creating

LEMMA KeepsAddNewFile ==
  ASSUME IInv, NEW path \in Paths, AddNewFile(path)
  PROVE  IInv'
<1>1. PICK more : more = Content(NewRecord("file", hdr.next))
  OBVIOUS
<1>2. /\ Idle /\ CanCreate(path) /\ ~Found(cat, path) /\ hdr' = Counted("file")
      /\ todo' = Creation("file", path) \o more
      /\ cat' = cat /\ attrs' = attrs /\ status' = status /\ lost' = lost
  BY <1>1 DEF AddNewFile, Begin
<1>3. /\ Listed(more) /\ Len(more) = 2
      /\ more[1] = Save /\ more[2] = Update(NewRecord("file", hdr.next))
  BY <1>1, ContentParts
<1>4. \A i \in 1 .. Len(more) :
        more[i] = Save \/ (more[i] = Update(NewRecord("file", hdr.next)) /\ ~Found(cat, path))
  <2>1. \A i \in 1 .. 2 : i = 1 \/ i = 2
    OBVIOUS
  <2>2. QED
    BY <1>2, <1>3, <2>1
<1>5. LostIds' = IF Found(cat, path) THEN LostIds \cup {hdr.next} ELSE LostIds
  BY <1>2, LostNone
<1>6. QED
  BY <1>2, <1>3, <1>4, <1>5, Creating

LEMMA KeepsAddToFile ==
  ASSUME IInv, NEW path \in Paths, AddToFile(path)
  PROVE  IInv'
<1>1. PICK rec : rec = cat[KeyAt(cat, path)]
  OBVIOUS
<1>2. Idle /\ Found(cat, path) /\ Tidy(cat, LostIds, hdr.next) /\ hdr.next \in Nat
  BY IdleTidy DEF AddToFile
<1>3. CASE rec.kind = "file"
  <2>1. /\ todo' = Content(rec) /\ cat' = cat /\ attrs' = attrs /\ hdr' = hdr
        /\ status' = status /\ lost' = lost
    BY <1>1, <1>3 DEF AddToFile, Begin
  <2>2. KeyAt(cat, path) \in RecordKeys(cat) /\ rec \in RecTypes
    BY <1>1, <1>2, FoundParts
  <2>3. Rewrites(cat, rec)
    BY <1>1, <2>2, RewritesHeld
  <2>4. PICK u : u = Content(rec)
    OBVIOUS
  <2>5. Listed(u) /\ Len(u) = 2 /\ u[1] = Save /\ u[2] = Update(rec)
    BY <2>4, ContentParts
  <2>6. Settles(cat, u[1]) /\ Settles(cat, u[2])
    BY <2>3, <2>5, SettlesSave, SettlesUpdate
  <2>7. \A i \in 1 .. 2 : i = 1 \/ i = 2
    OBVIOUS
  <2>8. Rest(cat, u, 1)
    BY <2>5, <2>6, <2>7 DEF Rest, Settling
  <2>9. QED
    BY <1>2, <2>1, <2>4, <2>5, <2>8, Resuming
<1>4. CASE rec.kind # "file"
  <2>1. status' = "exited" /\ UNCHANGED <<cat, attrs, hdr, disk, todo, drift, lost>>
    BY <1>1, <1>4 DEF AddToFile, Exit
  <2>2. QED
    BY <1>2, <2>1, Stopping
<1>5. QED
  BY <1>3, <1>4

LEMMA KeepsChangeInfo ==
  ASSUME IInv, NEW path \in Paths, NEW info \in Infos, ChangeInfo(path, info)
  PROVE  IInv'
<1>1. PICK rec : rec = cat[KeyAt(cat, path)]
  OBVIOUS
<1>2. Idle /\ Found(cat, path) /\ Tidy(cat, LostIds, hdr.next) /\ hdr.next \in Nat
  BY IdleTidy DEF ChangeInfo
<1>3. PICK new : new = [rec EXCEPT !.info = info]
  OBVIOUS
<1>4. /\ todo' = <<Update(new)>> /\ cat' = cat /\ attrs' = attrs /\ hdr' = hdr
      /\ status' = status /\ lost' = lost
  BY <1>1, <1>3 DEF ChangeInfo, Begin
<1>5. KeyAt(cat, path) \in RecordKeys(cat) /\ rec \in RecTypes
  BY <1>1, <1>2, FoundParts
<1>6. new \in RecTypes /\ new.id = rec.id /\ new.kind = rec.kind
  BY <1>3, <1>5 DEF RecTypes
<1>7. Rewrites(cat, new)
  BY <1>1, <1>5, <1>6, RewritesHeld
<1>8. PICK u : u = <<Update(new)>>
  OBVIOUS
<1>9. Listed(u) /\ Len(u) = 1 /\ u[1] = Update(new)
  BY <1>8, ListedOne
<1>10. Settles(cat, u[1])
  BY <1>7, <1>9, SettlesUpdate
<1>11. \A i \in 1 .. 1 : i = 1
  OBVIOUS
<1>12. Rest(cat, u, 1)
  BY <1>9, <1>10, <1>11 DEF Rest, Settling
<1>13. QED
  BY <1>2, <1>4, <1>8, <1>9, <1>12, Resuming

LEMMA KeepsSetAttribute ==
  ASSUME IInv, NEW path \in Paths, NEW a \in AttrNames, SetAttribute(path, a)
  PROVE  IInv'
<1>1. PICK id : id = cat[KeyAt(cat, path)].id
  OBVIOUS
<1>2. PICK attr : attr = <<id, a>>
  OBVIOUS
<1>3. Idle /\ Found(cat, path) /\ Tidy(cat, LostIds, hdr.next) /\ hdr.next \in Nat
  BY IdleTidy DEF SetAttribute
<1>4. CASE AttrPanics(attr)
  <2>1. status' = "panic" /\ UNCHANGED <<cat, attrs, hdr, disk, todo, drift, lost>>
    BY <1>1, <1>2, <1>4 DEF SetAttribute
  <2>2. QED
    BY <1>3, <2>1, Stopping
<1>5. CASE ~AttrPanics(attr)
  <2>1. PICK s : s = IF attr \in attrs THEN <<Unset(attr)>> ELSE <<>>
    OBVIOUS
  <2>2. /\ todo' = s \o <<Set(attr)>> /\ cat' = cat /\ attrs' = attrs /\ hdr' = hdr
        /\ status' = status /\ lost' = lost
    BY <1>1, <1>2, <1>5, <2>1 DEF SetAttribute, Begin
  <2>3. KeyAt(cat, path) \in RecordKeys(cat)
    BY <1>3, FoundParts
  <2>4. id \in Nat /\ ThreadKey(id) \in DOMAIN cat
    BY <1>1, <1>3, <2>3, TidyNamed
  <2>5. attr \in Nat \X Nat /\ HasThread(cat, attr)
    BY <1>2, <2>4, BoundsAssumption DEF HasThread
  <2>6. /\ Listed(s) /\ Len(s) \in 0 .. 1
        /\ \A i \in 1 .. Len(s) : s[i] = Unset(attr)
    <3>1. CASE attr \in attrs
      BY <2>1, <3>1, ListedOne
    <3>2. CASE attr \notin attrs
      BY <2>1, <3>2, ListedNone
    <3>3. QED
      BY <3>1, <3>2
  <2>7. PICK t : t = <<Set(attr)>>
    OBVIOUS
  <2>8. Listed(t) /\ Len(t) = 1 /\ t[1] = Set(attr)
    BY <2>7, ListedOne
  <2>9. PICK u : u = s \o t
    OBVIOUS
  <2>10. Joined(s, t, u)
    BY <2>6, <2>8, <2>9, ListedJoined
  <2>11. PICK n \in Nat : n = Len(s)
    BY <2>6
  <2>12. /\ Listed(u) /\ Len(u) = n + 1 /\ (\A i \in 1 .. n : u[i] = Unset(attr))
         /\ u[n + 1] = Set(attr)
    BY <2>6, <2>8, <2>10, <2>11 DEF Joined
  <2>13. Settles(cat, Unset(attr)) /\ Settles(cat, Set(attr))
    BY <2>5 DEF Settles, Unset, Set
  <2>14. Rest(cat, u, 1)
    <3>1. \A i \in 1 .. n + 1 : i \in 1 .. n \/ i = n + 1
      OBVIOUS
    <3>2. QED
      BY <2>12, <2>13, <3>1 DEF Rest, Settling
  <2>15. QED
    BY <1>3, <2>2, <2>7, <2>9, <2>12, <2>14, Resuming
<1>6. QED
  BY <1>4, <1>5

(* What removes the entry at `key`: the writes of a file's contents, then  *)
(* those of Removal, then the parent's record.                             *)
LEMMA RemovalRests ==
  ASSUME IInv, Idle, NEW key \in RecordKeys(cat), key # RootKey,
         NEW k \in RecordKeys(cat), k # key,
         NEW minus \in RecTypes, minus.id = cat[k].id, minus.kind = cat[k].kind,
         NEW u, u = Removal(cat[key], key) \o <<Update(minus), Save>>
  PROVE  Listed(u) /\ Rest(cat, u, 1)
<1>1. Tidy(cat, LostIds, hdr.next)
  BY IdleTidy
<1>2. PICK rec : rec = cat[key]
  OBVIOUS
<1>3. rec \in RecTypes
  BY <1>1, <1>2, TidyNamed
<1>4. PICK c : c = Cleared(cat, key, rec.id)
  OBVIOUS
<1>5. PICK s : s = IF rec.kind = "file" THEN Content(rec) ELSE <<>>
  OBVIOUS
<1>6. Rewrites(cat, rec)
  BY <1>2, <1>3, RewritesHeld
<1>7. Listed(s) /\ Len(s) \in Nat /\ \A i \in 1 .. Len(s) : Settles(cat, s[i])
  <2>1. CASE rec.kind = "file"
    <3>1. Listed(s) /\ Len(s) = 2 /\ s[1] = Save /\ s[2] = Update(rec)
      BY <1>5, <2>1, ContentParts
    <3>2. Settles(cat, s[1]) /\ Settles(cat, s[2])
      BY <1>6, <3>1, SettlesSave, SettlesUpdate
    <3>3. \A i \in 1 .. 2 : i = 1 \/ i = 2
      OBVIOUS
    <3>4. QED
      BY <3>1, <3>2, <3>3
  <2>2. CASE rec.kind # "file"
    BY <1>5, <2>2, ListedNone
  <2>3. QED
    BY <2>1, <2>2
<1>8. PICK n \in Nat : n = Len(s)
  BY <1>7
<1>9. PICK t : t = <<Drop(key), Strip(rec.id), Drop(ThreadKey(rec.id)), Uncount(rec.kind)>>
  OBVIOUS
<1>10. /\ Listed(t) /\ Len(t) = 4 /\ t[1] = Drop(key) /\ t[2] = Strip(rec.id)
       /\ t[3] = Drop(ThreadKey(rec.id)) /\ t[4] = Uncount(rec.kind)
  BY <1>9, ListedFour
<1>11. PICK v : v = s \o t
  OBVIOUS
<1>12. Joined(s, t, v)
  BY <1>7, <1>10, <1>11, ListedJoined
<1>13. /\ Listed(v) /\ Len(v) = n + 4 /\ (\A i \in 1 .. n : v[i] = s[i])
       /\ \A i \in 1 .. 4 : v[n + i] = t[i]
  BY <1>8, <1>10, <1>12 DEF Joined
<1>14. PICK w : w = <<Update(minus), Save>>
  OBVIOUS
<1>15. Listed(w) /\ Len(w) = 2 /\ w[1] = Update(minus) /\ w[2] = Save
  BY <1>14, ListedTwo
<1>16. u = v \o w
  BY <1>2, <1>5, <1>9, <1>11, <1>14 DEF Removal
<1>17. Joined(v, w, u)
  BY <1>13, <1>15, <1>16, ListedJoined
<1>18. Listed(u) /\ Len(u) = (n + 4) + 2
  BY <1>13, <1>15, <1>17 DEF Joined
<1>19. /\ \A i \in 1 .. n + 4 : u[i] = v[i]
       /\ \A i \in 1 .. 2 : u[(n + 4) + i] = w[i]
  BY <1>13, <1>15, <1>17 DEF Joined
<1>20. ASSUME NEW i \in 1 .. n PROVE u[i] = s[i]
  <2>1. i \in 1 .. n + 4
    OBVIOUS
  <2>2. u[i] = v[i] /\ v[i] = s[i]
    BY <1>13, <1>19, <2>1
  <2>3. QED
    BY <2>2
<1>21. ASSUME NEW i \in 1 .. 4 PROVE u[n + i] = t[i]
  <2>1. PICK j \in 1 .. n + 4 : j = n + i
    OBVIOUS
  <2>2. u[j] = v[j]
    BY <1>19
  <2>3. v[n + i] = t[i]
    BY <1>13
  <2>4. QED
    BY <2>1, <2>2, <2>3
<1>22. /\ u[n + 1] = Drop(key) /\ u[n + 2] = Strip(rec.id)
       /\ u[n + 3] = Drop(ThreadKey(rec.id)) /\ u[n + 4] = Uncount(rec.kind)
  <2>1. 1 \in 1 .. 4 /\ 2 \in 1 .. 4 /\ 3 \in 1 .. 4 /\ 4 \in 1 .. 4
    OBVIOUS
  <2>2. u[n + 1] = t[1] /\ u[n + 2] = t[2] /\ u[n + 3] = t[3] /\ u[n + 4] = t[4]
    BY <1>21, <2>1
  <2>3. QED
    BY <1>10, <2>2
<1>23. u[(n + 4) + 1] = Update(minus) /\ u[(n + 4) + 2] = Save
  <2>1. 1 \in 1 .. 2 /\ 2 \in 1 .. 2
    OBVIOUS
  <2>2. u[(n + 4) + 1] = w[1] /\ u[(n + 4) + 2] = w[2]
    BY <1>19, <2>1
  <2>3. QED
    BY <1>15, <2>2
<1>24. Rewrites(c, minus)
  <2>1. k \in RecordKeys(c) /\ c[k] = cat[k]
    BY <1>1, <1>2, <1>4, TidyClear
  <2>2. QED
    BY <2>1, RewritesHeld
<1>25. ASSUME NEW i \in n + 4 .. n + 6 PROVE Settles(c, u[i])
  <2>1. Settles(c, Uncount(rec.kind)) /\ Settles(c, Save) /\ Settles(c, Update(minus))
    BY <1>24, SettlesSave, SettlesUpdate DEF Settles, Uncount
  <2>2. i = n + 4 \/ i = (n + 4) + 1 \/ i = (n + 4) + 2
    OBVIOUS
  <2>3. QED
    BY <1>22, <1>23, <2>1, <2>2
<1>26. PICK p \in Nat : p = n + 1
  OBVIOUS
<1>27. /\ n + 2 = p + 1 /\ n + 3 = p + 2 /\ n + 4 = p + 3 /\ p - 1 = n
       /\ p \in 1 .. Len(u) /\ Len(u) = n + 6 /\ p + 2 <= Len(u)
  BY <1>18, <1>26
<1>28. u[p] = Drop(key) /\ u[p + 1] = Strip(rec.id) /\ u[p + 2] = Drop(ThreadKey(rec.id))
  BY <1>22, <1>26, <1>27
<1>29. u[p].do = "drop" /\ u[p].key = key
  <2>1. Drop(key).do = "drop" /\ Drop(key).key = key
    BY DEF Drop
  <2>2. QED
    BY <1>28, <2>1
<1>30. \A i \in 1 .. p - 1 : Settles(cat, u[i])
  BY <1>7, <1>8, <1>20, <1>27
<1>31. Settling(c, u, p + 3)
  BY <1>25, <1>27 DEF Settling
<1>32. RemovingAt(cat, u, 1, p)
  BY <1>2, <1>4, <1>27, <1>28, <1>29, <1>30, <1>31 DEF RemovingAt
<1>33. QED
  BY <1>18, <1>27, <1>32 DEF Rest

LEMMA KeepsRemoveEntry ==
  ASSUME IInv, NEW path \in Paths, RemoveEntry(path)
  PROVE  IInv'
<1>1. Idle
  BY DEF RemoveEntry
<1>2. CASE UNCHANGED <<cat, attrs, hdr, disk, todo, drift, lost>> /\ status' = "exited"
  BY <1>1, <1>2, Stopping
<1>3. CASE ~(UNCHANGED <<cat, attrs, hdr, disk, todo, drift, lost>> /\ status' = "exited")
  <2>1. PICK key : key = KeyAt(cat, path)
    OBVIOUS
  <2>2. PICK minus : minus = Minus(RecordById(cat, key[1]), cat[key].kind)
    OBVIOUS
  <2>3. Found(cat, path) /\ Begin(Removal(cat[key], key) \o <<Update(minus), Save>>) /\ hdr' = hdr
    BY <1>3, <2>1, <2>2 DEF RemoveEntry, Exit
  <2>4. PICK u : u = Removal(cat[key], key) \o <<Update(minus), Save>>
    OBVIOUS
  <2>5. todo' = u /\ cat' = cat /\ attrs' = attrs /\ status' = status /\ lost' = lost
    BY <2>3, <2>4 DEF Begin
  <2>6. Tidy(cat, LostIds, hdr.next) /\ hdr.next \in Nat
    BY <1>1, IdleTidy
  <2>7. key \in RecordKeys(cat) /\ key # RootKey
    BY <2>1, <2>3, <2>6, FoundParts
  <2>8. PICK k \in RecordKeys(cat) :
          RecordById(cat, key[1]) = cat[k] /\ cat[k] \in RecTypes /\ k # key
    BY <2>1, <2>3, <2>6, FoundParts
  <2>9. minus \in RecTypes /\ minus.id = cat[k].id /\ minus.kind = cat[k].kind
    BY <2>2, <2>8, MinusTyped
  <2>10. Listed(u) /\ Rest(cat, u, 1)
    BY <1>1, <2>4, <2>7, <2>8, <2>9, RemovalRests
  <2>11. QED
    BY <1>1, <2>3, <2>5, <2>10, Resuming
<1>4. QED
  BY <1>2, <1>3

LEMMA FrontPrefix ==
  ASSUME NEW S, NEW s \in Seq(S), s # <<>>
  PROVE  IsStrictPrefix(Front(s), s)
<1>1. PICK f \in Seq(S) : f = Front(s)
  BY FrontParts
<1>2. PICK m \in Nat : m = Len(f) /\ m = Len(s) - 1
  BY <1>1, FrontParts
<1>3. SubSeq(f, 1, m) = f
  BY <1>2, SubSeqFull
<1>4. SubSeq(s, 1, m) = f
  BY <1>1, <1>2 DEF Front
<1>5. f # s
  <2>1. PICK l \in Nat : l = Len(s)
    BY LenProperties
  <2>2. Len(f) # Len(s)
    BY <1>2, <2>1
  <2>3. QED
    BY <2>2, Zenon
<1>6. m <= Len(s)
  BY <1>2, LenProperties
<1>7. QED
  BY <1>1, <1>2, <1>3, <1>4, <1>5, <1>6 DEF IsStrictPrefix, IsPrefix

(* The folder that an entry is moved to is not that entry, or in it.       *)
LEMMA OutsideItself ==
  ASSUME NEW c, NEW gone, NEW next \in Nat, Tidy(c, gone, next),
         NEW source \in Paths, Found(c, source),
         NEW dest \in Paths, FolderAt(c, Front(dest)) # NoFolder,
         ~IsStrictPrefix(source, dest)
  PROVE  \E k \in RecordKeys(c) :
           /\ RecordById(c, FolderAt(c, Front(dest))) = c[k] /\ c[k] \in RecTypes
           /\ k # KeyAt(c, source)
<1>1. /\ source \in Seq(Names) /\ source # <<>>
      /\ dest \in Seq(Names) /\ dest # <<>> /\ Front(dest) \in Seq(Names)
  BY PathSeq, FrontParts
<1>2. PICK k \in RecordKeys(c) :
        /\ RecordById(c, FolderAt(c, Front(dest))) = c[k]
        /\ c[k].id = FolderAt(c, Front(dest))
        /\ c[k].kind = "folder" /\ c[k] \in RecTypes
  BY <1>1, FolderRecord
<1>3. k # KeyAt(c, source)
  <2>1. SUFFICES ASSUME k = KeyAt(c, source) PROVE FALSE
    OBVIOUS
  <2>2. FolderAt(c, source) = c[k].id
    BY <1>1, <1>2, <2>1, FolderAtStep DEF Found
  <2>3. FolderAt(c, Front(dest)) = FolderAt(c, source)
    BY <1>2, <2>2
  <2>4. Front(dest) = source
    BY <1>1, <2>3, FolderOne
  <2>5. IsStrictPrefix(source, dest)
    BY <1>1, <2>4, FrontPrefix
  <2>6. QED
    BY <2>5
<1>4. QED
  BY <1>2, <1>3

(* What moves the entry at `from`, then two records that are not its.      *)
LEMMA MoveDeparts ==
  ASSUME IInv, Idle, NEW from \in RecordKeys(cat), from # RootKey,
         NEW to \in Keys, ~IsThread(to),
         NEW i \in RecordKeys(cat), i # from, NEW src \in RecTypes,
         src.id = cat[i].id, src.kind = cat[i].kind,
         NEW j \in RecordKeys(cat), j # from, NEW dst \in RecTypes,
         dst.id = cat[j].id, dst.kind = cat[j].kind,
         cat' = cat, attrs' = attrs, hdr' = hdr, status' = status,
         LostIds' = IF from # to /\ to \in DOMAIN cat
                    THEN LostIds \cup {cat[from].id} ELSE LostIds,
         todo' = Relocation(cat[from], from, to) \o <<Update(src), Update(dst)>>
  PROVE  IInv'
<1>1. /\ Tidy(cat, LostIds, hdr.next) /\ AllOwned(attrs, cat)
      /\ \A id \in LostIds : id \in Nat /\ id < hdr.next
      /\ Shapes /\ status = "running"
  BY IdleTidy
<1>2. PICK next \in Nat : next = hdr.next
  BY IdleTidy
<1>3. PICK rec : rec = cat[from]
  OBVIOUS
<1>4. PICK id : id = rec.id
  OBVIOUS
<1>5. PICK tk : tk = ThreadKey(id)
  OBVIOUS
<1>6. PICK th : th = Thread(rec.kind, to)
  OBVIOUS
<1>7. PICK c : c = Cleared(cat, from, id)
  OBVIOUS
<1>8. PICK gone : gone = LostIds'
  OBVIOUS
<1>9. /\ rec \in RecTypes /\ from \in Keys /\ ~IsThread(from)
      /\ id \notin LostIds /\ tk \in DOMAIN cat
  BY <1>1, <1>3, <1>4, <1>5, TidyNamed
<1>10. id \in Nat /\ id # NoFolder /\ id < next
  BY <1>1, <1>2, <1>3, <1>4, TidyIds
<1>11. gone \ {id} = LostIds /\ (id \in gone <=> from # to /\ to \in DOMAIN cat)
       /\ LostIds \subseteq gone /\ gone \subseteq LostIds \cup {id}
  BY <1>3, <1>4, <1>8, <1>9
<1>12. Tidy(c, LostIds, next)
  BY <1>1, <1>2, <1>3, <1>4, <1>7, TidyClear
<1>13. \A l \in RecordKeys(c) : l \in RecordKeys(cat) /\ c[l] = cat[l] /\ c[l].id # id
  BY <1>1, <1>3, <1>4, <1>7, TidyClear
<1>14. \A l \in RecordKeys(cat) : l # from => l \in RecordKeys(c) /\ c[l] = cat[l]
  BY <1>1, <1>3, <1>4, <1>7, TidyClear
<1>15. Tidy(c, gone, next)
  <2>1. \A l \in RecordKeys(c) : c[l].id \notin gone
    BY <1>11, <1>12, <1>13, TidyNamed
  <2>2. next <= next
    OBVIOUS
  <2>3. QED
    BY <1>11, <1>12, <2>1, <2>2, TidyWiden
<1>16. DOMAIN c = DOMAIN cat \ {from, tk}
  BY <1>5, <1>7, ClearedDomain
<1>17. IsThread(tk) /\ tk[1] = id /\ tk # to /\ tk # from
  BY <1>5, <1>9, ThreadKeyParts
<1>18. to \in DOMAIN c <=> id \in gone
  BY <1>11, <1>16, <1>17
<1>19. PICK s : s = Relocation(rec, from, to)
  OBVIOUS
<1>20. /\ Listed(s) /\ Len(s) = 4 /\ s[1] = Drop(from) /\ s[2] = Drop(tk)
       /\ s[3] = Put(to, rec) /\ s[4] = Put(tk, th)
  BY <1>4, <1>5, <1>6, <1>19, ListedFour DEF Relocation
<1>21. PICK t : t = <<Update(src), Update(dst)>>
  OBVIOUS
<1>22. Listed(t) /\ Len(t) = 2 /\ t[1] = Update(src) /\ t[2] = Update(dst)
  BY <1>21, ListedTwo
<1>23. PICK u : u = s \o t
  OBVIOUS
<1>24. Joined(s, t, u)
  BY <1>20, <1>22, <1>23, ListedJoined
<1>25. /\ Listed(u) /\ Len(u) = 6 /\ (\A n \in 1 .. 4 : u[n] = s[n])
       /\ \A n \in 1 .. 2 : u[4 + n] = t[n]
  BY <1>20, <1>22, <1>24 DEF Joined
<1>26. todo' = u
  BY <1>3, <1>19, <1>21, <1>23
<1>27. /\ u[1] = Drop(from) /\ u[2] = Drop(tk) /\ u[3] = Put(to, rec) /\ u[4] = Put(tk, th)
  <2>1. 1 \in 1 .. 4 /\ 2 \in 1 .. 4 /\ 3 \in 1 .. 4 /\ 4 \in 1 .. 4
    OBVIOUS
  <2>2. u[1] = s[1] /\ u[2] = s[2] /\ u[3] = s[3] /\ u[4] = s[4]
    BY <1>25, <2>1
  <2>3. QED
    BY <1>20, <2>2
<1>28. u[5] = Update(src) /\ u[6] = Update(dst)
  <2>1. 1 \in 1 .. 2 /\ 2 \in 1 .. 2 /\ 4 + 1 = 5 /\ 4 + 2 = 6
    OBVIOUS
  <2>2. u[4 + 1] = t[1] /\ u[4 + 2] = t[2]
    BY <1>25, <2>1
  <2>3. QED
    BY <1>22, <2>1, <2>2
<1>29. PICK f : f = Added(Added(c, to, rec), tk, th)
  OBVIOUS
<1>30. Rewrites(f, src) /\ Rewrites(f, dst)
  BY <1>14, <1>29, PlaceKeeps
<1>31. Settling(f, u, 3 + 2)
  <2>1. Settles(f, u[5]) /\ Settles(f, u[6])
    BY <1>28, <1>30, SettlesUpdate
  <2>2. \A n \in 5 .. 6 : n = 5 \/ n = 6
    OBVIOUS
  <2>3. QED
    BY <1>25, <2>1, <2>2 DEF Settling
<1>32. \A attr \in attrs : ThreadKey(attr[1]) \in DOMAIN c \cup {tk}
  <2>1. ASSUME NEW attr \in attrs PROVE ThreadKey(attr[1]) \in DOMAIN c \cup {tk}
    <3>1. ThreadKey(attr[1]) \in DOMAIN cat
      BY <1>1 DEF AllOwned, HasThread
    <3>2. ThreadKey(attr[1]) # from
      BY <1>9, ThreadKeyParts
    <3>3. QED
      BY <1>16, <3>1, <3>2
  <2>2. QED
    BY <2>1
<1>33. /\ 3 < Len(u) /\ Len(u) \in Nat /\ 3 \in Nat
       /\ u[3] = Put(to, rec) /\ u[3 + 1] = Put(tk, th)
  BY <1>25, <1>27
<1>34. tk \notin DOMAIN c
  BY <1>16
<1>35. Adding(c, attrs, gone, next, u, 3)
  BY <1>4, <1>5, <1>6, <1>9, <1>10, <1>15, <1>18, <1>29, <1>31, <1>32, <1>33, <1>34, PlaceAdds
<1>36. u[1].do = "drop" /\ u[1].key = from /\ u[2] = Drop(ThreadKey(id)) /\ 2 <= Len(u)
  <2>1. Drop(from).do = "drop" /\ Drop(from).key = from
    BY DEF Drop
  <2>2. QED
    BY <1>5, <1>25, <1>27, <2>1
<1>37. Tidy(cat, gone \ {id}, next)
  BY <1>1, <1>2, <1>11
<1>38. Departing'
  BY <1>2, <1>3, <1>4, <1>7, <1>8, <1>15, <1>26, <1>35, <1>36, <1>37 DEF Departing
<1>39. Shapes'
  <2>1. /\ hdr \in [next : Nat, files : Nat, folders : Nat]
        /\ attrs \subseteq Nat \X Nat /\ IsFiniteSet(attrs)
    BY <1>1 DEF Shapes
  <2>2. \A l \in gone : l \in Nat /\ l < next
    BY <1>1, <1>2, <1>10, <1>11
  <2>3. QED
    BY <1>1, <1>2, <1>8, <1>25, <1>26, <2>1, <2>2 DEF Shapes
<1>40. QED
  BY <1>38, <1>39 DEF IInv

LEMMA KeepsMove ==
  ASSUME IInv, NEW source \in Paths, NEW dest \in Paths, Move(source, dest)
  PROVE  IInv'
<1>1. PICK from, to : from = KeyAt(cat, source) /\ to = KeyAt(cat, dest)
  OBVIOUS
<1>2. PICK rec : rec = cat[from]
  OBVIOUS
<1>3. PICK src : src = [RecordById(cat, from[1]) EXCEPT !.valence = Down(@)]
  OBVIOUS
<1>4. PICK dst : dst = [RecordById(cat, to[1]) EXCEPT !.valence = Up(@)]
  OBVIOUS
<1>5. /\ Idle /\ Found(cat, source) /\ FolderAt(cat, Front(dest)) # NoFolder
      /\ ~IsStrictPrefix(source, dest)
      /\ todo' = Relocation(rec, from, to) \o <<Update(src), Update(dst)>>
      /\ cat' = cat /\ attrs' = attrs /\ hdr' = hdr /\ status' = status
      /\ lost' = lost \cup IF from # to /\ Found(cat, dest)
                           THEN {[id |-> rec.id, kind |-> rec.kind]} ELSE {}
  BY <1>1, <1>2, <1>3, <1>4 DEF Move
<1>6. Tidy(cat, LostIds, hdr.next) /\ hdr.next \in Nat
  BY <1>5, IdleTidy
<1>7. from \in RecordKeys(cat) /\ from # RootKey
  BY <1>1, <1>5, <1>6, FoundParts
<1>8. PICK i \in RecordKeys(cat) :
        RecordById(cat, from[1]) = cat[i] /\ cat[i] \in RecTypes /\ i # from
  BY <1>1, <1>5, <1>6, FoundParts
<1>9. to \in Keys /\ ~IsThread(to)
  BY <1>1, <1>5, <1>6, KeyAtKey
<1>10. to[1] = FolderAt(cat, Front(dest))
  BY <1>1, PathSeq, KeyAtParts
<1>11. PICK j \in RecordKeys(cat) :
        RecordById(cat, to[1]) = cat[j] /\ cat[j] \in RecTypes /\ j # from
  BY <1>1, <1>5, <1>6, <1>10, OutsideItself
<1>12. src \in RecTypes /\ src.id = cat[i].id /\ src.kind = cat[i].kind
  <2>1. PICK n \in Nat : n = Down(cat[i].valence)
    BY <1>8, RecordParts, CountsTyped
  <2>2. src = [cat[i] EXCEPT !.valence = n]
    BY <1>3, <1>8, <2>1
  <2>3. QED
    BY <1>8, <2>2, ValenceTyped
<1>13. dst \in RecTypes /\ dst.id = cat[j].id /\ dst.kind = cat[j].kind
  <2>1. PICK n \in Nat : n = Up(cat[j].valence)
    BY <1>11, RecordParts, CountsTyped
  <2>2. dst = [cat[j] EXCEPT !.valence = n]
    BY <1>4, <1>11, <2>1
  <2>3. QED
    BY <1>11, <2>2, ValenceTyped
<1>14. LostIds' = IF from # to /\ to \in DOMAIN cat
                  THEN LostIds \cup {rec.id} ELSE LostIds
  <2>1. Found(cat, dest) <=> to \in DOMAIN cat
    BY <1>1 DEF Found
  <2>2. CASE from # to /\ to \in DOMAIN cat
    <3>1. lost' = lost \cup {[id |-> rec.id, kind |-> rec.kind]}
      BY <1>5, <2>1, <2>2
    <3>2. QED
      BY <2>2, <3>1, LostOne
  <2>3. CASE ~(from # to /\ to \in DOMAIN cat)
    <3>1. lost' = lost
      BY <1>5, <2>1, <2>3
    <3>2. QED
      BY <2>3, <3>1, LostNone
  <2>4. QED
    BY <2>2, <2>3
<1>15. QED
  BY <1>2, <1>5, <1>7, <1>8, <1>9, <1>11, <1>12, <1>13, <1>14, MoveDeparts

-----------------------------------------------------------------------------
(* The invariant.                                                          *)

LEMMA KeepsOperation ==
  ASSUME IInv, Operation
  PROVE  IInv'
<1>1. PICK path \in Paths :
        \/ NewFolder(path) \/ AddNewFile(path) \/ AddToFile(path) \/ RemoveEntry(path)
        \/ \E info \in Infos : ChangeInfo(path, info)
        \/ \E dest \in Paths : Move(path, dest)
        \/ \E a \in AttrNames : SetAttribute(path, a)
  BY DEF Operation
<1>2. QED
  BY <1>1, KeepsNewFolder, KeepsAddNewFile, KeepsAddToFile, KeepsRemoveEntry,
     KeepsChangeInfo, KeepsMove, KeepsSetAttribute

LEMMA KeepsWrite ==
  ASSUME IInv, Write
  PROVE  IInv'
  BY Dropping, Putting, Updating, Stripping, Unsetting, Setting, Counting DEF Write

LEMMA KeepsStutter ==
  ASSUME IInv, UNCHANGED vars
  PROVE  IInv'
<1>1. /\ cat' = cat /\ attrs' = attrs /\ hdr' = hdr /\ todo' = todo
      /\ status' = status /\ lost' = lost
  BY DEF vars
<1>2. LostIds' = LostIds
  BY <1>1, LostNone
<1>3. Shapes'
  BY <1>1, <1>2 DEF IInv, Shapes
<1>4. /\ Resting => Resting'
      /\ Coming => Coming'
      /\ Filling => Filling'
  BY <1>1, <1>2 DEF Resting, Coming, Filling
<1>5. /\ Crossing => Crossing'
      /\ Departing => Departing'
  BY <1>1, <1>2 DEF Crossing, Departing
<1>6. Clearing => Clearing'
  BY <1>1, <1>2 DEF Clearing, ClearingAt
<1>7. QED
  BY <1>3, <1>4, <1>5, <1>6 DEF IInv

LEMMA Beginning ==
  ASSUME Init
  PROVE  IInv
<1>1. PICK tk : tk = ThreadKey(kHFSRootFolderID)
  OBVIOUS
<1>2. IsThread(tk) /\ tk[1] = kHFSRootFolderID /\ tk = <<kHFSRootFolderID, NoName>>
  BY <1>1, ThreadKeyParts DEF ThreadKey
<1>3. RootKey = <<kHFSRootParentID, Volume>> /\ ~IsThread(RootKey) /\ RootKey # tk
  BY <1>2, NamesAssumption DEF RootKey, IsThread
<1>4. tk \in Keys /\ RootKey \in Keys
  BY <1>2, <1>3 DEF Keys, NoFolder, kHFSRootFolderID, kHFSRootParentID
<1>5. /\ DOMAIN cat = {RootKey, tk}
      /\ cat[RootKey] = RootRecord /\ cat[tk] = Thread("folder", RootKey)
  BY <1>1, <1>2, <1>3 DEF Init
<1>6. RecordKeys(cat) = {RootKey}
  BY <1>2, <1>3, <1>5, RecordKeysOf
<1>7. LostIds = {}
  BY DEF Init, LostIds
<1>8. /\ hdr \in [next : Nat, files : Nat, folders : Nat] /\ hdr.next = FirstId
      /\ attrs = {} /\ todo = <<>> /\ status = "running"
  BY DEF Init, FirstId
<1>9. Paired(cat, RootKey, LostIds)
  BY <1>1, <1>5, <1>7, RootTyped DEF Paired
<1>10. Held(cat, kHFSRootFolderID) /\ Rooted(cat)
  BY <1>5, <1>6, RootTyped DEF Held, Rooted
<1>11. kHFSRootFolderID < hdr.next
  BY <1>8 DEF kHFSRootFolderID, FirstId
<1>12. Tidy(cat, LostIds, hdr.next)
  BY <1>2, <1>3, <1>4, <1>5, <1>6, <1>9, <1>10, <1>11 DEF Tidy
<1>13. Resting
  BY <1>8, <1>12, ListedNone DEF Resting, AllOwned, Rest, Settling
<1>14. Shapes
  BY <1>7, <1>8, ListedNone, FS_EmptySet DEF Shapes
<1>15. QED
  BY <1>13, <1>14 DEF IInv

(* Whatever the calls and wherever one of them stops, the catalog is what  *)
(* the rest of its writes will set right: addFolder's, removeFile's,       *)
(* move's and updateCatalog's, in the order that they make them.           *)
THEOREM CatalogInductive == Spec => []IInv
<1>1. Init => IInv
  BY Beginning
<1>2. IInv /\ [Next]_vars => IInv'
  BY KeepsOperation, KeepsWrite, KeepsStutter DEF Next, Over
<1>3. QED
  BY <1>1, <1>2, PTL DEF Spec

-----------------------------------------------------------------------------
(* What it means.                                                          *)

LEMMA AtMostOne ==
  ASSUME NEW S, NEW x, S \subseteq {x}
  PROVE  Cardinality(S) <= 1 /\ Cardinality({}) = 0
<1>1. S = {} \/ S = {x}
  OBVIOUS
<1>2. Cardinality({}) = 0 /\ Cardinality({x}) = 1
  BY FS_EmptySet, FS_Singleton
<1>3. QED
  BY <1>1, <1>2

LEMMA SettledRests ==
  ASSUME IInv, Settled
  PROVE  Resting
<1>1. todo = <<>> /\ Len(todo) = 0
  BY ListedNone DEF Settled, Idle, IInv, Shapes
<1>2. 1 .. Len(todo) = {}
  BY <1>1
<1>3. ~Coming /\ ~Filling /\ ~Clearing /\ ~Crossing /\ ~Departing
  BY <1>1, <1>2 DEF Coming, Adding, Filling, Clearing, Crossing, Departing
<1>4. QED
  BY <1>3 DEF IInv

Torn == {id \in IdsIn(cat) \ LostIds : ~WholeIn(cat, id)}

LEMMA NoneTorn ==
  ASSUME NEW gone, Tidy(cat, gone, hdr.next), gone \subseteq LostIds
  PROVE  Torn = {}
<1>1. \A id \in IdsIn(cat) \ LostIds : WholeIn(cat, id)
  BY TidyWhole
<1>2. QED
  BY <1>1 DEF Torn

LEMMA OneTorn ==
  ASSUME IInv
  PROVE  \E x : Torn \subseteq {x}
<1>1. CASE Resting \/ Coming
  BY <1>1, NoneTorn DEF Resting, Coming
<1>2. CASE Departing
  <2>1. PICK id : Tidy(cat, LostIds \ {id}, hdr.next)
    BY <1>2 DEF Departing
  <2>2. Torn = {}
    BY <2>1, NoneTorn
  <2>3. QED
    BY <2>2
<1>3. CASE Filling
  <2>1. PICK key, rec : key = todo[1].key /\ rec = todo[1].rec
    OBVIOUS
  <2>2. key \notin DOMAIN cat /\ Tidy(Added(cat, key, rec), LostIds, hdr.next)
    BY <1>3, <2>1 DEF Filling, Put1
  <2>3. PICK x : x = IF IsThread(key) THEN key[1] ELSE rec.id
    OBVIOUS
  <2>4. \A id \in IdsIn(cat) : id \notin LostIds /\ id # x => WholeIn(cat, id)
    BY <2>2, <2>3, WholeWhileFilling
  <2>5. Torn \subseteq {x}
    BY <2>4 DEF Torn
  <2>6. QED
    BY <2>5
<1>4. CASE Clearing \/ Crossing
  <2>1. PICK x : Tidy(Without(cat, ThreadKey(x)), LostIds, hdr.next)
    BY <1>4 DEF Clearing, ClearingAt, Crossing
  <2>2. \A id \in IdsIn(cat) : id \notin LostIds /\ id # x => WholeIn(cat, id)
    BY <2>1, WholeWhileClearing
  <2>3. Torn \subseteq {x}
    BY <2>2 DEF Torn
  <2>4. QED
    BY <2>3
<1>5. QED
  BY <1>1, <1>2, <1>3, <1>4 DEF IInv

LEMMA TornIs ==
  /\ Ids = IdsIn(cat)
  /\ {id \in Ids \ LostIds : ~Whole(id)} = Torn
<1>1. {r.id : r \in Records} = {cat[k].id : k \in RecordKeys(cat)}
  BY DEF Records
<1>2. Ids = IdsIn(cat)
  BY <1>1 DEF Ids, IdsIn
<1>3. \A id : Whole(id) <=> WholeIn(cat, id)
  BY DEF Whole, WholeIn
<1>4. QED
  BY <1>2, <1>3 DEF Torn

(* The record and the thread of a file or folder name each other; while    *)
(* newFolder, updateCatalog, move or removeFile is between two writes,     *)
(* those of one file or folder do not, and after a call, or a refusal,     *)
(* those of none.                                                          *)
THEOREM EntriesAreWhole == Spec => []OneTornEntry
<1>1. IInv => OneTornEntry
  <2>1. SUFFICES ASSUME IInv PROVE OneTornEntry
    OBVIOUS
  <2>2. PICK x : Torn \subseteq {x}
    BY <2>1, OneTorn
  <2>3. Cardinality(Torn) <= 1 /\ Cardinality({}) = 0
    BY <2>2, AtMostOne
  <2>4. CASE Settled
    <3>1. Torn = {}
      BY <2>1, <2>4, SettledRests, NoneTorn DEF Resting
    <3>2. QED
      BY <2>3, <2>4, <3>1, TornIs DEF OneTornEntry
  <2>5. CASE ~Settled
    BY <2>3, <2>5, TornIs DEF OneTornEntry
  <2>6. QED
    BY <2>4, <2>5
<1>2. QED
  BY <1>1, CatalogInductive, PTL

(* removeFile unsets every attribute that getAllExtendedAttributes lists   *)
(* before it drops the thread, and setAttribute is of an entry that is     *)
(* there: no attribute is left without a file or folder.                   *)
THEOREM AttributesAreOwned == Spec => []AttributesOwned
<1>1. IInv => AttributesOwned
  <2>1. SUFFICES ASSUME IInv, Settled, NEW k \in attrs PROVE k[1] \in Ids
    BY DEF AttributesOwned
  <2>2. AllOwned(attrs, cat)
    BY <2>1, SettledRests DEF Resting
  <2>3. PICK l \in DOMAIN cat : l = ThreadKey(k[1])
    BY <2>1, <2>2 DEF AllOwned, HasThread
  <2>4. IsThread(l) /\ l[1] = k[1]
    BY <2>3, ThreadKeyParts
  <2>5. QED
    BY <2>4 DEF Ids
<1>2. QED
  BY <1>1, CatalogInductive, PTL

-----------------------------------------------------------------------------
(***************************************************************************)
(* What the writes to come will leave.                                     *)
(***************************************************************************)

State(c, ats) == [cat |-> c, attrs |-> ats]

Applies(s, t, g) == g = [n \in 0 .. Len(t) |-> IF n = 0 THEN s ELSE Done(g[n - 1], t[n])]

(* s after the writes of t.                                                *)
After(s, t) == (CHOOSE g : Applies(s, t, g))[Len(t)]

(* The same without the CHOOSE.                                            *)
Steps(s, t, m, g) ==
  DOMAIN g = 0 .. m /\ g[0] = s /\ \A n \in 1 .. m : g[n] = Done(g[n - 1], t[n])

LEMMA AheadIs == Ahead = After(State(cat, attrs), todo)
  BY DEF Ahead, After, Applies, State

LEMMA AheadNext == Ahead' = After(State(cat', attrs'), todo')
  BY DEF Ahead, After, Applies, State

LEMMA AppliesSteps ==
  ASSUME NEW s, NEW t, Listed(t), NEW g, Applies(s, t, g)
  PROVE  Steps(s, t, Len(t), g)
<1>1. PICK m \in Nat : m = Len(t)
  BY ListedLen
<1>2. g = [n \in 0 .. m |-> IF n = 0 THEN s ELSE Done(g[n - 1], t[n])]
  BY <1>1 DEF Applies
<1>3. DOMAIN g = 0 .. m
  BY <1>2
<1>4. \A n \in 0 .. m : g[n] = IF n = 0 THEN s ELSE Done(g[n - 1], t[n])
  BY <1>2, Zenon
<1>5. g[0] = s
  <2>1. 0 \in 0 .. m
    OBVIOUS
  <2>2. QED
    BY <1>4, <2>1, Zenon
<1>6. ASSUME NEW n \in 1 .. m PROVE g[n] = Done(g[n - 1], t[n])
  <2>1. n \in 0 .. m /\ n # 0
    OBVIOUS
  <2>2. QED
    BY <1>4, <2>1, Zenon
<1>7. QED
  BY <1>1, <1>3, <1>5, <1>6, Zenon DEF Steps

LEMMA StepsExist ==
  ASSUME NEW s, NEW t, NEW top \in Nat
  PROVE  \E g : Steps(s, t, top, g)
<1> DEFINE T == {m \in Nat : ~ \E g : Steps(s, t, m, g)}
<1>1. SUFFICES ASSUME T # {} PROVE FALSE
  OBVIOUS
<1>2. PICK m \in T : \A l \in T : m <= l
  BY <1>1, LeastNat
<1>3. m \in Nat /\ ~ \E g : Steps(s, t, m, g)
  OBVIOUS
<1>4. CASE m = 0
  <2> DEFINE g == [n \in 0 .. 0 |-> s]
  <2>1. g[0] = s /\ DOMAIN g = 0 .. 0 /\ \A n \in 1 .. 0 : FALSE
    OBVIOUS
  <2> HIDE DEF g
  <2>2. Steps(s, t, 0, g)
    BY <2>1 DEF Steps
  <2>3. QED
    BY <1>3, <1>4, <2>2
<1>5. CASE m # 0
  <2>1. PICK l \in Nat : l = m - 1 /\ m = l + 1
    BY <1>3, <1>5
  <2>2. l \notin T
    BY <1>2, <2>1
  <2>3. PICK g : Steps(s, t, l, g)
    BY <2>2
  <2>4. DOMAIN g = 0 .. l /\ g[0] = s /\ \A n \in 1 .. l : g[n] = Done(g[n - 1], t[n])
    BY <2>3 DEF Steps
  <2>5. PICK last : last = Done(g[l], t[m])
    OBVIOUS
  <2> DEFINE h == [n \in 0 .. m |-> IF n = m THEN last ELSE g[n]]
  <2>6. DOMAIN h = 0 .. m /\ h[m] = last /\ \A n \in 0 .. l : h[n] = g[n]
    BY <1>3, <2>1
  <2> HIDE DEF h
  <2>7. h[0] = s
    BY <2>1, <2>4, <2>6
  <2>8. ASSUME NEW n \in 1 .. m PROVE h[n] = Done(h[n - 1], t[n])
    <3>1. n - 1 \in 0 .. l
      BY <2>1
    <3>2. h[n - 1] = g[n - 1]
      BY <2>6, <3>1
    <3>3. CASE n = m
      <4>1. n - 1 = l
        BY <2>1, <3>3
      <4>2. QED
        BY <2>5, <2>6, <3>2, <3>3, <4>1
    <3>4. CASE n # m
      <4>1. n \in 1 .. l /\ n \in 0 .. l
        BY <2>1, <3>4
      <4>2. h[n] = g[n] /\ g[n] = Done(g[n - 1], t[n])
        BY <2>4, <2>6, <4>1
      <4>3. QED
        BY <3>2, <4>2
    <3>5. QED
      BY <3>3, <3>4
  <2>9. Steps(s, t, m, h)
    BY <2>6, <2>7, <2>8 DEF Steps
  <2>10. QED
    BY <1>3, <2>9
<1>6. QED
  BY <1>4, <1>5

LEMMA StepsOne ==
  ASSUME NEW s, NEW t, NEW m \in Nat, NEW g, Steps(s, t, m, g), NEW h, Steps(s, t, m, h)
  PROVE  \A n \in 0 .. m : g[n] = h[n]
<1> DEFINE T == {n \in 0 .. m : g[n] # h[n]}
<1>1. SUFFICES ASSUME T # {} PROVE FALSE
  OBVIOUS
<1>2. T \subseteq Nat
  OBVIOUS
<1>3. PICK n \in T : \A l \in T : n <= l
  BY <1>1, <1>2, LeastNat
<1>4. n \in 0 .. m /\ g[n] # h[n]
  OBVIOUS
<1>5. n # 0
  BY <1>4 DEF Steps
<1>6. n - 1 \in 0 .. m /\ n - 1 < n /\ n \in 1 .. m
  BY <1>4, <1>5
<1>7. n - 1 \notin T
  BY <1>3, <1>4, <1>6
<1>8. g[n - 1] = h[n - 1]
  BY <1>6, <1>7
<1>9. g[n] = Done(g[n - 1], t[n]) /\ h[n] = Done(h[n - 1], t[n])
  BY <1>6 DEF Steps
<1>10. QED
  BY <1>4, <1>8, <1>9

LEMMA AfterIs ==
  ASSUME NEW s, NEW t, Listed(t), NEW g, Steps(s, t, Len(t), g)
  PROVE  After(s, t) = g[Len(t)]
<1>1. PICK m \in Nat : m = Len(t)
  BY ListedLen
<1>2. Steps(s, t, m, g)
  BY <1>1
<1>3. DOMAIN g = 0 .. m /\ g[0] = s /\ \A n \in 1 .. m : g[n] = Done(g[n - 1], t[n])
  BY <1>2 DEF Steps
<1> DEFINE h == [n \in 0 .. m |-> g[n]]
<1>4. DOMAIN h = 0 .. m /\ \A n \in 0 .. m : h[n] = g[n]
  OBVIOUS
<1>5. h = [n \in 0 .. m |-> h[n]]
  BY <1>4
<1> HIDE DEF h
<1>6. ASSUME NEW n \in 0 .. m PROVE h[n] = IF n = 0 THEN s ELSE Done(h[n - 1], t[n])
  <2>1. CASE n = 0
    BY <1>3, <1>4, <2>1
  <2>2. CASE n # 0
    <3>1. n \in 1 .. m /\ n - 1 \in 0 .. m
      BY <2>2
    <3>2. g[n] = Done(g[n - 1], t[n]) /\ h[n] = g[n] /\ h[n - 1] = g[n - 1]
      BY <1>3, <1>4, <3>1
    <3>3. QED
      BY <2>2, <3>2
  <2>3. QED
    BY <2>1, <2>2
<1>7. h = [n \in 0 .. m |-> IF n = 0 THEN s ELSE Done(h[n - 1], t[n])]
  BY <1>5, <1>6, Zenon
<1>8. Applies(s, t, h)
  BY <1>1, <1>7 DEF Applies
<1>9. PICK k : Applies(s, t, k) /\ After(s, t) = k[Len(t)]
  BY <1>8 DEF After
<1>10. Steps(s, t, m, k)
  BY <1>1, <1>9, AppliesSteps
<1>11. m \in 0 .. m
  OBVIOUS
<1>12. k[m] = g[m]
  BY <1>2, <1>10, <1>11, StepsOne
<1>13. QED
  BY <1>1, <1>9, <1>12

LEMMA AfterNone ==
  ASSUME NEW s
  PROVE  After(s, <<>>) = s
<1> DEFINE g == [n \in 0 .. 0 |-> s]
<1>1. PICK t : t = <<>>
  OBVIOUS
<1>2. Listed(t) /\ Len(t) = 0
  BY <1>1, ListedNone
<1>3. DOMAIN g = 0 .. 0 /\ g[0] = s /\ \A n \in 1 .. 0 : FALSE
  OBVIOUS
<1> HIDE DEF g
<1>4. Steps(s, t, 0, g)
  BY <1>3 DEF Steps
<1>5. After(s, t) = g[0]
  BY <1>2, <1>4, AfterIs
<1>6. QED
  BY <1>1, <1>3, <1>5

LEMMA AfterJoin ==
  ASSUME NEW s, NEW t, Listed(t), NEW u, Listed(u)
  PROVE  After(s, t \o u) = After(After(s, t), u)
<1>1. PICK m, n \in Nat : m = Len(t) /\ n = Len(u)
  BY ListedLen
<1>2. PICK g : Steps(s, t, m, g)
  BY StepsExist
<1>3. PICK z : z = g[m] /\ After(s, t) = z
  BY <1>1, <1>2, AfterIs
<1>4. PICK h : Steps(z, u, n, h)
  BY StepsExist
<1>5. After(z, u) = h[n]
  BY <1>1, <1>4, AfterIs
<1>6. PICK v : v = t \o u
  OBVIOUS
<1>7. Joined(t, u, v)
  BY <1>6, ListedJoined
<1>8. /\ Listed(v) /\ Len(v) = m + n
      /\ \A i \in 1 .. m : v[i] = t[i]
      /\ \A i \in 1 .. n : v[m + i] = u[i]
  BY <1>1, <1>7 DEF Joined
<1> DEFINE k == [i \in 0 .. m + n |-> IF i <= m THEN g[i] ELSE h[i - m]]
<1>9. /\ DOMAIN k = 0 .. m + n
      /\ \A i \in 0 .. m : k[i] = g[i]
      /\ \A i \in m + 1 .. m + n : k[i] = h[i - m]
  OBVIOUS
<1> HIDE DEF k
<1>10. /\ g[0] = s /\ \A i \in 1 .. m : g[i] = Done(g[i - 1], t[i])
       /\ h[0] = z /\ \A i \in 1 .. n : h[i] = Done(h[i - 1], u[i])
  BY <1>2, <1>4 DEF Steps
<1>11. \A i \in 0 .. n : k[m + i] = h[i]
  <2>1. SUFFICES ASSUME NEW i \in 0 .. n PROVE k[m + i] = h[i]
    OBVIOUS
  <2>2. CASE i = 0
    <3>1. m + i = m /\ m \in 0 .. m
      BY <2>2
    <3>2. QED
      BY <1>3, <1>9, <1>10, <2>2, <3>1
  <2>3. CASE i # 0
    <3>1. m + i \in m + 1 .. m + n /\ (m + i) - m = i
      BY <2>3
    <3>2. QED
      BY <1>9, <3>1
  <2>4. QED
    BY <2>2, <2>3
<1>12. ASSUME NEW i \in 1 .. m + n PROVE k[i] = Done(k[i - 1], v[i])
  <2>1. CASE i <= m
    <3>1. i \in 1 .. m /\ i \in 0 .. m /\ i - 1 \in 0 .. m
      BY <2>1
    <3>2. k[i] = g[i] /\ k[i - 1] = g[i - 1] /\ v[i] = t[i]
      BY <1>8, <1>9, <3>1
    <3>3. QED
      BY <1>10, <3>1, <3>2
  <2>2. CASE ~(i <= m)
    <3>1. PICK j \in 1 .. n : i = m + j
      <4>1. i - m \in 1 .. n /\ i = m + (i - m)
        BY <2>2
      <4>2. QED
        BY <4>1
    <3>2. j \in 0 .. n /\ j - 1 \in 0 .. n /\ i - 1 = m + (j - 1)
      BY <3>1
    <3>3. k[i] = h[j] /\ k[i - 1] = h[j - 1] /\ v[i] = u[j]
      BY <1>8, <1>11, <3>1, <3>2
    <3>4. QED
      BY <1>10, <3>1, <3>3
  <2>3. QED
    BY <2>1, <2>2
<1>13. k[0] = s
  <2>1. 0 \in 0 .. m
    OBVIOUS
  <2>2. QED
    BY <1>9, <1>10, <2>1
<1>14. Steps(s, v, m + n, k)
  BY <1>9, <1>12, <1>13 DEF Steps
<1>15. After(s, v) = k[m + n]
  BY <1>8, <1>14, AfterIs
<1>16. k[m + n] = h[n]
  <2>1. n \in 0 .. n
    OBVIOUS
  <2>2. QED
    BY <1>11, <2>1
<1>17. QED
  BY <1>3, <1>5, <1>6, <1>15, <1>16

LEMMA AfterOne ==
  ASSUME NEW s, NEW w
  PROVE  After(s, <<w>>) = Done(s, w)
<1>1. PICK t : t = <<w>> /\ Listed(t) /\ Len(t) = 1 /\ t[1] = w
  BY ListedOne
<1>2. PICK g : Steps(s, t, 1, g)
  BY StepsExist
<1>3. 1 \in 1 .. 1 /\ 1 - 1 = 0
  OBVIOUS
<1>4. g[1] = Done(g[0], t[1]) /\ g[0] = s
  BY <1>2, <1>3 DEF Steps
<1>5. After(s, t) = g[1]
  BY <1>1, <1>2, AfterIs
<1>6. QED
  BY <1>1, <1>4, <1>5

LEMMA HeadJoin ==
  ASSUME NEW t, Listed(t), t # <<>>
  PROVE  t = <<t[1]>> \o Tail(t) /\ Head(t) = t[1] /\ Listed(Tail(t))
<1>1. PICK S : t \in Seq(S)
  BY DEF Listed
<1>2. t = <<Head(t)>> \o Tail(t)
  BY <1>1
<1>3. QED
  BY <1>2, ListedTail

LEMMA AfterHead ==
  ASSUME NEW s, NEW t, Listed(t), t # <<>>
  PROVE  After(s, t) = After(Done(s, t[1]), Tail(t))
<1>1. PICK w, u, v : w = t[1] /\ u = Tail(t) /\ v = <<w>>
  OBVIOUS
<1>2. t = v \o u /\ Listed(u) /\ Listed(v)
  BY <1>1, HeadJoin, ListedOne
<1>3. After(s, t) = After(After(s, v), u)
  BY <1>2, AfterJoin
<1>4. QED
  BY <1>1, <1>3, AfterOne

LEMMA StateParts ==
  ASSUME NEW c, NEW ats
  PROVE  State(c, ats).cat = c /\ State(c, ats).attrs = ats
  BY DEF State

LEMMA DoneDrop ==
  ASSUME NEW c, NEW ats, NEW w, w.do = "drop"
  PROVE  Done(State(c, ats), w) = State(Without(c, w.key), ats)
  BY DEF Done, State

LEMMA DonePut ==
  ASSUME NEW c, NEW ats, NEW w, w.do = "put"
  PROVE  Done(State(c, ats), w) = State(Added(c, w.key, w.rec), ats)
  BY DEF Done, State

LEMMA DoneUpdate ==
  ASSUME NEW c, NEW ats, NEW w, w.do = "update"
  PROVE  Done(State(c, ats), w) = State([c EXCEPT ![Named(c, w.rec.id)] = w.rec], ats)
  BY DEF Done, State

LEMMA DoneStrip ==
  ASSUME NEW c, NEW ats, NEW w, w.do = "strip"
  PROVE  Done(State(c, ats), w) = State(c, {k \in ats : k[1] # w.id})
  BY DEF Done, State

LEMMA DoneUnset ==
  ASSUME NEW c, NEW ats, NEW w, w.do = "unset"
  PROVE  Done(State(c, ats), w) = State(c, ats \ {w.attr})
  BY DEF Done, State

LEMMA DoneSet ==
  ASSUME NEW c, NEW ats, NEW w, w.do = "set"
  PROVE  Done(State(c, ats), w) = State(c, ats \cup {w.attr})
  BY DEF Done, State

LEMMA DoneQuiet ==
  ASSUME NEW c, NEW ats, NEW w, w.do \in {"save", "uncount"}
  PROVE  Done(State(c, ats), w) = State(c, ats)
  BY DEF Done, State

(* A record that is written again goes first and then comes again.         *)
LEMMA AddedAgain ==
  ASSUME NEW c, NEW key \in DOMAIN c, NEW rec
  PROVE  Added(Without(c, key), key, rec) = [c EXCEPT ![key] = rec]
<1> DEFINE g == [c EXCEPT ![key] = rec]
<1>1. PICK d : d = Without(c, key) /\ DOMAIN d = DOMAIN c \ {key}
  BY WithoutDomain
<1>2. PICK f : f = Added(d, key, rec) /\ DOMAIN f = DOMAIN d \cup {key}
  BY AddedDomain
<1>3. DOMAIN f = DOMAIN c
  BY <1>1, <1>2
<1>4. key \notin DOMAIN d /\ f[key] = rec
  BY <1>1, <1>2, AddedNew
<1>5. ASSUME NEW k \in DOMAIN c, k # key PROVE f[k] = c[k]
  <2>1. k \in DOMAIN d /\ d[k] = c[k]
    BY <1>1, <1>5, WithoutAt
  <2>2. QED
    BY <1>2, <2>1, AddedOld
<1>6. f = [k \in DOMAIN c |-> f[k]]
  <2>1. f = [k \in DOMAIN d \cup {key} |-> IF k \in DOMAIN d THEN d[k] ELSE rec]
    BY <1>2 DEF Added
  <2>2. DOMAIN d \cup {key} = DOMAIN c
    BY <1>1
  <2>3. f = [k \in DOMAIN c |-> IF k \in DOMAIN d THEN d[k] ELSE rec]
    BY <2>1, <2>2
  <2>4. QED
    BY <2>3
<1>7. g = [k \in DOMAIN c |-> IF k = key THEN rec ELSE c[k]]
  OBVIOUS
<1> HIDE DEF g
<1>8. \A k \in DOMAIN c : f[k] = IF k = key THEN rec ELSE c[k]
  BY <1>4, <1>5
<1>9. f = [k \in DOMAIN c |-> IF k = key THEN rec ELSE c[k]]
  BY <1>6, <1>8, Zenon
<1>10. QED
  BY <1>1, <1>2, <1>7, <1>9 DEF g

(* Attributes that are unset one after the other.                          *)
LEMMA UnsetAll ==
  ASSUME NEW c, NEW ats, NEW t, Listed(t), \A i \in 1 .. Len(t) : t[i].do = "unset"
  PROVE  After(State(c, ats), t) = State(c, ats \ {t[i].attr : i \in 1 .. Len(t)})
<1>1. PICK m \in Nat : m = Len(t)
  BY ListedLen
<1> DEFINE left(n) == ats \ {t[i].attr : i \in 1 .. n}
           g == [n \in 0 .. m |-> State(c, left(n))]
<1>2. DOMAIN g = 0 .. m /\ \A n \in 0 .. m : g[n] = State(c, left(n))
  OBVIOUS
<1> HIDE DEF g
<1>3. g[0] = State(c, ats)
  <2>1. 0 \in 0 .. m /\ left(0) = ats
    OBVIOUS
  <2>2. QED
    BY <1>2, <2>1
<1>4. ASSUME NEW n \in 1 .. m PROVE g[n] = Done(g[n - 1], t[n])
  <2>1. n \in 0 .. m /\ n - 1 \in 0 .. m
    OBVIOUS
  <2>2. t[n].do = "unset"
    BY <1>1
  <2>3. Done(State(c, left(n - 1)), t[n]) = State(c, left(n - 1) \ {t[n].attr})
    <3>1. PICK w, bs : w = t[n] /\ bs = left(n - 1)
      OBVIOUS
    <3>2. Done(State(c, bs), w) = State(c, bs \ {w.attr})
      <4>1. w.do = "unset"
        BY <2>2, <3>1
      <4>2. QED
        BY <4>1, DoneUnset
    <3>3. QED
      BY <3>1, <3>2
  <2>4. left(n - 1) \ {t[n].attr} = left(n)
    <3>1. 1 .. n = (1 .. n - 1) \cup {n}
      OBVIOUS
    <3>2. QED
      BY <3>1
  <2> HIDE DEF left
  <2>5. QED
    BY <1>2, <2>1, <2>3, <2>4
<1> HIDE DEF left
<1>5. Steps(State(c, ats), t, m, g)
  BY <1>2, <1>3, <1>4 DEF Steps
<1>6. After(State(c, ats), t) = g[m]
  BY <1>1, <1>5, AfterIs
<1>7. m \in 0 .. m
  OBVIOUS
<1>8. QED
  BY <1>1, <1>2, <1>6, <1>7 DEF left

(* What updateCatalog writes again is where its thread says.               *)
LEMMA UpdateHere ==
  ASSUME IInv, BeginUpdate
  PROVE  /\ Rewrites(cat, todo[1].rec) /\ Tidy(cat, LostIds, hdr.next)
         /\ Named(cat, todo[1].rec.id) \in RecordKeys(cat)
         /\ cat[Named(cat, todo[1].rec.id)].id = todo[1].rec.id
         /\ cat[Named(cat, todo[1].rec.id)].kind = todo[1].rec.kind
<1>1. Listed(todo) /\ todo # <<>> /\ Head(todo).do = "update" /\ Head(todo) = todo[1]
  BY ListedTail DEF IInv, Shapes, BeginUpdate, Doing
<1>2. PICK l \in Nat \ {0} : l = Len(todo)
  BY <1>1, ListedLen
<1>3. Resting
  <2>1. ~Coming /\ ~Filling /\ ~Crossing /\ ~Departing
    BY <1>1 DEF Coming, Adding, Filling, Crossing, Departing
  <2>2. ~Clearing
    <3>1. SUFFICES ASSUME Clearing PROVE FALSE
      OBVIOUS
    <3>2. PICK p \in 1 .. l, id \in IdsIn(cat) : ClearingAt(id, p)
      BY <1>2, <3>1 DEF Clearing
    <3>3. CASE p = 1
      BY <1>1, <3>2, <3>3 DEF ClearingAt, Drop
    <3>4. CASE p # 1
      <4>1. 1 \in 1 .. p - 1
        BY <3>4
      <4>2. todo[1] = Strip(id) \/ todo[1].do = "unset"
        BY <3>2, <4>1 DEF ClearingAt
      <4>3. QED
        BY <1>1, <4>2 DEF Strip
    <3>5. QED
      BY <3>3, <3>4
  <2>3. QED
    BY <2>1, <2>2 DEF IInv
<1>4. ~RemovingAt(cat, todo, 1, 1)
  BY <1>1 DEF RemovingAt
<1>5. Rewrites(cat, todo[1].rec)
  <2>1. Settles(cat, todo[1])
    BY <1>1, <1>3, <1>4, RestHead DEF Resting
  <2>2. QED
    BY <1>1, <2>1 DEF Settles
<1>6. Tidy(cat, LostIds, hdr.next)
  BY <1>3 DEF Resting
<1>7. PICK k \in RecordKeys(cat) : cat[k].id = todo[1].rec.id /\ cat[k].kind = todo[1].rec.kind
  BY <1>5 DEF Rewrites
<1>8. Named(cat, cat[k].id) = k
  BY <1>6, TidyNamed
<1>9. QED
  BY <1>5, <1>6, <1>7, <1>8

(* A write, or the part of one that a step makes, has been looked ahead    *)
(* to.                                                                     *)
LEMMA PopAhead ==
  ASSUME Listed(todo), todo # <<>>, todo' = Tail(todo),
         Done(State(cat, attrs), Head(todo)) = State(cat', attrs')
  PROVE  Ahead' = Ahead
<1>1. Head(todo) = todo[1]
  BY ListedTail
<1>2. After(State(cat, attrs), todo) = After(State(cat', attrs'), Tail(todo))
  BY <1>1, AfterHead
<1>3. Ahead' = After(State(cat', attrs'), todo')
  BY AheadNext
<1>4. QED
  BY <1>2, <1>3, AheadIs

LEMMA NthIn ==
  ASSUME NEW own, own \subseteq Nat \X Nat, IsFiniteSet(own),
         NEW j \in 1 .. Cardinality(own)
  PROVE  Nth(own, j) \in own
<1>1. SUFFICES ASSUME Nth(own, j) \notin own PROVE FALSE
  OBVIOUS
<1>2. PICK n \in Nat : n = Cardinality(own)
  BY FS_CardinalityType
<1> DEFINE T == (1 .. n) \ {j}
           f == [k \in own |-> CHOOSE i \in 1 .. n : Nth(own, i) = k]
<1>3. ASSUME NEW k \in own PROVE f[k] \in 1 .. n /\ Nth(own, f[k]) = k
  <2>1. \E i \in 1 .. n : Nth(own, i) = k
    BY <1>2, NthAll
  <2>2. f[k] = CHOOSE i \in 1 .. n : Nth(own, i) = k
    OBVIOUS
  <2> HIDE DEF f
  <2>3. QED
    BY <2>1, <2>2
<1>4. f = [k \in own |-> f[k]]
  OBVIOUS
<1> HIDE DEF f
<1>5. \A k \in own : f[k] \in T
  BY <1>1, <1>3
<1>6. f \in [own -> T]
  BY <1>4, <1>5
<1>7. f \in Injection(own, T)
  BY <1>3, <1>6 DEF Injection, IsInjective
<1>8. IsFiniteSet(T) /\ Cardinality(T) = n - 1
  <2>1. 1 \in Int /\ n \in Int
    OBVIOUS
  <2>2. IsFiniteSet(1 .. n) /\ Cardinality(1 .. n) = IF 1 > n THEN 0 ELSE n - 1 + 1
    BY <2>1, FS_Interval
  <2>3. j \in 1 .. n /\ Cardinality(1 .. n) = n
    BY <1>2, <2>2
  <2>4. QED
    BY <2>2, <2>3, FS_RemoveElement
<1>9. Cardinality(own) <= Cardinality(T)
  BY <1>7, <1>8, FS_Injection
<1>10. QED
  BY <1>2, <1>8, <1>9

LEMMA AheadStays ==
  ASSUME IInv, Write
  PROVE  Ahead' = Ahead
<1>1. Listed(todo)
  BY DEF IInv, Shapes
<1>2. CASE DropRecord \/ PutRecord \/ UnsetAttribute \/ AddAttribute \/ UncountEntry
           \/ SaveHeader
  <2>1. todo # <<>> /\ todo' = Tail(todo)
    BY <1>2 DEF DropRecord, PutRecord, UnsetAttribute, AddAttribute, UncountEntry,
                SaveHeader, Doing
  <2>2. PICK w : w = Head(todo)
    OBVIOUS
  <2>3. Done(State(cat, attrs), w) = State(cat', attrs')
    <3>1. CASE DropRecord
      <4>1. w.do = "drop" /\ cat' = Without(cat, w.key) /\ attrs' = attrs
        BY <2>2, <3>1 DEF DropRecord, Doing
      <4>2. QED
        BY <4>1, DoneDrop
    <3>2. CASE PutRecord
      <4>1. w.do = "put" /\ cat' = Added(cat, w.key, w.rec) /\ attrs' = attrs
        BY <2>2, <3>2 DEF PutRecord, Doing
      <4>2. QED
        BY <4>1, DonePut
    <3>3. CASE UnsetAttribute
      <4>1. w.do = "unset" /\ cat' = cat /\ attrs' = attrs \ {w.attr}
        BY <2>2, <3>3 DEF UnsetAttribute, Doing
      <4>2. QED
        BY <4>1, DoneUnset
    <3>4. CASE AddAttribute
      <4>1. w.do = "set" /\ cat' = cat /\ attrs' = attrs \cup {w.attr}
        BY <2>2, <3>4 DEF AddAttribute, Doing
      <4>2. QED
        BY <4>1, DoneSet
    <3>5. CASE UncountEntry \/ SaveHeader
      <4>1. w.do \in {"save", "uncount"} /\ cat' = cat /\ attrs' = attrs
        BY <2>2, <3>5 DEF UncountEntry, SaveHeader, Doing
      <4>2. QED
        BY <4>1, DoneQuiet
    <3>6. QED
      BY <1>2, <3>1, <3>2, <3>3, <3>4, <3>5
  <2>4. QED
    BY <1>1, <2>1, <2>2, <2>3, PopAhead
<1>3. CASE BeginUpdate
  <2>1. PICK rec, key : /\ rec = todo[1].rec /\ key = Named(cat, rec.id)
                        /\ key \in DOMAIN cat
    BY <1>3, UpdateHere, RecordKeysOf
  <2>2. Head(todo) = todo[1] /\ todo # <<>> /\ Listed(Tail(todo))
    BY <1>1, <1>3, ListedTail DEF BeginUpdate, Doing
  <2>3. /\ todo[1].do = "update" /\ cat' = Without(cat, key) /\ attrs' = attrs
        /\ todo' = <<Put(key, rec)>> \o Tail(todo)
    BY <1>3, <2>1, <2>2 DEF BeginUpdate, Doing
  <2>4. PICK w, v : w = todo[1] /\ v = Put(key, rec)
    OBVIOUS
  <2>5. Done(State(cat, attrs), w) = State([cat EXCEPT ![key] = rec], attrs)
    <3>1. w.do = "update" /\ key = Named(cat, w.rec.id) /\ rec = w.rec
      BY <2>1, <2>3, <2>4
    <3>2. QED
      BY <3>1, DoneUpdate
  <2>6. Done(State(cat', attrs'), v) = State([cat EXCEPT ![key] = rec], attrs)
    <3>1. v.do = "put" /\ v.key = key /\ v.rec = rec
      BY <2>4 DEF Put
    <3>2. Done(State(cat', attrs'), v) = State(Added(cat', key, rec), attrs')
      BY <3>1, DonePut
    <3>3. Added(cat', key, rec) = [cat EXCEPT ![key] = rec]
      BY <2>1, <2>3, AddedAgain
    <3>4. QED
      BY <2>3, <3>2, <3>3
  <2>7. After(State(cat, attrs), todo) = After(Done(State(cat, attrs), w), Tail(todo))
    BY <1>1, <2>2, <2>4, AfterHead
  <2>8. PICK s : s = State(cat', attrs')
    OBVIOUS
  <2>9. After(s, <<v>> \o Tail(todo)) = After(Done(s, v), Tail(todo))
    <3>1. Listed(<<v>>)
      BY ListedOne
    <3>2. After(s, <<v>> \o Tail(todo)) = After(After(s, <<v>>), Tail(todo))
      BY <2>2, <3>1, AfterJoin
    <3>3. QED
      BY <3>2, AfterOne
  <2>10. Ahead' = After(s, <<v>> \o Tail(todo))
    BY <2>3, <2>4, <2>8, AheadNext
  <2>11. QED
    BY <2>5, <2>6, <2>7, <2>8, <2>9, <2>10, AheadIs
<1>4. CASE StripAttributes
  <2>1. CASE todo' = todo
    BY <1>4, <2>1, AheadIs, AheadNext DEF StripAttributes
  <2>2. CASE todo' # todo
    <3>1. PICK id, own, s : /\ id = Head(todo).id /\ own = {k \in attrs : k[1] = id}
                            /\ s = [i \in 1 .. Cardinality(own) |-> Unset(Nth(own, i))]
                            /\ todo' = s \o Tail(todo)
      BY <1>4, <2>2 DEF StripAttributes
    <3>2. /\ Head(todo) = todo[1] /\ todo # <<>> /\ Listed(Tail(todo))
          /\ todo[1].do = "strip" /\ cat' = cat /\ attrs' = attrs
      BY <1>1, <1>4, ListedTail DEF StripAttributes, Doing
    <3>3. own \subseteq Nat \X Nat /\ IsFiniteSet(own)
      BY <3>1, FS_Subset DEF IInv, Shapes
    <3>4. PICK n \in Nat : n = Cardinality(own)
      BY <3>3, FS_CardinalityType
    <3>5. Listed(s) /\ Len(s) = n /\ \A i \in 1 .. n : s[i] = Unset(Nth(own, i))
      <4>1. s = [i \in 1 .. n |-> Unset(Nth(own, i))]
        BY <3>1, <3>4
      <4>2. s \in Seq({Unset(Nth(own, i)) : i \in 1 .. n}) /\ Len(s) = n
        BY <4>1
      <4>3. QED
        BY <4>1, <4>2 DEF Listed
    <3>6. \A i \in 1 .. n : s[i].do = "unset" /\ s[i].attr = Nth(own, i)
      BY <3>5 DEF Unset
    <3>7. attrs \ {s[i].attr : i \in 1 .. n} = {k \in attrs : k[1] # id}
      <4>1. \A a \in own : \E i \in 1 .. n : Nth(own, i) = a
        BY <3>3, <3>4, NthAll
      <4>2. \A i \in 1 .. n : Nth(own, i) \in own
        BY <3>3, <3>4, NthIn
      <4>3. {s[i].attr : i \in 1 .. n} = own
        BY <3>6, <4>1, <4>2
      <4>4. QED
        BY <3>1, <4>3
    <3>8. PICK z, w : z = State(cat, attrs) /\ w = todo[1]
      OBVIOUS
    <3>9. After(z, s) = State(cat, {k \in attrs : k[1] # id})
      <4>1. After(z, s) = State(cat, attrs \ {s[i].attr : i \in 1 .. Len(s)})
        BY <3>5, <3>6, <3>8, UnsetAll
      <4>2. QED
        BY <3>5, <3>7, <4>1
    <3>10. Done(z, w) = State(cat, {k \in attrs : k[1] # id})
      <4>1. w.do = "strip" /\ w.id = id
        BY <3>1, <3>2, <3>8
      <4>2. QED
        BY <3>8, <4>1, DoneStrip
    <3>11. After(z, todo) = After(Done(z, w), Tail(todo))
      BY <1>1, <3>2, <3>8, AfterHead
    <3>12. After(z, todo') = After(After(z, s), Tail(todo))
      BY <3>1, <3>2, <3>5, AfterJoin
    <3>13. QED
      BY <3>2, <3>8, <3>9, <3>10, <3>11, <3>12, AheadIs, AheadNext
  <2>3. QED
    BY <2>1, <2>2
<1>5. QED
  BY <1>2, <1>3, <1>4 DEF Write

-----------------------------------------------------------------------------
(* What each operation comes to.                                           *)

LEMMA AfterTwo ==
  ASSUME NEW s, NEW w, NEW x
  PROVE  After(s, <<w, x>>) = Done(Done(s, w), x)
<1>1. PICK t : t = <<w, x>> /\ Listed(t) /\ Len(t) = 2 /\ t[1] = w
  BY ListedTwo
<1>2. t # <<>> /\ Tail(t) = <<x>>
  BY <1>1
<1>3. After(s, t) = After(Done(s, w), <<x>>)
  BY <1>1, <1>2, AfterHead
<1>4. QED
  BY <1>1, <1>3, AfterOne

LEMMA AfterFour ==
  ASSUME NEW s, NEW w, NEW x, NEW y, NEW z
  PROVE  After(s, <<w, x, y, z>>) = Done(Done(Done(Done(s, w), x), y), z)
<1>1. Listed(<<w, x, y, z>>) /\ <<w, x, y, z>>[1] = w
  BY ListedFour
<1>2. PICK t : t = <<w, x, y, z>> /\ Listed(t) /\ t[1] = w
  BY <1>1
<1>3. PICK u : u = <<x, y, z>> /\ Listed(u) /\ u[1] = x
  <2>1. <<x, y, z>> \in Seq({x, y, z}) /\ <<x, y, z>>[1] = x
    OBVIOUS
  <2>2. QED
    BY <2>1 DEF Listed
<1>4. t # <<>> /\ Tail(t) = u /\ u # <<>> /\ Tail(u) = <<y, z>>
  BY <1>2, <1>3
<1>5. PICK r : r = Done(s, w)
  OBVIOUS
<1>6. After(s, t) = After(r, u)
  BY <1>2, <1>4, <1>5, AfterHead
<1>7. PICK q : q = Done(r, x)
  OBVIOUS
<1>8. After(r, u) = After(q, <<y, z>>)
  BY <1>3, <1>4, <1>7, AfterHead
<1>9. After(q, <<y, z>>) = Done(Done(q, y), z)
  BY AfterTwo
<1>10. QED
  BY <1>2, <1>5, <1>6, <1>7, <1>8, <1>9

(* d is c with another record at k.                                        *)
Redone(c, d, k, rec) ==
  /\ DOMAIN d = DOMAIN c /\ d[k] = rec
  /\ \A l \in DOMAIN c : l # k => d[l] = c[l]

LEMMA UpdateDone ==
  ASSUME NEW c, NEW gone, NEW next, Tidy(c, gone, next),
         NEW k \in RecordKeys(c), NEW rec \in RecTypes,
         rec.id = c[k].id, rec.kind = c[k].kind, NEW ats
  PROVE  \E d : /\ Done(State(c, ats), Update(rec)) = State(d, ats)
                /\ Tidy(d, gone, next) /\ Redone(c, d, k, rec)
<1>1. Update(rec).do = "update" /\ Update(rec).rec = rec
  BY DEF Update
<1>2. PICK w : w = Update(rec) /\ w.do = "update" /\ w.rec = rec
  BY <1>1
<1>3. Named(c, rec.id) = k /\ k \in DOMAIN c
  BY TidyNamed
<1>4. PICK d : d = [c EXCEPT ![k] = rec]
  OBVIOUS
<1>5. Done(State(c, ats), w) = State([c EXCEPT ![Named(c, w.rec.id)] = w.rec], ats)
  BY <1>2, DoneUpdate
<1>6. Done(State(c, ats), w) = State(d, ats)
  BY <1>2, <1>3, <1>4, <1>5
<1>7. d = Added(Without(c, k), k, rec)
  BY <1>3, <1>4, AddedAgain
<1>8. Tidy(d, gone, next)
  BY <1>7, TidyRewrite
<1>9. Redone(c, d, k, rec)
  BY <1>3, <1>4 DEF Redone
<1>10. QED
  BY <1>2, <1>6, <1>8, <1>9

LEMMA SaveDone ==
  ASSUME NEW c, NEW ats
  PROVE  Done(State(c, ats), Save) = State(c, ats)
  BY DEF Done, State, Save

LEMMA PutDone ==
  ASSUME NEW c, NEW ats, NEW key, NEW rec
  PROVE  Done(State(c, ats), Put(key, rec)) = State(Added(c, key, rec), ats)
<1>1. Put(key, rec).do = "put" /\ Put(key, rec).key = key /\ Put(key, rec).rec = rec
  BY DEF Put
<1>2. PICK w : w = Put(key, rec) /\ w.do = "put" /\ w.key = key /\ w.rec = rec
  BY <1>1
<1>3. Done(State(c, ats), w) = State(Added(c, w.key, w.rec), ats)
  BY <1>2, DonePut
<1>4. QED
  BY <1>2, <1>3

LEMMA DropDone ==
  ASSUME NEW c, NEW ats, NEW key
  PROVE  Done(State(c, ats), Drop(key)) = State(Without(c, key), ats)
<1>1. Drop(key).do = "drop" /\ Drop(key).key = key
  BY DEF Drop
<1>2. PICK w : w = Drop(key) /\ w.do = "drop" /\ w.key = key
  BY <1>1
<1>3. Done(State(c, ats), w) = State(Without(c, w.key), ats)
  BY <1>2, DoneDrop
<1>4. QED
  BY <1>2, <1>3

(* Content writes the record again that is there, or another.              *)
LEMMA ContentDone ==
  ASSUME NEW c, NEW gone, NEW next, Tidy(c, gone, next),
         NEW k \in RecordKeys(c), NEW rec \in RecTypes,
         rec.id = c[k].id, rec.kind = c[k].kind, NEW ats
  PROVE  \E d : /\ After(State(c, ats), Content(rec)) = State(d, ats)
                /\ Tidy(d, gone, next) /\ Redone(c, d, k, rec)
<1>1. PICK d : /\ Done(State(c, ats), Update(rec)) = State(d, ats)
               /\ Tidy(d, gone, next) /\ Redone(c, d, k, rec)
  BY UpdateDone
<1>2. PICK v, w, s : v = Save /\ w = Update(rec) /\ s = State(c, ats)
  OBVIOUS
<1>3. Content(rec) = <<v, w>>
  BY <1>2 DEF Content
<1>4. After(s, <<v, w>>) = Done(Done(s, v), w)
  BY AfterTwo
<1>5. Done(s, v) = s
  BY <1>2, SaveDone
<1>6. QED
  BY <1>1, <1>2, <1>3, <1>4, <1>5

(* A record and its thread are put into c at a place that may be taken.    *)
Placed(c, f, key, rec) ==
  /\ DOMAIN f = DOMAIN c \cup {key, ThreadKey(rec.id)}
  /\ \A l \in DOMAIN c : f[l] = c[l]
  /\ key \notin DOMAIN c => f[key] = rec

LEMMA PlaceDone ==
  ASSUME NEW c, NEW gone, NEW next \in Nat, Tidy(c, gone, next),
         NEW key \in Keys, ~IsThread(key),
         NEW rec \in RecTypes, rec.id # NoFolder, rec.id < next,
         ThreadKey(rec.id) \notin DOMAIN c,
         key \in DOMAIN c <=> rec.id \in gone, NEW ats
  PROVE  \E f : /\ Done(Done(State(c, ats), Put(key, rec)),
                        Put(ThreadKey(rec.id), Thread(rec.kind, key))) = State(f, ats)
                /\ Tidy(f, gone, next) /\ Placed(c, f, key, rec)
<1>1. PICK tk, th : tk = ThreadKey(rec.id) /\ th = Thread(rec.kind, key)
  OBVIOUS
<1>2. PICK d : d = Added(c, key, rec)
  OBVIOUS
<1>3. PICK f : f = Added(d, tk, th)
  OBVIOUS
<1>4. f = Added(Added(c, key, rec), ThreadKey(rec.id), Thread(rec.kind, key))
  BY <1>1, <1>2, <1>3
<1>5. /\ Tidy(f, gone, next) /\ DOMAIN f = DOMAIN c \cup {key, ThreadKey(rec.id)}
      /\ \A l \in DOMAIN c : f[l] = c[l]
      /\ key \notin DOMAIN c => f[key] = rec
  BY <1>4, TidyPlace
<1>6. Placed(c, f, key, rec)
  BY <1>5 DEF Placed
<1>7. Done(State(c, ats), Put(key, rec)) = State(d, ats)
  BY <1>2, PutDone
<1>8. Done(State(d, ats), Put(tk, th)) = State(f, ats)
  BY <1>3, PutDone
<1>9. QED
  BY <1>1, <1>5, <1>6, <1>7, <1>8

-----------------------------------------------------------------------------
(***************************************************************************)
(* Counting.                                                               *)

EntriesIn(c, id) == {k \in RecordKeys(c) : k[1] = id}
FoldersIn(c, id) == {k \in EntriesIn(c, id) : c[k].kind = "folder"}
OfKind(c, kind)  == {c[k].id : k \in {l \in RecordKeys(c) : c[l].kind = kind}}

(* The counters of a record r whose folder has n entries and m folders.    *)
Right(r, n, m, dr) ==
  /\ n <= r.valence
  /\ <<"valence", r.id>> \notin dr => r.valence = n
  /\ <<"folders", r.id>> \notin dr => r.folders = m

RightIn(c, dr, l) ==
  Right(c[l], Cardinality(EntriesIn(c, c[l].id)), Cardinality(FoldersIn(c, c[l].id)), dr)

(* Every folder's record counts its entries, except those at the keys of S. *)
ExactBut(c, dr, next, S) ==
  /\ IsFiniteSet(DOMAIN c)
  /\ \A l \in RecordKeys(c) : l[1] < next /\ (l \notin S => RightIn(c, dr, l))

LEMMA EntriesNumber ==
  ASSUME NEW c, IsFiniteSet(DOMAIN c), NEW id
  PROVE  /\ IsFiniteSet(EntriesIn(c, id)) /\ IsFiniteSet(FoldersIn(c, id))
         /\ Cardinality(EntriesIn(c, id)) \in Nat /\ Cardinality(FoldersIn(c, id)) \in Nat
         /\ Cardinality(FoldersIn(c, id)) <= Cardinality(EntriesIn(c, id))
<1>1. /\ EntriesIn(c, id) \subseteq DOMAIN c /\ FoldersIn(c, id) \subseteq EntriesIn(c, id)
  BY DEF EntriesIn, FoldersIn, RecordKeys
<1>2. IsFiniteSet(EntriesIn(c, id))
  BY <1>1, FS_Subset
<1>3. QED
  BY <1>1, <1>2, FS_Subset, FS_CardinalityType

LEMMA RightMore ==
  ASSUME NEW r, NEW n, NEW m, NEW dr, NEW more, dr \subseteq more, Right(r, n, m, dr)
  PROVE  Right(r, n, m, more)
  BY DEF Right

LEMMA ButMore ==
  ASSUME NEW c, NEW dr, NEW next \in Nat, NEW S, ExactBut(c, dr, next, S),
         DOMAIN c \subseteq Keys,
         NEW more, dr \subseteq more, NEW after \in Nat, next <= after
  PROVE  ExactBut(c, more, after, S)
<1>1. ASSUME NEW l \in RecordKeys(c)
      PROVE  l[1] < after /\ (l \notin S => RightIn(c, more, l))
  <2>1. l \in Keys /\ l[1] < next
    BY RecordKeysOf DEF ExactBut
  <2>2. l[1] \in Nat
    BY <2>1, KeyPair
  <2>3. l[1] < after
    BY <2>1, <2>2
  <2>4. l \notin S => RightIn(c, dr, l)
    BY DEF ExactBut
  <2>5. l \notin S => RightIn(c, more, l)
    BY <2>4, RightMore DEF RightIn
  <2>6. QED
    BY <2>3, <2>5
<1>2. QED
  BY <1>1 DEF ExactBut

(* A key that turns out right.                                             *)
LEMMA ButLess ==
  ASSUME NEW c, NEW dr, NEW next, NEW S, ExactBut(c, dr, next, S),
         NEW l, l \in RecordKeys(c) => RightIn(c, dr, l)
  PROVE  ExactBut(c, dr, next, S \ {l})
  BY DEF ExactBut

LEMMA RedoneAlike ==
  ASSUME NEW c, NEW d, NEW k \in RecordKeys(c), NEW rec, Redone(c, d, k, rec),
         rec.id = c[k].id, rec.kind = c[k].kind
  PROVE  Alike(c, d) /\ RecordKeys(d) = RecordKeys(c)
  BY DEF Alike, Redone, RecordKeys

LEMMA AlikeEntries ==
  ASSUME NEW c, NEW d, Alike(c, d)
  PROVE  /\ RecordKeys(d) = RecordKeys(c)
         /\ \A id : EntriesIn(d, id) = EntriesIn(c, id) /\ FoldersIn(d, id) = FoldersIn(c, id)
         /\ \A kind : OfKind(d, kind) = OfKind(c, kind)
<1>1. RecordKeys(d) = RecordKeys(c)
  BY DEF Alike, RecordKeys
<1>2. \A k \in RecordKeys(c) : d[k].id = c[k].id /\ d[k].kind = c[k].kind
  BY DEF Alike
<1>3. \A id : EntriesIn(d, id) = EntriesIn(c, id)
  BY <1>1 DEF EntriesIn
<1>4. ASSUME NEW id PROVE FoldersIn(d, id) = FoldersIn(c, id)
  <2>1. \A k \in EntriesIn(c, id) : d[k].kind = c[k].kind
    BY <1>2 DEF EntriesIn
  <2>2. QED
    BY <1>3, <2>1 DEF FoldersIn
<1>5. ASSUME NEW kind PROVE OfKind(d, kind) = OfKind(c, kind)
  BY <1>1, <1>2 DEF OfKind
<1>6. QED
  BY <1>1, <1>3, <1>4, <1>5

(* A record that is written again, with counters that are right.           *)
LEMMA RedoneExact ==
  ASSUME NEW c, NEW d, NEW dr, NEW next, NEW S, ExactBut(c, dr, next, S),
         NEW k \in RecordKeys(c), NEW rec, Redone(c, d, k, rec),
         rec.id = c[k].id, rec.kind = c[k].kind,
         Right(rec, Cardinality(EntriesIn(c, rec.id)), Cardinality(FoldersIn(c, rec.id)), dr)
  PROVE  ExactBut(d, dr, next, S \ {k})
<1>1. Alike(c, d) /\ RecordKeys(d) = RecordKeys(c)
  BY RedoneAlike
<1>2. \A id : EntriesIn(d, id) = EntriesIn(c, id) /\ FoldersIn(d, id) = FoldersIn(c, id)
  BY <1>1, AlikeEntries
<1>3. IsFiniteSet(DOMAIN d)
  BY DEF ExactBut, Redone
<1>4. ASSUME NEW l \in RecordKeys(d)
      PROVE  l[1] < next /\ (l \notin S \ {k} => RightIn(d, dr, l))
  <2>1. l \in RecordKeys(c) /\ l[1] < next
    BY <1>1 DEF ExactBut
  <2>2. CASE l = k
    <3>1. d[l] = rec
      BY <2>2 DEF Redone
    <3>2. RightIn(d, dr, l)
      BY <1>2, <3>1 DEF RightIn
    <3>3. QED
      BY <2>1, <3>2
  <2>3. CASE l # k
    <3>1. d[l] = c[l]
      BY <2>1, <2>3, RecordKeysOf DEF Redone
    <3>2. l \notin S => RightIn(c, dr, l)
      BY <2>1 DEF ExactBut
    <3>3. l \notin S => RightIn(d, dr, l)
      BY <1>2, <3>1, <3>2 DEF RightIn
    <3>4. QED
      BY <2>1, <2>3, <3>3
  <2>4. QED
    BY <2>2, <2>3
<1>5. QED
  BY <1>3, <1>4 DEF ExactBut

(* Every folder of d has the entries that it has in c, but for the one at  *)
(* key.                                                                    *)
Loses(c, d, key) ==
  \A id : /\ EntriesIn(d, id) = EntriesIn(c, id) \ {key}
          /\ FoldersIn(d, id) = FoldersIn(c, id) \ {key}

(* An entry and its thread go.                                             *)
LEMMA ClearExact ==
  ASSUME NEW c, NEW gone, NEW next, Tidy(c, gone, next),
         NEW dr, ExactBut(c, dr, next, {}),
         NEW k \in RecordKeys(c), k # RootKey,
         NEW i \in RecordKeys(c), i # k, c[i].id = k[1],
         NEW d, d = Cleared(c, k, c[k].id)
  PROVE  ExactBut(d, dr, next, {i}) /\ Loses(c, d, k)
<1>1. /\ \A l \in RecordKeys(d) : l \in RecordKeys(c) /\ d[l] = c[l] /\ l # k
                                  /\ d[l].id # c[k].id
      /\ \A l \in RecordKeys(c) : l # k => l \in RecordKeys(d) /\ d[l] = c[l]
  BY TidyClear
<1>2. RecordKeys(d) = RecordKeys(c) \ {k}
  BY <1>1
<1>3. ASSUME NEW id PROVE EntriesIn(d, id) = EntriesIn(c, id) \ {k}
  BY <1>2 DEF EntriesIn
<1>4. ASSUME NEW id PROVE FoldersIn(d, id) = FoldersIn(c, id) \ {k}
  <2>1. \A l \in EntriesIn(d, id) : d[l] = c[l]
    BY <1>1 DEF EntriesIn
  <2>2. QED
    BY <1>3, <2>1 DEF FoldersIn
<1>5. IsFiniteSet(DOMAIN d)
  <2>1. DOMAIN d = DOMAIN c \ {k, ThreadKey(c[k].id)}
    BY ClearedDomain
  <2>2. DOMAIN d \subseteq DOMAIN c
    BY <2>1
  <2>3. QED
    BY <2>2, FS_Subset DEF ExactBut
<1>6. ASSUME NEW l \in RecordKeys(d)
      PROVE  l[1] < next /\ (l \notin {i} => RightIn(d, dr, l))
  <2>1. l \in RecordKeys(c) /\ d[l] = c[l] /\ l[1] < next /\ RightIn(c, dr, l)
    BY <1>1 DEF ExactBut
  <2>2. CASE l # i
    <3>1. c[l].id # k[1]
      BY <2>1, <2>2, TidyOne
    <3>2. k \notin EntriesIn(c, c[l].id) /\ k \notin FoldersIn(c, c[l].id)
      BY <3>1 DEF EntriesIn, FoldersIn
    <3>3. /\ EntriesIn(d, c[l].id) = EntriesIn(c, c[l].id)
          /\ FoldersIn(d, c[l].id) = FoldersIn(c, c[l].id)
      BY <1>3, <1>4, <3>2
    <3>4. RightIn(d, dr, l)
      BY <2>1, <3>3 DEF RightIn
    <3>5. QED
      BY <2>1, <3>4
  <2>3. QED
    BY <2>1, <2>2
<1>7. QED
  BY <1>3, <1>4, <1>5, <1>6 DEF ExactBut, Loses

(* Every folder of f has the entries that it has in c, and key[1] has one  *)
(* at key.                                                                 *)
Gains(c, f, key, kind) ==
  \A id : /\ EntriesIn(f, id) = EntriesIn(c, id) \cup IF id = key[1] THEN {key} ELSE {}
          /\ FoldersIn(f, id) = FoldersIn(c, id) \cup
               IF id = key[1] /\ kind = "folder" THEN {key} ELSE {}

(* f has rec at key as well, and T has the keys that may count wrong.      *)
Came(c, f, key, rec, dr, next, T) ==
  /\ ExactBut(f, dr, next, T) /\ RecordKeys(f) = RecordKeys(c) \cup {key}
  /\ Gains(c, f, key, rec.kind)

(* An entry comes, but not at a place that is taken.                       *)
LEMMA PlaceExact ==
  ASSUME NEW c, NEW dr, NEW next, NEW S, ExactBut(c, dr, next, S),
         NEW gone, NEW after, Tidy(c, gone, after),
         NEW key, ~IsThread(key), key \notin DOMAIN c, key[1] < next,
         NEW rec, NEW f, Placed(c, f, key, rec),
         NEW j \in RecordKeys(c), c[j].id = key[1],
         NEW T, T = S \cup {j, key}
  PROVE  Came(c, f, key, rec, dr, next, T)
<1>1. /\ DOMAIN f = DOMAIN c \cup {key, ThreadKey(rec.id)}
      /\ \A l \in DOMAIN c : f[l] = c[l]
      /\ f[key] = rec /\ IsThread(ThreadKey(rec.id))
  BY ThreadKeyParts DEF Placed
<1>2. RecordKeys(f) = RecordKeys(c) \cup {key}
  BY <1>1 DEF RecordKeys
<1>3. \A l \in RecordKeys(c) : f[l] = c[l]
  BY <1>1, RecordKeysOf
<1>4. ASSUME NEW id
      PROVE  EntriesIn(f, id) = EntriesIn(c, id) \cup IF id = key[1] THEN {key} ELSE {}
  BY <1>2 DEF EntriesIn
<1>5. ASSUME NEW id
      PROVE  FoldersIn(f, id) = FoldersIn(c, id) \cup
               IF id = key[1] /\ rec.kind = "folder" THEN {key} ELSE {}
  <2>1. \A l \in EntriesIn(c, id) : f[l] = c[l]
    BY <1>3 DEF EntriesIn
  <2>2. CASE id = key[1]
    <3>1. EntriesIn(f, id) = EntriesIn(c, id) \cup {key}
      BY <1>4, <2>2
    <3>2. QED
      BY <1>1, <2>1, <2>2, <3>1 DEF FoldersIn
  <2>3. CASE id # key[1]
    <3>1. EntriesIn(f, id) = EntriesIn(c, id)
      BY <1>4, <2>3
    <3>2. QED
      BY <2>1, <2>3, <3>1 DEF FoldersIn
  <2>4. QED
    BY <2>2, <2>3
<1>6. IsFiniteSet(DOMAIN f)
  <2>1. IsFiniteSet(DOMAIN c)
    BY DEF ExactBut
  <2>2. IsFiniteSet((DOMAIN c \cup {key}) \cup {ThreadKey(rec.id)})
    BY <2>1, FS_AddElement
  <2>3. DOMAIN f = (DOMAIN c \cup {key}) \cup {ThreadKey(rec.id)}
    BY <1>1
  <2>4. QED
    BY <2>2, <2>3
<1>7. ASSUME NEW l \in RecordKeys(f)
      PROVE  l[1] < next /\ (l \notin T => RightIn(f, dr, l))
  <2>1. CASE l = key
    BY <2>1
  <2>2. CASE l \in RecordKeys(c)
    <3>1. f[l] = c[l] /\ l[1] < next /\ (l \notin S => RightIn(c, dr, l))
      BY <1>3, <2>2 DEF ExactBut
    <3>2. ASSUME l # j, RightIn(c, dr, l) PROVE RightIn(f, dr, l)
      <4>1. c[l].id # key[1]
        BY <2>2, <3>2, TidyOne
      <4>2. /\ EntriesIn(f, c[l].id) = EntriesIn(c, c[l].id)
            /\ FoldersIn(f, c[l].id) = FoldersIn(c, c[l].id)
        BY <1>4, <1>5, <4>1
      <4>3. QED
        BY <3>1, <3>2, <4>2 DEF RightIn
    <3>3. QED
      BY <3>1, <3>2
  <2>3. QED
    BY <1>2, <2>1, <2>2
<1>8. Gains(c, f, key, rec.kind)
  BY <1>4, <1>5 DEF Gains
<1>9. QED
  BY <1>2, <1>6, <1>7, <1>8 DEF ExactBut, Came

LEMMA TakenExact ==
  ASSUME NEW c, NEW dr, NEW next, NEW S, ExactBut(c, dr, next, S),
         NEW key \in DOMAIN c, NEW rec, NEW f, Placed(c, f, key, rec)
  PROVE  /\ ExactBut(f, dr, next, S) /\ RecordKeys(f) = RecordKeys(c)
         /\ \A l \in RecordKeys(c) : f[l] = c[l]
         /\ \A id : EntriesIn(f, id) = EntriesIn(c, id) /\ FoldersIn(f, id) = FoldersIn(c, id)
<1>1. /\ DOMAIN f = DOMAIN c \cup {ThreadKey(rec.id)}
      /\ \A l \in DOMAIN c : f[l] = c[l]
      /\ IsThread(ThreadKey(rec.id))
  BY ThreadKeyParts DEF Placed
<1>2. RecordKeys(f) = RecordKeys(c)
  BY <1>1 DEF RecordKeys
<1>3. \A l \in RecordKeys(c) : f[l] = c[l]
  BY <1>1, RecordKeysOf
<1>4. \A id : EntriesIn(f, id) = EntriesIn(c, id)
  BY <1>2 DEF EntriesIn
<1>5. ASSUME NEW id PROVE FoldersIn(f, id) = FoldersIn(c, id)
  <2>1. \A l \in EntriesIn(c, id) : f[l] = c[l]
    BY <1>3 DEF EntriesIn
  <2>2. QED
    BY <1>4, <2>1 DEF FoldersIn
<1>6. IsFiniteSet(DOMAIN f)
  BY <1>1, FS_AddElement DEF ExactBut
<1>7. \A l \in RecordKeys(f) : l[1] < next /\ (l \notin S => RightIn(f, dr, l))
  BY <1>2, <1>3, <1>4, <1>5 DEF ExactBut, RightIn
<1>8. QED
  BY <1>2, <1>3, <1>4, <1>5, <1>6, <1>7 DEF ExactBut

(* One more, one less, and the same number.                                *)
LEMMA CountMore ==
  ASSUME NEW A, IsFiniteSet(A), NEW x, x \notin A
  PROVE  Cardinality(A \cup {x}) = Cardinality(A) + 1
  BY FS_AddElement

LEMMA CountLess ==
  ASSUME NEW A, IsFiniteSet(A), NEW x \in A
  PROVE  Cardinality(A \ {x}) = Cardinality(A) - 1
  BY FS_RemoveElement

-----------------------------------------------------------------------------
(***************************************************************************)
(* The counters, and what the writes to come will bring them to.           *)

LEMMA UpIs ==
  ASSUME NEW n \in Nat, n + 1 < CounterMod
  PROVE  Up(n) = n + 1
  BY BoundsAssumption DEF Up

LEMMA UpDownIn ==
  ASSUME NEW n \in Nat
  PROVE  Up(n) \in 0 .. CounterMod - 1 /\ Down(n) \in 0 .. CounterMod - 1
  BY BoundsAssumption DEF Up, Down

LEMMA DownIs ==
  ASSUME NEW n \in 1 .. CounterMod - 1
  PROVE  Down(n) = n - 1
<1>1. PICK m \in Nat : m = CounterMod /\ m > 0
  BY BoundsAssumption
<1>2. PICK k \in Nat : k = n - 1 /\ k < m
  BY <1>1
<1>3. (n + m - 1) % m = (k + m) % m
  BY <1>1, <1>2
<1>4. (k + m) % m = k
  BY <1>1, <1>2
<1>5. QED
  BY <1>1, <1>2, <1>3, <1>4 DEF Down

FineRec(r) ==
  /\ r \in [kind : {"file", "folder"}, id : Nat, valence : 0 .. MaxValence,
            folders : 0 .. CounterMod - 1, info : Infos]
  /\ r.id \in {kHFSRootFolderID} \cup (FirstId .. MaxId)

FineThread(r) ==
  r \in [kind : {"thread"}, of : {"file", "folder"}, parent : Nat,
         name : Names \cup {Volume}]

FineEntry(k, r) == IF IsThread(k) THEN FineThread(r) ELSE FineRec(r)

FineWrite(w) ==
  /\ w.do = "put" => FineEntry(w.key, w.rec)
  /\ w.do = "update" => FineRec(w.rec)
  /\ w.do = "set" => w.attr \in (FirstId .. MaxId) \X AttrNames
  /\ w.do = "uncount" => w.kind \in {"file", "folder"}

(* Files and folders are no more than the IDs given out.                   *)
FineHead(h) ==
  /\ h \in [next : FirstId .. MaxId + 1, files : Nat, folders : Nat]
  /\ h.files <= h.next - FirstId /\ h.folders <= h.next - FirstId

FineCat(c)  == \A k \in DOMAIN c : FineEntry(k, c[k])
FineTodo(t) == \A i \in 1 .. Len(t) : FineWrite(t[i])

Fine ==
  /\ FineCat(cat) /\ FineTodo(todo)
  /\ attrs \subseteq (FirstId .. MaxId) \X AttrNames
  /\ FineHead(hdr) /\ FineHead(disk)
  /\ status \in {"running", "exited", "panic"}
  /\ IsFiniteSet(lost) /\ \A l \in lost : l.kind \in {"file", "folder"}

(* Entries of a kind, lost ones included.                                  *)
LostOf(ls, kind)   == {l.id : l \in {q \in ls : q.kind = kind}}
AllOf(c, ls, kind) == OfKind(c, kind) \cup LostOf(ls, kind)

(* The entry that a removal has still to take off the header's counters.   *)
Owing(t)      == {i \in 1 .. Len(t) : t[i].do = "uncount"}
Owes(t, kind) == IF \E i \in Owing(t) : t[i].kind = kind THEN 1 ELSE 0
OneOwing(t)   == \A i, j \in Owing(t) : i = j

Tallied(c, t) ==
  /\ hdr.files = Cardinality(AllOf(c, lost, "file")) + Owes(t, "file")
  /\ hdr.folders + 1 = Cardinality(AllOf(c, lost, "folder")) + Owes(t, "folder")
  /\ OneOwing(t)

(* The header is on the disk, or will be once it no longer changes.        *)
Saves(t) == \E j \in 1 .. Len(t) :
              t[j].do = "save" /\ \A i \in j .. Len(t) : t[i].do # "uncount"
Stored   == (disk = hdr /\ Owing(todo) = {}) \/ Saves(todo)

CountInv ==
  /\ Fine /\ Stored
  /\ Tidy(Ahead.cat, LostIds, hdr.next)
  /\ ExactBut(Ahead.cat, drift, hdr.next, {})
  /\ Tallied(Ahead.cat, todo)

-----------------------------------------------------------------------------
(* What a write leaves of the writes to come.                              *)

(* The first of the writes makes way for those of s, if for any.           *)
Advances(t, s, u) ==
  /\ Listed(t) /\ t # <<>> /\ Listed(s) /\ u = s \o Tail(t)
  /\ \A i \in 1 .. Len(s) : FineWrite(s[i]) /\ s[i].do \in {"put", "unset"}

LEMMA PopAdvances ==
  ASSUME NEW t, Listed(t), t # <<>>
  PROVE  Advances(t, <<>>, Tail(t))
<1>1. PICK S : t \in Seq(S)
  BY DEF Listed
<1>2. Tail(t) = <<>> \o Tail(t)
  BY <1>1
<1>3. QED
  BY <1>2, ListedNone DEF Advances

Moved(t, s, u, m, l) ==
  /\ m = Len(s) /\ l = Len(t) /\ Len(u) = m + l - 1 /\ Listed(u)
  /\ \A i \in 1 .. m : u[i] = s[i] /\ FineWrite(u[i]) /\ u[i].do \in {"put", "unset"}
  /\ \A i \in 2 .. l : u[i + (m - 1)] = t[i]
  /\ Head(t) = t[1]

LEMMA AdvancesParts ==
  ASSUME NEW t, NEW s, NEW u, Advances(t, s, u)
  PROVE  \E m \in Nat, l \in Nat \ {0} : Moved(t, s, u, m, l)
<1>1. PICK m \in Nat, l \in Nat \ {0} : m = Len(s) /\ l = Len(t)
  BY ListedLen DEF Advances
<1>2. /\ Listed(u) /\ Shifted(t, 2, u, m - 1)
      /\ \A i \in 1 .. m : u[i] = s[i]
  BY <1>1, ShiftedHead DEF Advances
<1>3. Len(u) = l + (m - 1) /\ \A i \in 2 .. l : u[i + (m - 1)] = t[i]
  BY <1>1, <1>2 DEF Shifted
<1>4. Len(u) = m + l - 1
  BY <1>3
<1>5. \A i \in 1 .. m : FineWrite(u[i]) /\ u[i].do \in {"put", "unset"}
  BY <1>1, <1>2 DEF Advances
<1>6. Head(t) = t[1]
  BY ListedTail DEF Advances
<1>7. QED
  BY <1>1, <1>2, <1>3, <1>4, <1>5, <1>6 DEF Moved

LEMMA AdvancesFine ==
  ASSUME NEW t, NEW s, NEW u, Advances(t, s, u), FineTodo(t)
  PROVE  FineTodo(u)
<1>1. PICK m \in Nat, l \in Nat \ {0} : Moved(t, s, u, m, l)
  BY AdvancesParts
<1>2. /\ m = Len(s) /\ l = Len(t) /\ Len(u) = m + l - 1
      /\ \A i \in 1 .. m : FineWrite(u[i])
      /\ \A i \in 2 .. l : u[i + (m - 1)] = t[i]
  BY <1>1 DEF Moved
<1>3. SUFFICES ASSUME NEW i \in 1 .. m + l - 1 PROVE FineWrite(u[i])
  BY <1>2 DEF FineTodo
<1>4. CASE i <= m
  BY <1>2, <1>4
<1>5. CASE ~(i <= m)
  <2>1. PICK j \in 2 .. l : i = j + (m - 1)
    <3>1. i - (m - 1) \in 2 .. l /\ i = (i - (m - 1)) + (m - 1)
      BY <1>5
    <3>2. QED
      BY <3>1
  <2>2. u[i] = t[j] /\ j \in 1 .. l
    BY <1>2, <2>1
  <2>3. QED
    BY <1>2, <2>2 DEF FineTodo
<1>6. QED
  BY <1>4, <1>5

(* Only a write of t is one that has still to be counted.                  *)
LEMMA AdvancesOwing ==
  ASSUME NEW t, NEW s, NEW u, Advances(t, s, u), NEW i \in Owing(u)
  PROVE  \E j \in Owing(t) : j # 1 /\ i = j + (Len(s) - 1) /\ u[i] = t[j]
<1>1. PICK m \in Nat, l \in Nat \ {0} : Moved(t, s, u, m, l)
  BY AdvancesParts
<1>2. /\ m = Len(s) /\ l = Len(t) /\ Len(u) = m + l - 1
      /\ \A k \in 1 .. m : u[k].do \in {"put", "unset"}
      /\ \A k \in 2 .. l : u[k + (m - 1)] = t[k]
  BY <1>1 DEF Moved
<1>3. i \in 1 .. m + l - 1 /\ u[i].do = "uncount"
  BY <1>2 DEF Owing
<1>4. ~(i <= m)
  <2>1. SUFFICES ASSUME i <= m PROVE FALSE
    OBVIOUS
  <2>2. i \in 1 .. m
    BY <1>3, <2>1
  <2>3. u[i].do \in {"put", "unset"}
    BY <1>2, <2>2, Zenon
  <2>4. QED
    BY <1>3, <2>3
<1>5. PICK j \in 2 .. l : i = j + (m - 1)
  <2>1. i - (m - 1) \in 2 .. l /\ i = (i - (m - 1)) + (m - 1)
    BY <1>3, <1>4
  <2>2. QED
    BY <2>1
<1>6. u[i] = t[j] /\ j \in 1 .. l /\ j # 1
  BY <1>2, <1>5
<1>7. j \in Owing(t)
  BY <1>2, <1>3, <1>6 DEF Owing
<1>8. QED
  BY <1>2, <1>5, <1>6, <1>7

LEMMA OwingAdvances ==
  ASSUME NEW t, NEW s, NEW u, Advances(t, s, u), NEW j \in Owing(t), j # 1
  PROVE  \E i \in Owing(u) : u[i] = t[j]
<1>1. PICK m \in Nat, l \in Nat \ {0} : Moved(t, s, u, m, l)
  BY AdvancesParts
<1>2. /\ m = Len(s) /\ l = Len(t) /\ Len(u) = m + l - 1
      /\ \A k \in 2 .. l : u[k + (m - 1)] = t[k]
  BY <1>1 DEF Moved
<1>3. j \in 2 .. l /\ t[j].do = "uncount"
  BY <1>2 DEF Owing
<1>4. PICK i \in 1 .. m + l - 1 : i = j + (m - 1)
  <2>1. j + (m - 1) \in 1 .. m + l - 1
    BY <1>3
  <2>2. QED
    BY <2>1
<1>5. u[i] = t[j]
  BY <1>2, <1>3, <1>4
<1>6. i \in Owing(u)
  BY <1>2, <1>3, <1>5 DEF Owing
<1>7. QED
  BY <1>5, <1>6

LEMMA OwesKept ==
  ASSUME NEW t, NEW s, NEW u, Advances(t, s, u), t[1].do # "uncount"
  PROVE  /\ \A kind : Owes(u, kind) = Owes(t, kind)
         /\ OneOwing(t) => OneOwing(u)
         /\ Owing(t) = {} => Owing(u) = {}
<1>1. 1 \notin Owing(t)
  BY DEF Owing
<1>2. ASSUME NEW kind
      PROVE  (\E i \in Owing(u) : u[i].kind = kind) <=> (\E i \in Owing(t) : t[i].kind = kind)
  <2>1. ASSUME NEW i \in Owing(u), u[i].kind = kind
        PROVE  \E j \in Owing(t) : t[j].kind = kind
    BY <2>1, AdvancesOwing
  <2>2. ASSUME NEW j \in Owing(t), t[j].kind = kind
        PROVE  \E i \in Owing(u) : u[i].kind = kind
    <3>1. j # 1
      BY <1>1
    <3>2. QED
      BY <2>2, <3>1, OwingAdvances
  <2>3. QED
    BY <2>1, <2>2
<1>3. \A kind : Owes(u, kind) = Owes(t, kind)
  BY <1>2 DEF Owes
<1>4. ASSUME OneOwing(t), NEW i \in Owing(u), NEW k \in Owing(u) PROVE i = k
  <2>1. PICK j \in Owing(t) : i = j + (Len(s) - 1)
    BY AdvancesOwing
  <2>2. PICK l \in Owing(t) : k = l + (Len(s) - 1)
    BY AdvancesOwing
  <2>3. j = l
    BY <1>4 DEF OneOwing
  <2>4. QED
    BY <2>1, <2>2, <2>3
<1>5. Owing(t) = {} => Owing(u) = {}
  BY AdvancesOwing
<1>6. QED
  BY <1>3, <1>4, <1>5 DEF OneOwing

(* The one entry that has still to be counted is.                          *)
LEMMA OwesPaid ==
  ASSUME NEW t, NEW s, NEW u, Advances(t, s, u), t[1].do = "uncount", OneOwing(t)
  PROVE  /\ Owing(u) = {} /\ OneOwing(u)
         /\ \A kind : /\ Owes(u, kind) = 0
                      /\ Owes(t, kind) = IF t[1].kind = kind THEN 1 ELSE 0
<1>1. PICK l \in Nat \ {0} : l = Len(t)
  BY ListedLen DEF Advances
<1>2. 1 \in Owing(t)
  BY <1>1 DEF Owing
<1>3. \A j \in Owing(t) : j = 1
  BY <1>2 DEF OneOwing
<1>4. Owing(u) = {}
  <2>1. SUFFICES ASSUME NEW i \in Owing(u) PROVE FALSE
    OBVIOUS
  <2>2. PICK j \in Owing(t) : j # 1
    BY AdvancesOwing
  <2>3. QED
    BY <1>3, <2>2
<1>5. QED
  BY <1>2, <1>3, <1>4 DEF Owes, OneOwing

LEMMA SavesFrom ==
  ASSUME NEW t, NEW s, NEW u, Advances(t, s, u), NEW j \in 1 .. Len(t), j # 1,
         t[j].do = "save", \A i \in j .. Len(t) : t[i].do # "uncount"
  PROVE  Saves(u)
<1>1. PICK m \in Nat, l \in Nat \ {0} : Moved(t, s, u, m, l)
  BY AdvancesParts
<1>2. /\ m = Len(s) /\ l = Len(t) /\ Len(u) = m + l - 1
      /\ \A k \in 2 .. l : u[k + (m - 1)] = t[k]
  BY <1>1 DEF Moved
<1>3. j \in 2 .. l /\ t[j].do = "save" /\ \A i \in j .. l : t[i].do # "uncount"
  BY <1>2
<1>4. PICK k \in 1 .. m + l - 1 : k = j + (m - 1)
  <2>1. j + (m - 1) \in 1 .. m + l - 1
    BY <1>3
  <2>2. QED
    BY <2>1
<1>5. u[k].do = "save"
  BY <1>2, <1>3, <1>4
<1>6. ASSUME NEW i \in k .. m + l - 1 PROVE u[i].do # "uncount"
  <2>1. PICK n \in j .. l : i = n + (m - 1)
    <3>1. i - (m - 1) \in j .. l /\ i = (i - (m - 1)) + (m - 1)
      BY <1>3, <1>4
    <3>2. QED
      BY <3>1
  <2>2. n \in 2 .. l
    BY <1>3
  <2>3. u[i] = t[n]
    BY <1>2, <2>1, <2>2
  <2>4. QED
    BY <1>3, <2>1, <2>3
<1>7. QED
  BY <1>2, <1>4, <1>5, <1>6 DEF Saves

LEMMA SavesKept ==
  ASSUME NEW t, NEW s, NEW u, Advances(t, s, u), Saves(t),
         t[1].do # "save" \/ Owing(t) # {}
  PROVE  Saves(u)
<1>1. PICK j \in 1 .. Len(t) : t[j].do = "save" /\ \A i \in j .. Len(t) : t[i].do # "uncount"
  BY DEF Saves
<1>2. j # 1
  BY <1>1 DEF Owing
<1>3. QED
  BY <1>1, <1>2, SavesFrom

-----------------------------------------------------------------------------
(* Every write keeps the counts.                                           *)

LEMMA HeadWrite ==
  ASSUME IInv, Fine, todo # <<>>
  PROVE  Listed(todo) /\ Head(todo) = todo[1] /\ FineWrite(todo[1]) /\ 1 \in 1 .. Len(todo)
<1>1. Listed(todo)
  BY DEF IInv, Shapes
<1>2. Len(todo) \in Nat \ {0} /\ Head(todo) = todo[1]
  BY <1>1, ListedLen, ListedTail
<1>3. 1 \in 1 .. Len(todo)
  BY <1>2
<1>4. QED
  BY <1>1, <1>2, <1>3 DEF Fine, FineTodo

LEMMA WriteAdvances ==
  ASSUME IInv, Fine, Write
  PROVE  \/ todo' = todo /\ hdr' = hdr /\ disk' = disk
         \/ \E s : Advances(todo, s, todo')
<1>1. Listed(todo) /\ todo # <<>>
  BY DEF IInv, Shapes, Write, DropRecord, PutRecord, BeginUpdate, StripAttributes,
         UnsetAttribute, AddAttribute, UncountEntry, SaveHeader, Doing
<1>2. Head(todo) = todo[1] /\ FineWrite(todo[1])
  BY <1>1, HeadWrite
<1>3. CASE DropRecord \/ PutRecord \/ UnsetAttribute \/ AddAttribute \/ UncountEntry
           \/ SaveHeader
  <2>1. todo' = Tail(todo)
    BY <1>3 DEF DropRecord, PutRecord, UnsetAttribute, AddAttribute, UncountEntry, SaveHeader
  <2>2. QED
    BY <1>1, <2>1, PopAdvances
<1>4. CASE BeginUpdate
  <2>1. PICK rec, key : rec = todo[1].rec /\ key = Named(cat, rec.id) /\ key \in RecordKeys(cat)
    BY <1>4, UpdateHere
  <2>2. todo' = <<Put(key, rec)>> \o Tail(todo) /\ todo[1].do = "update"
    BY <1>2, <1>4, <2>1 DEF BeginUpdate, Doing
  <2>3. Put(key, rec).do = "put" /\ Put(key, rec).key = key /\ Put(key, rec).rec = rec
    BY DEF Put
  <2>4. PICK v : v = Put(key, rec) /\ v.do = "put" /\ v.key = key /\ v.rec = rec
    BY <2>3
  <2>5. ~IsThread(key) /\ FineRec(rec)
    BY <1>2, <2>1, <2>2, RecordKeysOf DEF FineWrite
  <2>6. FineWrite(v)
    BY <2>4, <2>5 DEF FineWrite, FineEntry
  <2>7. Listed(<<v>>) /\ Len(<<v>>) = 1 /\ <<v>>[1] = v
    BY ListedOne
  <2>8. Advances(todo, <<v>>, todo')
    BY <1>1, <2>2, <2>4, <2>6, <2>7 DEF Advances
  <2>9. QED
    BY <2>8
<1>5. CASE StripAttributes
  <2>1. CASE todo' = todo
    BY <1>5, <2>1 DEF StripAttributes
  <2>2. CASE todo' # todo
    <3>1. PICK own, s : /\ s = [i \in 1 .. Cardinality(own) |-> Unset(Nth(own, i))]
                        /\ own = {k \in attrs : k[1] = Head(todo).id}
                        /\ todo' = s \o Tail(todo)
      BY <1>5, <2>2 DEF StripAttributes
    <3>2. IsFiniteSet(own)
      BY <3>1, FS_Subset DEF IInv, Shapes
    <3>3. PICK n \in Nat : n = Cardinality(own)
      BY <3>2, FS_CardinalityType
    <3>4. s = [i \in 1 .. n |-> Unset(Nth(own, i))]
      BY <3>1, <3>3
    <3>5. s \in Seq({Unset(Nth(own, i)) : i \in 1 .. n}) /\ Len(s) = n
      BY <3>4
    <3>6. Listed(s)
      BY <3>5 DEF Listed
    <3>7. ASSUME NEW i \in 1 .. n PROVE s[i].do = "unset" /\ FineWrite(s[i])
      <4>1. s[i] = Unset(Nth(own, i))
        BY <3>4
      <4>2. s[i].do = "unset"
        BY <4>1 DEF Unset
      <4>3. QED
        BY <4>2 DEF FineWrite
    <3>8. Advances(todo, s, todo')
      BY <1>1, <3>1, <3>5, <3>6, <3>7 DEF Advances
    <3>9. QED
      BY <3>8
  <2>3. QED
    BY <2>1, <2>2
<1>6. QED
  BY <1>3, <1>4, <1>5 DEF Write

LEMMA FineHeadDown ==
  ASSUME NEW h, FineHead(h), NEW n \in 1 .. CounterMod - 1
  PROVE  /\ h.files = n => FineHead([h EXCEPT !.files = Down(n)])
         /\ h.folders = n => FineHead([h EXCEPT !.folders = Down(n)])
<1>1. PICK m \in Nat : m = n - 1 /\ Down(n) = m
  BY DownIs, BoundsAssumption
<1>2. MaxId \in Nat
  BY BoundsAssumption
<1>3. ASSUME h.files = n PROVE FineHead([h EXCEPT !.files = m])
  BY <1>1, <1>2, <1>3 DEF FineHead, FirstId
<1>4. ASSUME h.folders = n PROVE FineHead([h EXCEPT !.folders = m])
  BY <1>1, <1>2, <1>4 DEF FineHead, FirstId
<1>5. QED
  BY <1>1, <1>3, <1>4

LEMMA FineWithout ==
  ASSUME NEW c, FineCat(c), NEW key
  PROVE  FineCat(Without(c, key))
<1>1. ASSUME NEW k \in DOMAIN Without(c, key) PROVE FineEntry(k, Without(c, key)[k])
  <2>1. k \in DOMAIN c /\ k # key
    BY WithoutDomain
  <2>2. Without(c, key)[k] = c[k]
    BY <2>1, WithoutAt
  <2>3. QED
    BY <2>1, <2>2 DEF FineCat
<1>2. QED
  BY <1>1 DEF FineCat

LEMMA FineAdded ==
  ASSUME NEW c, FineCat(c), NEW key, NEW rec, FineEntry(key, rec)
  PROVE  FineCat(Added(c, key, rec))
<1>1. ASSUME NEW k \in DOMAIN Added(c, key, rec) PROVE FineEntry(k, Added(c, key, rec)[k])
  <2>1. CASE k \in DOMAIN c
    <3>1. Added(c, key, rec)[k] = c[k]
      BY <2>1, AddedOld
    <3>2. QED
      BY <2>1, <3>1 DEF FineCat
  <2>2. CASE k \notin DOMAIN c
    <3>1. k = key
      <4>1. k \in DOMAIN c \cup {key}
        BY AddedDomain
      <4>2. QED
        BY <2>2, <4>1
    <3>2. Added(c, key, rec)[k] = rec
      BY <2>2, <3>1, AddedNew
    <3>3. QED
      BY <3>1, <3>2
  <2>3. QED
    BY <2>1, <2>2
<1>2. QED
  BY <1>1 DEF FineCat

(* What a function of a finite set has for values.                         *)
LEMMA ValuesFinite ==
  ASSUME NEW S, IsFiniteSet(S), NEW f, f = [x \in S |-> f[x]],
         NEW T, T = {f[x] : x \in S}
  PROVE  IsFiniteSet(T)
<1>1. f \in [S -> T]
  OBVIOUS
<1>2. \A y \in T : \E x \in S : f[x] = y
  OBVIOUS
<1>3. f \in Surjection(S, T)
  BY <1>1, <1>2 DEF Surjection
<1>4. QED
  BY <1>3, FS_Surjection

LEMMA AllFinite ==
  ASSUME NEW c, IsFiniteSet(DOMAIN c), NEW ls, IsFiniteSet(ls), NEW kind
  PROVE  /\ IsFiniteSet(AllOf(c, ls, kind)) /\ Cardinality(AllOf(c, ls, kind)) \in Nat
         /\ IsFiniteSet(OfKind(c, kind)) /\ IsFiniteSet(LostOf(ls, kind))
<1>1. IsFiniteSet(OfKind(c, kind))
  <2>1. PICK S : S = {l \in RecordKeys(c) : c[l].kind = kind}
    OBVIOUS
  <2>2. S \subseteq DOMAIN c
    BY <2>1 DEF RecordKeys
  <2>3. IsFiniteSet(S)
    BY <2>2, FS_Subset
  <2>4. PICK f : f = [k \in S |-> c[k].id]
    OBVIOUS
  <2>5. f = [k \in S |-> f[k]] /\ OfKind(c, kind) = {f[k] : k \in S}
    BY <2>1, <2>4 DEF OfKind
  <2>6. QED
    BY <2>3, <2>5, ValuesFinite
<1>2. IsFiniteSet(LostOf(ls, kind))
  <2>1. PICK S : S = {q \in ls : q.kind = kind}
    OBVIOUS
  <2>2. IsFiniteSet(S)
    BY <2>1, FS_Subset
  <2>3. PICK f : f = [q \in S |-> q.id]
    OBVIOUS
  <2>4. f = [q \in S |-> f[q]] /\ LostOf(ls, kind) = {f[q] : q \in S}
    BY <2>1, <2>3 DEF LostOf
  <2>5. QED
    BY <2>2, <2>4, ValuesFinite
<1>3. QED
  BY <1>1, <1>2, FS_Union, FS_CardinalityType DEF AllOf

(* The root is one of the folders.                                         *)
LEMMA RootCounts ==
  ASSUME CountInv
  PROVE  Cardinality(AllOf(Ahead.cat, lost, "folder")) \in Nat \ {0}
<1>1. PICK c : c = Ahead.cat
  OBVIOUS
<1>2. Tidy(c, LostIds, hdr.next) /\ IsFiniteSet(DOMAIN c) /\ IsFiniteSet(lost)
  BY <1>1 DEF CountInv, ExactBut, Fine
<1>3. RootKey \in RecordKeys(c) /\ c[RootKey].kind = "folder"
  BY <1>2, TidyRoot
<1>4. PICK S : S = AllOf(c, lost, "folder") /\ IsFiniteSet(S) /\ Cardinality(S) \in Nat
  BY <1>2, AllFinite
<1>5. c[RootKey].id \in S
  BY <1>3, <1>4 DEF AllOf, OfKind
<1>6. S # {}
  BY <1>5
<1>7. Cardinality(S) # 0
  BY <1>4, <1>6, FS_EmptySet
<1>8. QED
  BY <1>1, <1>4, <1>7

(* The counter that a removal takes an entry off is not zero.              *)
LEMMA UncountFine ==
  ASSUME CountInv, IInv, UncountEntry
  PROVE  /\ FineHead(hdr') /\ hdr'.next = hdr.next
         /\ hdr'.files = hdr.files - Owes(todo, "file")
         /\ hdr'.folders = hdr.folders - Owes(todo, "folder")
<1>1. todo # <<>> /\ Head(todo).do = "uncount"
  BY DEF UncountEntry, Doing
<1>2. /\ Listed(todo) /\ Head(todo) = todo[1] /\ FineWrite(todo[1])
  BY <1>1, HeadWrite DEF CountInv
<1>3. todo[1].do = "uncount" /\ todo[1].kind \in {"file", "folder"}
  BY <1>1, <1>2 DEF FineWrite
<1>4. Advances(todo, <<>>, Tail(todo))
  BY <1>1, <1>2, PopAdvances
<1>5. \A kind : Owes(todo, kind) = IF todo[1].kind = kind THEN 1 ELSE 0
  BY <1>3, <1>4, OwesPaid DEF CountInv, Tallied
<1>6. FineHead(hdr)
  BY DEF CountInv, Fine
<1>7. PICK a \in Nat, b \in Nat : a = hdr.files /\ b = hdr.folders
  BY <1>6 DEF FineHead
<1>8. a < CounterMod /\ b < CounterMod
  <2>1. hdr.next \in FirstId .. MaxId + 1 /\ a <= hdr.next - FirstId /\ b <= hdr.next - FirstId
    BY <1>6, <1>7 DEF FineHead
  <2>2. QED
    BY <1>7, <2>1, BoundsAssumption DEF FirstId
<1>9. CASE todo[1].kind = "file"
  <2>1. Owes(todo, "file") = 1 /\ Owes(todo, "folder") = 0
    BY <1>5, <1>9
  <2>2. PICK n \in Nat : a = n + 1
    <3>1. Cardinality(AllOf(Ahead.cat, lost, "file")) \in Nat
      BY AllFinite DEF CountInv, ExactBut, Fine
    <3>2. a = Cardinality(AllOf(Ahead.cat, lost, "file")) + 1
      BY <1>7, <2>1 DEF CountInv, Tallied
    <3>3. QED
      BY <3>1, <3>2
  <2>3. a \in 1 .. CounterMod - 1
    BY <1>8, <2>2, BoundsAssumption
  <2>4. hdr' = [hdr EXCEPT !.files = Down(a)]
    BY <1>2, <1>7, <1>9 DEF UncountEntry
  <2>5. FineHead(hdr')
    BY <1>6, <1>7, <2>3, <2>4, FineHeadDown
  <2>6. hdr'.next = hdr.next /\ hdr'.files = Down(a) /\ hdr'.folders = b
    BY <1>6, <1>7, <2>4 DEF FineHead
  <2>7. Down(a) = a - 1
    BY <2>3, DownIs
  <2>8. QED
    BY <1>7, <2>1, <2>5, <2>6, <2>7
<1>10. CASE todo[1].kind = "folder"
  <2>1. Owes(todo, "file") = 0 /\ Owes(todo, "folder") = 1
    BY <1>5, <1>10
  <2>2. b # 0
    <3>1. PICK n \in Nat \ {0} : n = Cardinality(AllOf(Ahead.cat, lost, "folder"))
      BY RootCounts
    <3>2. b + 1 = n + 1
      BY <1>7, <2>1, <3>1 DEF CountInv, Tallied
    <3>3. QED
      BY <3>2
  <2>3. b \in 1 .. CounterMod - 1
    BY <1>8, <2>2, BoundsAssumption
  <2>4. hdr' = [hdr EXCEPT !.folders = Down(b)]
    BY <1>2, <1>7, <1>10 DEF UncountEntry
  <2>5. FineHead(hdr')
    BY <1>6, <1>7, <2>3, <2>4, FineHeadDown
  <2>6. hdr'.next = hdr.next /\ hdr'.folders = Down(b) /\ hdr'.files = a
    BY <1>6, <1>7, <2>4 DEF FineHead
  <2>7. Down(b) = b - 1
    BY <2>3, DownIs
  <2>8. QED
    BY <1>7, <2>1, <2>5, <2>6, <2>7
<1>11. QED
  BY <1>3, <1>9, <1>10

LEMMA WriteHead ==
  ASSUME Write
  PROVE  todo # <<>> /\ lost' = lost /\ drift' = drift /\ LostIds' = LostIds
  BY DEF Write, DropRecord, PutRecord, BeginUpdate, StripAttributes, UnsetAttribute,
         AddAttribute, UncountEntry, SaveHeader, Doing, LostIds

(* The header's counters change only by what was owed.                     *)
LEMMA WriteTallies ==
  ASSUME IInv, CountInv, Write
  PROVE  FineHead(hdr') /\ hdr'.next = hdr.next /\ Tallied(Ahead.cat, todo)'
<1>1. Ahead' = Ahead /\ lost' = lost /\ todo # <<>>
  BY AheadStays, WriteHead
<1>2. PICK c : c = Ahead.cat /\ c = Ahead'.cat
  BY <1>1
<1>3. /\ Listed(todo) /\ Head(todo) = todo[1] /\ FineHead(hdr)
  BY <1>1, HeadWrite DEF CountInv, Fine
<1>4. /\ hdr.files = Cardinality(AllOf(c, lost, "file")) + Owes(todo, "file")
      /\ hdr.folders + 1 = Cardinality(AllOf(c, lost, "folder")) + Owes(todo, "folder")
      /\ OneOwing(todo)
  BY <1>2 DEF CountInv, Tallied
<1>5. SUFFICES /\ FineHead(hdr') /\ hdr'.next = hdr.next /\ OneOwing(todo')
               /\ hdr'.files = Cardinality(AllOf(c, lost, "file")) + Owes(todo', "file")
               /\ hdr'.folders + 1 =
                    Cardinality(AllOf(c, lost, "folder")) + Owes(todo', "folder")
  BY <1>1, <1>2 DEF Tallied
<1>6. CASE UncountEntry
  <2>1. todo' = Tail(todo) /\ todo[1].do = "uncount"
    BY <1>3, <1>6 DEF UncountEntry, Doing
  <2>2. Advances(todo, <<>>, todo')
    BY <1>1, <1>3, <2>1, PopAdvances
  <2>3. OneOwing(todo') /\ \A kind : Owes(todo', kind) = 0
    BY <1>4, <2>1, <2>2, OwesPaid
  <2>4. /\ FineHead(hdr') /\ hdr'.next = hdr.next
        /\ hdr'.files = hdr.files - Owes(todo, "file")
        /\ hdr'.folders = hdr.folders - Owes(todo, "folder")
    BY <1>6, UncountFine
  <2>5. PICK m \in Nat, n \in Nat : /\ m = Cardinality(AllOf(c, lost, "file"))
                                  /\ n = Cardinality(AllOf(c, lost, "folder"))
    BY <1>2, AllFinite DEF CountInv, ExactBut, Fine
  <2>6. PICK x \in Nat, y \in Nat : x = Owes(todo, "file") /\ y = Owes(todo, "folder")
    BY DEF Owes
  <2>7. hdr.files \in Nat /\ hdr.folders \in Nat
    BY <1>3 DEF FineHead
  <2>8. hdr'.files = m
    BY <1>4, <2>4, <2>5, <2>6, <2>7
  <2>9. hdr'.folders + 1 = n
    BY <1>4, <2>4, <2>5, <2>6, <2>7
  <2>10. QED
    BY <2>3, <2>4, <2>5, <2>8, <2>9
<1>7. CASE ~UncountEntry
  <2>1. hdr' = hdr /\ todo[1].do # "uncount"
    BY <1>3, <1>7 DEF Write, DropRecord, PutRecord, BeginUpdate, StripAttributes,
         UnsetAttribute, AddAttribute, SaveHeader, Doing
  <2>2. OneOwing(todo') /\ \A kind : Owes(todo', kind) = Owes(todo, kind)
    <3>1. CASE todo' = todo
      BY <1>4, <3>1
    <3>2. ASSUME NEW s, Advances(todo, s, todo')
          PROVE  OneOwing(todo') /\ \A kind : Owes(todo', kind) = Owes(todo, kind)
      BY <1>4, <2>1, <3>2, OwesKept
    <3>3. QED
      BY <3>1, <3>2, WriteAdvances DEF CountInv
  <2>3. QED
    BY <1>3, <1>4, <2>1, <2>2
<1>8. QED
  BY <1>6, <1>7

LEMMA WriteStores ==
  ASSUME IInv, CountInv, Write
  PROVE  Stored'
<1>1. /\ Listed(todo) /\ Head(todo) = todo[1] /\ todo # <<>> /\ 1 \in 1 .. Len(todo)
  BY WriteHead, HeadWrite DEF CountInv
<1>2. Stored /\ OneOwing(todo)
  BY DEF CountInv, Tallied
<1>3. CASE SaveHeader
  <2>1. todo' = Tail(todo) /\ todo[1].do = "save" /\ disk' = hdr /\ hdr' = hdr
    BY <1>1, <1>3 DEF SaveHeader, Doing
  <2>2. Advances(todo, <<>>, todo')
    BY <1>1, <2>1, PopAdvances
  <2>3. CASE Owing(todo) = {}
    <3>1. Owing(todo') = {}
      BY <2>1, <2>2, <2>3, OwesKept
    <3>2. QED
      BY <2>1, <3>1 DEF Stored
  <2>4. CASE Owing(todo) # {}
    <3>1. Saves(todo)
      BY <1>2, <2>4 DEF Stored
    <3>2. Saves(todo')
      BY <2>2, <2>4, <3>1, SavesKept
    <3>3. QED
      BY <3>2 DEF Stored
  <2>5. QED
    BY <2>3, <2>4
<1>4. CASE UncountEntry
  <2>1. todo' = Tail(todo) /\ todo[1].do = "uncount"
    BY <1>1, <1>4 DEF UncountEntry, Doing
  <2>2. Advances(todo, <<>>, todo')
    BY <1>1, <2>1, PopAdvances
  <2>3. 1 \in Owing(todo)
    BY <1>1, <2>1 DEF Owing
  <2>4. Saves(todo)
    BY <1>2, <2>3 DEF Stored
  <2>5. Saves(todo')
    BY <2>2, <2>3, <2>4, SavesKept
  <2>6. QED
    BY <2>5 DEF Stored
<1>5. CASE ~SaveHeader /\ ~UncountEntry
  <2>1. hdr' = hdr /\ disk' = disk /\ todo[1].do # "uncount" /\ todo[1].do # "save"
    BY <1>1, <1>5 DEF Write, DropRecord, PutRecord, BeginUpdate, StripAttributes,
         UnsetAttribute, AddAttribute, Doing
  <2>2. CASE todo' = todo
    BY <1>2, <2>1, <2>2 DEF Stored
  <2>3. ASSUME NEW s, Advances(todo, s, todo') PROVE Stored'
    <3>1. Owing(todo) = {} => Owing(todo') = {}
      BY <2>1, <2>3, OwesKept
    <3>2. Saves(todo) => Saves(todo')
      BY <2>1, <2>3, SavesKept
    <3>3. QED
      BY <1>2, <2>1, <3>1, <3>2 DEF Stored
  <2>4. QED
    BY <2>2, <2>3, WriteAdvances DEF CountInv
<1>6. QED
  BY <1>3, <1>4, <1>5

LEMMA WriteFine ==
  ASSUME IInv, CountInv, Write
  PROVE  Fine'
<1>1. Fine
  BY DEF CountInv
<1>2. /\ Listed(todo) /\ Head(todo) = todo[1] /\ todo # <<>> /\ FineWrite(todo[1])
  BY <1>1, WriteHead, HeadWrite
<1>3. lost' = lost
  BY WriteHead
<1>4. FineHead(hdr')
  BY WriteTallies
<1>5. FineTodo(todo')
  <2>1. CASE todo' = todo
    BY <1>1, <2>1 DEF Fine
  <2>2. ASSUME NEW s, Advances(todo, s, todo') PROVE FineTodo(todo')
    BY <1>1, <2>2, AdvancesFine DEF Fine
  <2>3. QED
    BY <1>1, <2>1, <2>2, WriteAdvances
<1>6. FineHead(disk')
  BY <1>1 DEF Fine, Write, DropRecord, PutRecord, BeginUpdate, StripAttributes, UnsetAttribute,
              AddAttribute, UncountEntry, SaveHeader
<1>7. status' \in {"running", "exited", "panic"}
  BY <1>1 DEF Fine, Write, DropRecord, PutRecord, BeginUpdate, StripAttributes, UnsetAttribute,
              AddAttribute, UncountEntry, SaveHeader
<1>8. attrs' \subseteq (FirstId .. MaxId) \X AttrNames
  <2>1. attrs \subseteq (FirstId .. MaxId) \X AttrNames
    BY <1>1 DEF Fine
  <2>2. CASE AddAttribute
    <3>1. attrs' = attrs \cup {todo[1].attr} /\ todo[1].do = "set"
      BY <1>2, <2>2 DEF AddAttribute, Doing
    <3>2. todo[1].attr \in (FirstId .. MaxId) \X AttrNames
      BY <1>2, <3>1 DEF FineWrite
    <3>3. QED
      BY <2>1, <3>1, <3>2
  <2>3. CASE ~AddAttribute
    <3>1. attrs' \subseteq attrs
      BY <2>3 DEF Write, DropRecord, PutRecord, BeginUpdate, StripAttributes, UnsetAttribute,
                  UncountEntry, SaveHeader
    <3>2. QED
      BY <2>1, <3>1
  <2>4. QED
    BY <2>2, <2>3
<1>9. FineCat(cat')
  <2>1. FineCat(cat)
    BY <1>1 DEF Fine
  <2>2. CASE DropRecord
    <3>1. cat' = Without(cat, Head(todo).key)
      BY <2>2 DEF DropRecord
    <3>2. QED
      BY <2>1, <3>1, FineWithout
  <2>3. CASE PutRecord
    <3>1. cat' = Added(cat, todo[1].key, todo[1].rec) /\ todo[1].do = "put"
      BY <1>2, <2>3 DEF PutRecord, Doing
    <3>2. FineEntry(todo[1].key, todo[1].rec)
      BY <1>2, <3>1 DEF FineWrite
    <3>3. QED
      BY <2>1, <3>1, <3>2, FineAdded
  <2>4. CASE BeginUpdate
    <3>1. \E key : cat' = Without(cat, key)
      BY <2>4 DEF BeginUpdate
    <3>2. QED
      BY <2>1, <3>1, FineWithout
  <2>5. CASE ~DropRecord /\ ~PutRecord /\ ~BeginUpdate
    <3>1. cat' = cat
      BY <2>5 DEF Write, StripAttributes, UnsetAttribute, AddAttribute, UncountEntry, SaveHeader
    <3>2. QED
      BY <2>1, <3>1
  <2>6. QED
    BY <2>2, <2>3, <2>4, <2>5
<1>10. QED
  BY <1>1, <1>3, <1>4, <1>5, <1>6, <1>7, <1>8, <1>9 DEF Fine

LEMMA WriteCounts ==
  ASSUME IInv, CountInv, Write
  PROVE  CountInv'
<1>1. Fine' /\ Stored' /\ Tallied(Ahead.cat, todo)' /\ hdr'.next = hdr.next
  BY WriteFine, WriteStores, WriteTallies
<1>2. Ahead' = Ahead /\ LostIds' = LostIds /\ drift' = drift
  BY AheadStays, WriteHead
<1>3. Tidy(Ahead.cat, LostIds, hdr.next) /\ ExactBut(Ahead.cat, drift, hdr.next, {})
  BY DEF CountInv
<1>4. QED
  BY <1>1, <1>2, <1>3 DEF CountInv

-----------------------------------------------------------------------------
(* Entries that come and go, kind by kind.                                 *)

LEMMA PlaceKinds ==
  ASSUME NEW c, NEW f, NEW key, ~IsThread(key), NEW rec, Placed(c, f, key, rec), NEW kind
  PROVE  OfKind(f, kind) =
           OfKind(c, kind) \cup IF key \notin DOMAIN c /\ rec.kind = kind THEN {rec.id} ELSE {}
<1>1. /\ DOMAIN f = DOMAIN c \cup {key, ThreadKey(rec.id)}
      /\ \A l \in DOMAIN c : f[l] = c[l]
      /\ IsThread(ThreadKey(rec.id))
  BY ThreadKeyParts DEF Placed
<1>2. RecordKeys(f) = RecordKeys(c) \cup {key}
  BY <1>1 DEF RecordKeys
<1>3. \A l \in RecordKeys(c) : f[l] = c[l]
  BY <1>1, RecordKeysOf
<1>4. CASE key \in DOMAIN c
  <2>1. RecordKeys(f) = RecordKeys(c)
    BY <1>2, <1>4, RecordKeysOf
  <2>2. QED
    BY <1>3, <1>4, <2>1 DEF OfKind
<1>5. CASE key \notin DOMAIN c
  <2>1. f[key] = rec
    BY <1>5 DEF Placed
  <2>2. QED
    BY <1>2, <1>3, <1>5, <2>1 DEF OfKind
<1>6. QED
  BY <1>4, <1>5

LEMMA ClearKinds ==
  ASSUME NEW c, NEW gone, NEW next, Tidy(c, gone, next),
         NEW k \in RecordKeys(c), k # RootKey, NEW kind
  PROVE  /\ OfKind(Cleared(c, k, c[k].id), kind) = OfKind(c, kind) \ {c[k].id}
         /\ c[k].id \in OfKind(c, kind) <=> c[k].kind = kind
<1>1. PICK d : d = Cleared(c, k, c[k].id)
  OBVIOUS
<1>2. /\ \A l \in RecordKeys(d) : l \in RecordKeys(c) /\ d[l] = c[l] /\ l # k
                                  /\ d[l].id # c[k].id
      /\ \A l \in RecordKeys(c) : l # k => l \in RecordKeys(d) /\ d[l] = c[l]
  BY <1>1, TidyClear
<1>3. OfKind(d, kind) \subseteq OfKind(c, kind) \ {c[k].id}
  BY <1>2 DEF OfKind
<1>4. OfKind(c, kind) \ {c[k].id} \subseteq OfKind(d, kind)
  <2>1. SUFFICES ASSUME NEW l \in RecordKeys(c), c[l].kind = kind, c[l].id # c[k].id
                 PROVE  c[l].id \in OfKind(d, kind)
    BY DEF OfKind
  <2>2. l \in RecordKeys(d) /\ d[l] = c[l]
    BY <1>2, <2>1
  <2>3. QED
    BY <2>1, <2>2 DEF OfKind
<1>5. ASSUME c[k].id \in OfKind(c, kind) PROVE c[k].kind = kind
  <2>1. PICK l \in RecordKeys(c) : c[l].kind = kind /\ c[l].id = c[k].id
    BY <1>5 DEF OfKind
  <2>2. l = k
    BY <2>1, TidyOne
  <2>3. QED
    BY <2>1, <2>2
<1>6. c[k].kind = kind => c[k].id \in OfKind(c, kind)
  BY DEF OfKind
<1>7. QED
  BY <1>1, <1>3, <1>4, <1>5, <1>6

(* What an entry of kind k and this ID adds to those of a kind.            *)
Of(k, kind, id) == IF k = kind THEN {id} ELSE {}

LEMMA LostMore ==
  ASSUME NEW ls, NEW id, NEW k, NEW kind
  PROVE  LostOf(ls \cup {[id |-> id, kind |-> k]}, kind) =
           LostOf(ls, kind) \cup Of(k, kind, id)
<1>1. PICK l : l = [id |-> id, kind |-> k]
  OBVIOUS
<1>2. l.id = id /\ l.kind = k
  BY <1>1
<1>3. LostOf(ls \cup {l}, kind) = LostOf(ls, kind) \cup Of(k, kind, id)
  BY <1>2 DEF LostOf, Of
<1>4. QED
  BY <1>1, <1>3

(* No ID that has been given out is one to come.                           *)
LEMMA AllBelow ==
  ASSUME NEW c, NEW next \in Nat, NEW gone, Tidy(c, gone, next),
         NEW ls, gone = {l.id : l \in ls}, \A id \in gone : id \in Nat /\ id < next, NEW kind
  PROVE  next \notin AllOf(c, ls, kind)
<1>1. \A k \in RecordKeys(c) : c[k].id # next
  BY TidyIds
<1>2. \A l \in ls : l.id # next
  <2>1. SUFFICES ASSUME NEW l \in ls PROVE l.id # next
    OBVIOUS
  <2>2. l.id \in gone
    OBVIOUS
  <2>3. l.id \in Nat /\ l.id < next
    BY <2>2
  <2>4. QED
    BY <2>3
<1>3. QED
  BY <1>1, <1>2 DEF AllOf, OfKind, LostOf

-----------------------------------------------------------------------------
(* Creation.                                                               *)

LEMMA CreateExact ==
  ASSUME NEW c, NEW gone, NEW next \in Nat, Tidy(c, gone, next),
         NEW dr, ExactBut(c, dr, next, {}),
         NEW more, Tidy(c, more, next + 1),
         NEW k \in RecordKeys(c), NEW key, ~IsThread(key), key[1] = c[k].id,
         NEW rec, rec.id = next, rec.valence = 0, rec.folders = 0,
         NEW e, Placed(c, e, key, rec),
         NEW plus, plus.id = c[k].id, plus.kind = c[k].kind,
         c[k].valence \in Nat, plus.valence = c[k].valence + 1,
         NEW off, dr \subseteq off,
         <<"folders", c[k].id>> \notin off =>
           plus.folders = c[k].folders + IF rec.kind = "folder" THEN 1 ELSE 0,
         key \in DOMAIN c => {<<"valence", c[k].id>>, <<"folders", c[k].id>>} \subseteq off,
         NEW f, Redone(e, f, k, plus)
  PROVE  ExactBut(f, off, next + 1, {})
<1>1. /\ DOMAIN c \subseteq Keys /\ IsFiniteSet(DOMAIN c)
      /\ next + 1 \in Nat /\ next <= next + 1
  BY DEF Tidy, ExactBut
<1>2. ExactBut(c, off, next + 1, {})
  BY <1>1, ButMore
<1>3. PICK id, m, n : /\ id = c[k].id
                      /\ n = Cardinality(EntriesIn(c, id)) /\ m = Cardinality(FoldersIn(c, id))
  OBVIOUS
<1>4. /\ IsFiniteSet(EntriesIn(c, id)) /\ IsFiniteSet(FoldersIn(c, id))
      /\ n \in Nat /\ m \in Nat
  BY <1>1, <1>3, EntriesNumber
<1>5. Right(c[k], n, m, off)
  BY <1>2, <1>3 DEF ExactBut, RightIn
<1>6. k \in RecordKeys(e) /\ e[k] = c[k]
  BY RecordKeysOf DEF Placed
<1>7. CASE key \in DOMAIN c
  <2>1. /\ ExactBut(e, off, next + 1, {})
        /\ EntriesIn(e, id) = EntriesIn(c, id) /\ FoldersIn(e, id) = FoldersIn(c, id)
    BY <1>2, <1>7, TakenExact
  <2>2. Right(plus, n, m, off)
    BY <1>3, <1>4, <1>5, <1>7 DEF Right
  <2>3. Right(plus, Cardinality(EntriesIn(e, plus.id)), Cardinality(FoldersIn(e, plus.id)), off)
    BY <1>3, <2>1, <2>2
  <2>4. ExactBut(f, off, next + 1, {} \ {k})
    BY <1>6, <2>1, <2>3, RedoneExact
  <2>5. {} \ {k} = {}
    OBVIOUS
  <2>6. QED
    BY <2>4, <2>5
<1>8. CASE key \notin DOMAIN c
  <2>1. id \in Nat /\ id < next /\ key[1] < next + 1 /\ id # next
    BY <1>3, TidyIds
  <2>2. PICK T : T = {} \cup {k, key}
    OBVIOUS
  <2>3. /\ ExactBut(e, off, next + 1, T) /\ RecordKeys(e) = RecordKeys(c) \cup {key}
        /\ Gains(c, e, key, rec.kind)
    BY <1>2, <1>8, <2>1, <2>2, PlaceExact DEF Came
  <2>4. key \notin EntriesIn(c, id) /\ key \notin FoldersIn(c, id)
    BY <1>8 DEF EntriesIn, FoldersIn, RecordKeys
  <2>5. EntriesIn(e, id) = EntriesIn(c, id) \cup {key}
    BY <1>3, <2>3 DEF Gains
  <2>6. Cardinality(EntriesIn(e, id)) = n + 1
    BY <1>3, <1>4, <2>4, <2>5, CountMore
  <2>7. Cardinality(FoldersIn(e, id)) = m + IF rec.kind = "folder" THEN 1 ELSE 0
    <3>1. CASE rec.kind = "folder"
      <4>1. FoldersIn(e, id) = FoldersIn(c, id) \cup {key}
        BY <1>3, <2>3, <3>1 DEF Gains
      <4>2. Cardinality(FoldersIn(e, id)) = m + 1
        BY <1>3, <1>4, <2>4, <4>1, CountMore
      <4>3. QED
        BY <3>1, <4>2
    <3>2. CASE rec.kind # "folder"
      <4>1. FoldersIn(e, id) = FoldersIn(c, id) \cup
               IF id = key[1] /\ rec.kind = "folder" THEN {key} ELSE {}
        BY <2>3, Zenon DEF Gains
      <4>2. FoldersIn(e, id) = FoldersIn(c, id)
        BY <3>2, <4>1
      <4>3. QED
        BY <1>3, <1>4, <3>2, <4>2
    <3>3. QED
      BY <3>1, <3>2
  <2>8. PICK x \in {0, 1} : x = IF rec.kind = "folder" THEN 1 ELSE 0
    OBVIOUS
  <2>9. Right(plus, n + 1, m + x, off)
    BY <1>3, <1>4, <1>5, <2>8 DEF Right
  <2>10. Right(plus, Cardinality(EntriesIn(e, plus.id)), Cardinality(FoldersIn(e, plus.id)), off)
    BY <1>3, <2>6, <2>7, <2>8, <2>9
  <2>11. ExactBut(f, off, next + 1, T \ {k})
    BY <1>6, <2>3, <2>10, RedoneExact
  <2>12. RightIn(f, off, key)
    <3>1. f[key] = rec /\ key # k
      <4>1. key # k /\ key \in DOMAIN e
        BY <1>8, RecordKeysOf DEF Placed
      <4>2. e[key] = rec
        BY <1>8 DEF Placed
      <4>3. QED
        BY <4>1, <4>2 DEF Redone
    <3>2. EntriesIn(c, next) = {} /\ FoldersIn(c, next) = {}
      <4>1. ASSUME NEW l \in RecordKeys(c) PROVE l[1] # next
        <5>1. l \in Keys /\ l[1] < next
          BY <1>1, RecordKeysOf DEF ExactBut
        <5>2. l[1] \in Nat
          BY <5>1, KeyPair
        <5>3. QED
          BY <5>1, <5>2
      <4>2. QED
        BY <4>1 DEF EntriesIn, FoldersIn
    <3>3. EntriesIn(e, next) = {} /\ FoldersIn(e, next) = {}
      BY <1>3, <2>1, <2>3, <3>2 DEF Gains
    <3>4. Alike(e, f)
      BY <1>6, RedoneAlike
    <3>5. EntriesIn(f, next) = {} /\ FoldersIn(f, next) = {}
      BY <3>3, <3>4, AlikeEntries
    <3>6. Cardinality({}) = 0
      BY FS_EmptySet
    <3>7. Right(rec, 0, 0, off)
      BY DEF Right
    <3>8. QED
      BY <3>1, <3>5, <3>6, <3>7 DEF RightIn
  <2>13. ExactBut(f, off, next + 1, (T \ {k}) \ {key})
    BY <2>11, <2>12, ButLess
  <2>14. (T \ {k}) \ {key} = {}
    BY <2>2
  <2>15. QED
    BY <2>13, <2>14
<1>9. QED
  BY <1>7, <1>8

-----------------------------------------------------------------------------
(* What the operations write.                                              *)

Quiet(w)    == FineWrite(w) /\ w.do # "uncount"
AllQuiet(t) == Listed(t) /\ \A i \in 1 .. Len(t) : Quiet(t[i])

LEMMA QuietPut ==
  ASSUME NEW key, NEW rec, FineEntry(key, rec)
  PROVE  Quiet(Put(key, rec))
<1>1. Put(key, rec).do = "put" /\ Put(key, rec).key = key /\ Put(key, rec).rec = rec
  BY DEF Put
<1>2. QED
  BY <1>1 DEF Quiet, FineWrite

LEMMA QuietUpdate ==
  ASSUME NEW rec, FineRec(rec)
  PROVE  Quiet(Update(rec))
<1>1. Update(rec).do = "update" /\ Update(rec).rec = rec
  BY DEF Update
<1>2. QED
  BY <1>1 DEF Quiet, FineWrite

LEMMA QuietSave == Quiet(Save) /\ Save.do = "save"
<1>1. Save.do = "save"
  BY DEF Save
<1>2. QED
  BY <1>1 DEF Quiet, FineWrite

LEMMA QuietDrop ==
  ASSUME NEW key
  PROVE  Quiet(Drop(key))
<1>1. Drop(key).do = "drop"
  BY DEF Drop
<1>2. QED
  BY <1>1 DEF Quiet, FineWrite

LEMMA QuietOne ==
  ASSUME NEW v, Quiet(v)
  PROVE  AllQuiet(<<v>>)
<1>1. PICK t : t = <<v>> /\ Listed(t) /\ Len(t) = 1 /\ t[1] = v
  BY ListedOne
<1>2. \A i \in 1 .. 1 : i = 1
  OBVIOUS
<1>3. QED
  BY <1>1, <1>2 DEF AllQuiet

LEMMA QuietTwo ==
  ASSUME NEW v, Quiet(v), NEW w, Quiet(w)
  PROVE  AllQuiet(<<v, w>>)
<1>1. Listed(<<v, w>>) /\ Len(<<v, w>>) = 2 /\ <<v, w>>[1] = v /\ <<v, w>>[2] = w
  BY ListedTwo
<1>2. PICK t : t = <<v, w>> /\ Listed(t) /\ Len(t) = 2 /\ t[1] = v /\ t[2] = w
  BY <1>1
<1>3. \A i \in 1 .. 2 : i = 1 \/ i = 2
  OBVIOUS
<1>4. QED
  BY <1>2, <1>3 DEF AllQuiet

LEMMA QuietFour ==
  ASSUME NEW v, Quiet(v), NEW w, Quiet(w), NEW x, Quiet(x), NEW y, Quiet(y)
  PROVE  AllQuiet(<<v, w, x, y>>)
<1>1. /\ Listed(<<v, w, x, y>>) /\ Len(<<v, w, x, y>>) = 4
      /\ <<v, w, x, y>>[1] = v /\ <<v, w, x, y>>[2] = w
      /\ <<v, w, x, y>>[3] = x /\ <<v, w, x, y>>[4] = y
  BY ListedFour
<1>2. PICK t : t = <<v, w, x, y>>
  OBVIOUS
<1>3. Listed(t) /\ Len(t) = 4 /\ t[1] = v /\ t[2] = w /\ t[3] = x /\ t[4] = y
  BY <1>1, <1>2
<1>4. \A i \in 1 .. 4 : i = 1 \/ i = 2 \/ i = 3 \/ i = 4
  OBVIOUS
<1>5. QED
  BY <1>2, <1>3, <1>4 DEF AllQuiet

LEMMA QuietJoin ==
  ASSUME NEW t, AllQuiet(t), NEW u, AllQuiet(u)
  PROVE  AllQuiet(t \o u)
<1>1. PICK m \in Nat, n \in Nat : m = Len(t) /\ n = Len(u)
  BY ListedLen DEF AllQuiet
<1>2. PICK v : v = t \o u
  OBVIOUS
<1>3. Joined(t, u, v)
  BY <1>2, ListedJoined DEF AllQuiet
<1>4. /\ Listed(v) /\ Len(v) = m + n
      /\ \A i \in 1 .. m : v[i] = t[i] /\ Quiet(t[i])
      /\ \A i \in 1 .. n : v[m + i] = u[i] /\ Quiet(u[i])
  BY <1>1, <1>3 DEF Joined, AllQuiet
<1>5. ASSUME NEW i \in 1 .. m + n PROVE Quiet(v[i])
  <2>1. CASE i <= m
    BY <1>4, <2>1
  <2>2. CASE ~(i <= m)
    <3>1. i - m \in 1 .. n /\ m + (i - m) = i
      BY <2>2
    <3>2. QED
      BY <1>4, <3>1
  <2>3. QED
    BY <2>1, <2>2
<1>6. QED
  BY <1>2, <1>4, <1>5 DEF AllQuiet

LEMMA QuietNone == AllQuiet(<<>>)
<1>1. Listed(<<>>) /\ Len(<<>>) = 0
  BY ListedNone
<1>2. \A i \in 1 .. 0 : FALSE
  OBVIOUS
<1>3. QED
  BY <1>1, <1>2 DEF AllQuiet

LEMMA QuietMeans ==
  ASSUME NEW t, AllQuiet(t)
  PROVE  /\ FineTodo(t) /\ Owing(t) = {} /\ OneOwing(t) /\ \A kind : Owes(t, kind) = 0
         /\ \A j \in 1 .. Len(t) : t[j] = Save => Saves(t)
<1>1. FineTodo(t)
  BY DEF AllQuiet, Quiet, FineTodo
<1>2. \A i \in 1 .. Len(t) : t[i].do # "uncount"
  BY DEF AllQuiet, Quiet
<1>3. Owing(t) = {}
  BY <1>2 DEF Owing
<1>4. OneOwing(t) /\ \A kind : Owes(t, kind) = 0
  BY <1>3 DEF OneOwing, Owes
<1>5. ASSUME NEW j \in 1 .. Len(t), t[j] = Save PROVE Saves(t)
  <2>1. PICK l \in Nat : l = Len(t)
    BY ListedLen DEF AllQuiet
  <2>2. \A i \in j .. l : i \in 1 .. l
    BY <2>1
  <2>3. t[j].do = "save"
    BY <1>5, QuietSave
  <2>4. QED
    BY <1>2, <2>1, <2>2, <2>3 DEF Saves
<1>6. QED
  BY <1>1, <1>3, <1>4, <1>5

LEMMA NewFine ==
  ASSUME NEW kind \in {"file", "folder"}, NEW id \in FirstId .. MaxId
  PROVE  /\ FineRec(NewRecord(kind, id))
         /\ NewRecord(kind, id).valence = 0 /\ NewRecord(kind, id).folders = 0
<1>1. PICK i \in Infos : i = CHOOSE j \in Infos : TRUE
  BY BoundsAssumption
<1>2. 0 \in 0 .. MaxValence /\ 0 \in 0 .. CounterMod - 1 /\ id \in Nat
  BY BoundsAssumption DEF FirstId
<1>3. PICK q : q = [kind |-> "folder", id |-> kHFSRootFolderID, valence |-> 0,
                    folders |-> 0, info |-> i]
  OBVIOUS
<1>4. /\ q \in [kind : {"file", "folder"}, id : Nat, valence : 0 .. MaxValence,
                folders : 0 .. CounterMod - 1, info : Infos]
      /\ q.valence = 0 /\ q.folders = 0
  BY <1>2, <1>3 DEF kHFSRootFolderID
<1>5. RootRecord = q
  BY <1>1, <1>3 DEF RootRecord
<1>6. PICK r : r = [q EXCEPT !.kind = kind, !.id = id]
  OBVIOUS
<1>7. FineRec(r) /\ r.valence = 0 /\ r.folders = 0
  BY <1>2, <1>4, <1>6 DEF FineRec
<1>8. NewRecord(kind, id) = r
  BY <1>5, <1>6 DEF NewRecord
<1>9. QED
  BY <1>7, <1>8

LEMMA ThreadFine ==
  ASSUME NEW kind \in {"file", "folder"}, NEW key \in Keys, ~IsThread(key)
  PROVE  FineThread(Thread(kind, key))
<1>1. key[1] \in Nat /\ key[2] \in Names \cup {Volume}
  BY KeyPair DEF IsThread
<1>2. QED
  BY <1>1 DEF FineThread, Thread

LEMMA FineParts ==
  ASSUME NEW r, FineRec(r)
  PROVE  /\ r.kind \in {"file", "folder"} /\ r.id \in Nat /\ r.valence \in 0 .. MaxValence
         /\ r.folders \in 0 .. CounterMod - 1 /\ r.info \in Infos
         /\ r.id \in {kHFSRootFolderID} \cup (FirstId .. MaxId)
  BY DEF FineRec

LEMMA FineValence ==
  ASSUME NEW r, FineRec(r), NEW v \in 0 .. MaxValence, NEW s, s = [r EXCEPT !.valence = v]
  PROVE  /\ FineRec(s) /\ s.valence = v /\ s.folders = r.folders
         /\ s.id = r.id /\ s.kind = r.kind
  BY DEF FineRec

LEMMA FineFolders ==
  ASSUME NEW r, FineRec(r), NEW v \in 0 .. CounterMod - 1, NEW s, s = [r EXCEPT !.folders = v]
  PROVE  /\ FineRec(s) /\ s.folders = v /\ s.valence = r.valence
         /\ s.id = r.id /\ s.kind = r.kind
  BY DEF FineRec

LEMMA PlusIs ==
  ASSUME NEW r, FineRec(r), r.valence < MaxValence, NEW kind,
         NEW p, p = Plus(r, kind)
  PROVE  /\ FineRec(p) /\ p.id = r.id /\ p.kind = r.kind
         /\ p.valence = r.valence + 1
         /\ p.folders = IF kind = "folder" THEN Up(r.folders) ELSE r.folders
<1>1. /\ r.valence \in 0 .. MaxValence /\ r.folders \in 0 .. CounterMod - 1
      /\ MaxValence \in Nat /\ CounterMod \in Nat /\ MaxValence < CounterMod
  BY FineParts, BoundsAssumption
<1>2. PICK v \in 0 .. MaxValence : v = r.valence + 1 /\ Up(r.valence) = v
  <2>1. r.valence \in Nat /\ r.valence + 1 < CounterMod /\ r.valence + 1 \in 0 .. MaxValence
    BY <1>1
  <2>2. QED
    BY <2>1, UpIs
<1>3. PICK s : s = [r EXCEPT !.valence = v]
  OBVIOUS
<1>4. /\ FineRec(s) /\ s.valence = v /\ s.folders = r.folders
      /\ s.id = r.id /\ s.kind = r.kind
  BY <1>3, FineValence
<1>5. PICK w \in 0 .. CounterMod - 1 : w = IF kind = "folder" THEN Up(r.folders) ELSE r.folders
  <2>1. r.folders \in Nat
    BY <1>1
  <2>2. Up(r.folders) \in 0 .. CounterMod - 1
    BY <2>1, UpDownIn
  <2>3. QED
    BY <1>1, <2>2
<1>6. PICK q : q = [s EXCEPT !.folders = w]
  OBVIOUS
<1>7. FineRec(q) /\ q.folders = w /\ q.valence = s.valence /\ q.id = s.id /\ q.kind = s.kind
  BY <1>4, <1>6, FineFolders
<1>8. p = q
  BY <1>2, <1>3, <1>5, <1>6 DEF Plus, FineRec
<1>9. QED
  BY <1>2, <1>4, <1>5, <1>7, <1>8

LEMMA MinusIs ==
  ASSUME NEW r, FineRec(r), r.valence # 0, NEW kind,
         NEW p, p = Minus(r, kind)
  PROVE  /\ FineRec(p) /\ p.id = r.id /\ p.kind = r.kind
         /\ p.valence = r.valence - 1
         /\ p.folders = IF kind = "folder" THEN Down(r.folders) ELSE r.folders
<1>1. /\ r.valence \in 0 .. MaxValence /\ r.folders \in 0 .. CounterMod - 1
      /\ MaxValence \in Nat /\ CounterMod \in Nat /\ MaxValence < CounterMod
  BY FineParts, BoundsAssumption
<1>2. PICK v \in 0 .. MaxValence : v = r.valence - 1 /\ Down(r.valence) = v
  <2>1. r.valence \in 1 .. CounterMod - 1 /\ r.valence - 1 \in 0 .. MaxValence
    BY <1>1
  <2>2. QED
    BY <2>1, DownIs
<1>3. PICK s : s = [r EXCEPT !.valence = v]
  OBVIOUS
<1>4. /\ FineRec(s) /\ s.valence = v /\ s.folders = r.folders
      /\ s.id = r.id /\ s.kind = r.kind
  BY <1>3, FineValence
<1>5. PICK w \in 0 .. CounterMod - 1 : w = IF kind = "folder" THEN Down(r.folders) ELSE r.folders
  <2>1. r.folders \in Nat
    BY <1>1
  <2>2. Down(r.folders) \in 0 .. CounterMod - 1
    BY <2>1, UpDownIn
  <2>3. QED
    BY <1>1, <2>2
<1>6. PICK q : q = [s EXCEPT !.folders = w]
  OBVIOUS
<1>7. FineRec(q) /\ q.folders = w /\ q.valence = s.valence /\ q.id = s.id /\ q.kind = s.kind
  BY <1>4, <1>6, FineFolders
<1>8. p = q
  BY <1>2, <1>3, <1>5, <1>6 DEF Minus, FineRec
<1>9. QED
  BY <1>2, <1>4, <1>5, <1>7, <1>8

-----------------------------------------------------------------------------
(* Between two operations.                                                 *)

LEMMA RestingCounts ==
  ASSUME CountInv, todo = <<>>
  PROVE  /\ Ahead = State(cat, attrs) /\ Tidy(cat, LostIds, hdr.next)
         /\ ExactBut(cat, drift, hdr.next, {}) /\ disk = hdr /\ todo = <<>>
         /\ hdr.files = Cardinality(AllOf(cat, lost, "file"))
         /\ hdr.folders + 1 = Cardinality(AllOf(cat, lost, "folder"))
         /\ hdr.files \in Nat /\ hdr.folders \in Nat
<1>1. todo = <<>>
  OBVIOUS
<1>2. Ahead = State(cat, attrs)
  BY <1>1, AheadIs, AfterNone
<1>3. Ahead.cat = cat
  BY <1>2, StateParts
<1>4. AllQuiet(todo) /\ Listed(todo) /\ Len(todo) = 0
  BY <1>1, QuietNone, ListedNone
<1>5. Owing(todo) = {} /\ Owes(todo, "file") = 0 /\ Owes(todo, "folder") = 0
  BY <1>4, QuietMeans
<1>6. ~Saves(todo)
  <2>1. \A j \in 1 .. 0 : FALSE
    OBVIOUS
  <2>2. QED
    BY <1>4, <2>1 DEF Saves
<1>7. disk = hdr
  BY <1>6 DEF CountInv, Stored
<1>8. hdr.files \in Nat /\ hdr.folders \in Nat
  BY DEF CountInv, Fine, FineHead
<1>9. PICK a \in Nat, b \in Nat : /\ a = Cardinality(AllOf(cat, lost, "file"))
                              /\ b = Cardinality(AllOf(cat, lost, "folder"))
  BY <1>3, AllFinite DEF CountInv, ExactBut, Fine
<1>10. hdr.files = a + 0 /\ hdr.folders + 1 = b + 0
  BY <1>3, <1>5, <1>9 DEF CountInv, Tallied
<1>11. QED
  BY <1>1, <1>2, <1>3, <1>7, <1>8, <1>9, <1>10 DEF CountInv

LEMMA IdleCounts ==
  ASSUME IInv, CountInv, Idle
  PROVE  /\ Ahead = State(cat, attrs) /\ Tidy(cat, LostIds, hdr.next)
         /\ ExactBut(cat, drift, hdr.next, {}) /\ disk = hdr /\ todo = <<>>
         /\ hdr.files = Cardinality(AllOf(cat, lost, "file"))
         /\ hdr.folders + 1 = Cardinality(AllOf(cat, lost, "folder"))
         /\ hdr.files \in Nat /\ hdr.folders \in Nat
  BY RestingCounts DEF Idle

(* What an operation begins with, and what it will come to.                *)
LEMMA OperationCounts ==
  ASSUME IInv, CountInv, cat' = cat, attrs' = attrs, disk' = disk, status' = status,
         IsFiniteSet(lost'), \A l \in lost' : l.kind \in {"file", "folder"},
         NEW f, NEW ats, After(State(cat, attrs), todo') = State(f, ats),
         FineTodo(todo'), FineHead(hdr'), Stored',
         Tidy(f, LostIds', hdr'.next), ExactBut(f, drift', hdr'.next, {}),
         OneOwing(todo'),
         hdr'.files = Cardinality(AllOf(f, lost', "file")) + Owes(todo', "file"),
         hdr'.folders + 1 = Cardinality(AllOf(f, lost', "folder")) + Owes(todo', "folder")
  PROVE  CountInv'
<1>1. Ahead' = State(f, ats)
  BY AheadNext
<1>2. Ahead'.cat = f
  BY <1>1, StateParts
<1>3. Fine'
  BY DEF CountInv, Fine
<1>4. Tallied(Ahead.cat, todo)'
  BY <1>2 DEF Tallied
<1>5. QED
  BY <1>2, <1>3, <1>4 DEF CountInv

(* A folder's folderCount is no more than its valence, unless it is off.   *)
LEMMA FoldersFew ==
  ASSUME NEW c, NEW dr, NEW next, ExactBut(c, dr, next, {}), NEW k \in RecordKeys(c),
         FineRec(c[k]), <<"folders", c[k].id>> \notin dr
  PROVE  c[k].folders <= c[k].valence
<1>1. RightIn(c, dr, k) /\ IsFiniteSet(DOMAIN c)
  BY DEF ExactBut
<1>2. PICK n \in Nat, m \in Nat : /\ n = Cardinality(EntriesIn(c, c[k].id))
                              /\ m = Cardinality(FoldersIn(c, c[k].id)) /\ m <= n
  BY <1>1, EntriesNumber
<1>3. Right(c[k], n, m, dr)
  BY <1>1, <1>2 DEF RightIn
<1>4. c[k].folders = m /\ n <= c[k].valence /\ c[k].valence \in Nat
  BY <1>3, FineParts DEF Right
<1>5. QED
  BY <1>2, <1>4

(* A header that counts one more of a kind.                                *)
CountsOne(h, n, A, B, kind, id) ==
  /\ FineHead(h) /\ h.next = n + 1
  /\ h.files = Cardinality(A \cup Of(kind, "file", id))
  /\ h.folders + 1 = Cardinality(B \cup Of(kind, "folder", id))

(* One more of a kind.                                                     *)
LEMMA CountedTallies ==
  ASSUME NEW id, NEW A, IsFiniteSet(A), NEW B, IsFiniteSet(B), id \notin A, id \notin B,
         NEW kind \in {"file", "folder"}, FineHead(hdr),
         NEW n \in FirstId .. MaxId, n = hdr.next,
         NEW x \in Nat, x = hdr.files, Cardinality(A) = x,
         NEW y \in Nat, y = hdr.folders, Cardinality(B) = y + 1,
         NEW h, h = Counted(kind)
  PROVE  CountsOne(h, n, A, B, kind, id)
<1>1. h = Counted(kind) /\ n = hdr.next /\ x = hdr.files /\ y = hdr.folders
  OBVIOUS
<1>2. /\ n \in FirstId .. MaxId /\ x \in Nat /\ y \in Nat
      /\ x <= n - FirstId /\ y <= n - FirstId
  BY <1>1 DEF FineHead
<1>3. x + 1 < CounterMod /\ y + 1 < CounterMod /\ MaxId \in Nat
  BY <1>2, BoundsAssumption DEF FirstId
<1>4. Up(x) = x + 1 /\ Up(y) = y + 1
  BY <1>2, <1>3, UpIs
<1>5. CASE kind = "file"
  <2>1. h = [next |-> n + 1, files |-> x + 1, folders |-> y]
    BY <1>1, <1>4, <1>5 DEF Counted
  <2>2. h.next = n + 1 /\ h.files = x + 1 /\ h.folders = y
    BY <2>1
  <2>3. FineHead(h)
    BY <1>2, <1>3, <2>1 DEF FineHead, FirstId
  <2>4. Cardinality(A \cup {id}) = x + 1
    BY <1>1, CountMore
  <2>5. Of(kind, "file", id) = {id} /\ B \cup Of(kind, "folder", id) = B
    BY <1>5 DEF Of
  <2>6. QED
    BY <1>1, <2>2, <2>3, <2>4, <2>5 DEF CountsOne
<1>6. CASE kind = "folder"
  <2>1. h = [next |-> n + 1, files |-> x, folders |-> y + 1]
    BY <1>1, <1>4, <1>6 DEF Counted
  <2>2. h.next = n + 1 /\ h.files = x /\ h.folders = y + 1
    BY <2>1
  <2>3. FineHead(h)
    BY <1>2, <1>3, <2>1 DEF FineHead, FirstId
  <2>4. Cardinality(B \cup {id}) = (y + 1) + 1
    BY <1>1, <1>2, CountMore
  <2>5. Of(kind, "folder", id) = {id} /\ A \cup Of(kind, "file", id) = A
    BY <1>6 DEF Of
  <2>6. QED
    BY <1>1, <2>2, <2>3, <2>4, <2>5 DEF CountsOne
<1>7. QED
  BY <1>5, <1>6

Writes(t, key, rec, plus) ==
  t = <<Put(key, rec), Put(ThreadKey(rec.id), Thread(rec.kind, key)), Update(plus), Save>>

TakenBy(c, key, id, gone) == key \in DOMAIN c <=> id \in gone

CreatedBy(c, ats, t, e, f, key, rec, k, plus, gone, next) ==
  /\ After(State(c, ats), t) = State(f, ats)
  /\ Placed(c, e, key, rec) /\ Redone(e, f, k, plus)
  /\ Tidy(e, gone, next) /\ Tidy(f, gone, next)

(* What the four writes of a creation come to.                             *)
LEMMA CreationDone ==
  ASSUME NEW c, NEW gone, NEW next \in Nat, Tidy(c, gone, next),
         NEW key \in Keys, ~IsThread(key),
         NEW rec \in RecTypes, rec.id # NoFolder, rec.id < next,
         ThreadKey(rec.id) \notin DOMAIN c,
         TakenBy(c, key, rec.id, gone),
         NEW k \in RecordKeys(c), NEW plus \in RecTypes,
         plus.id = c[k].id, plus.kind = c[k].kind, NEW ats,
         NEW t, Writes(t, key, rec, plus)
  PROVE  \E e, f : CreatedBy(c, ats, t, e, f, key, rec, k, plus, gone, next)
<1>1. PICK v, w, x, y, s : /\ v = Put(key, rec)
                           /\ w = Put(ThreadKey(rec.id), Thread(rec.kind, key))
                           /\ x = Update(plus) /\ y = Save /\ s = State(c, ats)
  OBVIOUS
<1>2. After(s, <<v, w, x, y>>) = Done(Done(Done(Done(s, v), w), x), y)
  BY AfterFour
<1>3. PICK e : /\ Done(Done(s, v), w) = State(e, ats)
               /\ Tidy(e, gone, next) /\ Placed(c, e, key, rec)
  BY <1>1, PlaceDone DEF TakenBy
<1>4. k \in RecordKeys(e) /\ e[k] = c[k]
  BY <1>3, RecordKeysOf DEF Placed
<1>5. PICK f : /\ Done(State(e, ats), x) = State(f, ats)
               /\ Tidy(f, gone, next) /\ Redone(e, f, k, plus)
  BY <1>1, <1>3, <1>4, UpdateDone
<1>6. Done(State(f, ats), y) = State(f, ats)
  BY <1>1, SaveDone
<1>7. After(s, t) = State(f, ats)
  BY <1>1, <1>2, <1>3, <1>5, <1>6 DEF Writes
<1>8. QED
  BY <1>1, <1>3, <1>5, <1>7 DEF CreatedBy

(* The record of the new file is written once more, as it is.              *)
LEMMA ContentAgain ==
  ASSUME NEW c, NEW gone, NEW next, Tidy(c, gone, next),
         NEW dr, ExactBut(c, dr, next, {}),
         NEW key \in RecordKeys(c), NEW rec \in RecTypes, rec = c[key], NEW ats
  PROVE  \E g : /\ After(State(c, ats), Content(rec)) = State(g, ats)
                /\ Tidy(g, gone, next) /\ ExactBut(g, dr, next, {})
                /\ Redone(c, g, key, rec) /\ Alike(c, g)
<1>1. PICK g : /\ After(State(c, ats), Content(rec)) = State(g, ats)
               /\ Tidy(g, gone, next) /\ Redone(c, g, key, rec)
  BY ContentDone
<1>2. Alike(c, g)
  BY <1>1, RedoneAlike
<1>3. Right(rec, Cardinality(EntriesIn(c, rec.id)), Cardinality(FoldersIn(c, rec.id)), dr)
  BY DEF ExactBut, RightIn
<1>4. ExactBut(g, dr, next, {} \ {key})
  BY <1>1, <1>3, RedoneExact
<1>5. {} \ {key} = {}
  OBVIOUS
<1>6. QED
  BY <1>1, <1>2, <1>4, <1>5

LEMMA CreatingCounts ==
  ASSUME IInv, CountInv, Idle, NEW path \in Paths, CanCreate(path),
         NEW kind \in {"file", "folder"}, NEW more,
         more = <<>> \/ (more = Content(NewRecord(kind, hdr.next)) /\ ~Found(cat, path)),
         cat' = cat, attrs' = attrs, status' = status, disk' = disk, hdr' = Counted(kind),
         todo' = Creation(kind, path) \o more,
         NEW new, new = [id |-> hdr.next, kind |-> kind],
         lost' = IF Found(cat, path) THEN lost \cup {new} ELSE lost,
         drift \subseteq drift',
         Found(cat, path) =>
           {"valence", "folders"} \X {FolderAt(cat, Front(path))} \subseteq drift'
  PROVE  CountInv'
<1>1. /\ Tidy(cat, LostIds, hdr.next) /\ hdr.next \in Nat
      /\ \A id \in LostIds : id \in Nat /\ id < hdr.next
  BY IdleTidy
<1>2. /\ ExactBut(cat, drift, hdr.next, {}) /\ disk = hdr /\ todo = <<>>
      /\ hdr.files = Cardinality(AllOf(cat, lost, "file"))
      /\ hdr.folders + 1 = Cardinality(AllOf(cat, lost, "folder"))
  BY IdleCounts
<1>3. FineCat(cat) /\ FineHead(hdr) /\ IsFiniteSet(lost)
      /\ (\A l \in lost : l.kind \in {"file", "folder"})
  BY DEF CountInv, Fine
<1>4. PICK next \in FirstId .. MaxId : next = hdr.next
  BY <1>3 DEF CanCreate, FineHead
<1>5. next \in Nat /\ next # NoFolder /\ next + 1 \in Nat /\ next < next + 1
  BY BoundsAssumption DEF FirstId, NoFolder
<1>6. PICK key : key = KeyAt(cat, path)
  OBVIOUS
<1>7. FolderAt(cat, Front(path)) # NoFolder
  BY DEF CanCreate
<1>8. /\ path \in Seq(Names) /\ path # <<>> /\ Front(path) \in Seq(Names)
      /\ key[1] = FolderAt(cat, Front(path))
  BY <1>6, PathSeq, FrontParts, KeyAtParts
<1>9. key \in Keys /\ ~IsThread(key)
  BY <1>1, <1>6, <1>7, KeyAtKey
<1>10. PICK rec : rec = NewRecord(kind, next)
  OBVIOUS
<1>11. /\ rec \in RecTypes /\ rec.id = next /\ rec.kind = kind
       /\ FineRec(rec) /\ rec.valence = 0 /\ rec.folders = 0
  BY <1>5, <1>10, NewTyped, NewFine
<1>12. PICK k \in RecordKeys(cat) :
         /\ RecordById(cat, key[1]) = cat[k] /\ cat[k] \in RecTypes /\ cat[k].id = key[1]
  BY <1>1, <1>7, <1>8, FolderRecord
<1>13. FineRec(cat[k]) /\ cat[k].valence < MaxValence
  <2>1. FineRec(cat[k])
    BY <1>3, RecordKeysOf DEF FineCat, FineEntry
  <2>2. QED
    BY <1>8, <1>12, <2>1 DEF CanCreate
<1>14. PICK plus : plus = Plus(cat[k], kind)
  OBVIOUS
<1>15. /\ plus \in RecTypes /\ plus.id = cat[k].id /\ plus.kind = cat[k].kind
       /\ FineRec(plus) /\ plus.valence = cat[k].valence + 1
       /\ plus.folders = IF kind = "folder" THEN Up(cat[k].folders) ELSE cat[k].folders
  BY <1>12, <1>13, <1>14, PlusTyped, PlusIs
<1>16. PICK tk, th : tk = ThreadKey(next) /\ th = Thread(kind, key)
  OBVIOUS
<1>17. PICK t : t = <<Put(key, rec), Put(tk, th), Update(plus), Save>>
  OBVIOUS
<1>18. Creation(kind, path) = t
  BY <1>4, <1>6, <1>10, <1>12, <1>14, <1>16, <1>17 DEF Creation
<1>19. tk \notin DOMAIN cat
  <2>1. IsThread(tk) /\ tk[1] = next
    BY <1>16, ThreadKeyParts
  <2>2. tk \in DOMAIN cat => next < next
    BY <1>1, <1>4, <2>1, TidyThread
  <2>3. QED
    BY <2>2
<1>20. PICK gone : gone = IF Found(cat, path) THEN LostIds \cup {next} ELSE LostIds
  OBVIOUS
<1>21. LostIds' = gone
  <2>1. CASE Found(cat, path)
    BY <1>4, <1>20, <2>1, LostOne
  <2>2. CASE ~Found(cat, path)
    BY <1>20, <2>2, LostNone
  <2>3. QED
    BY <2>1, <2>2
<1>22. Tidy(cat, gone, next + 1)
  <2>1. \A j \in RecordKeys(cat) : cat[j].id \in Nat \ {NoFolder} /\ cat[j].id < next
    BY <1>1, <1>4, TidyIds
  <2>2. \A j \in RecordKeys(cat) : cat[j].id \notin gone
    BY <1>1, <1>20, <2>1, TidyNamed
  <2>3. LostIds \subseteq gone /\ next <= next + 1
    BY <1>20
  <2>4. QED
    BY <1>1, <1>4, <1>5, <2>2, <2>3, TidyWiden
<1>23. key \in DOMAIN cat <=> next \in gone
  <2>1. next \notin LostIds
    BY <1>1, <1>4
  <2>2. QED
    BY <1>6, <1>20, <2>1 DEF Found
<1>24. PICK e, f : /\ After(State(cat, attrs), t) = State(f, attrs)
                   /\ Placed(cat, e, key, rec) /\ Redone(e, f, k, plus)
                   /\ Tidy(e, gone, next + 1) /\ Tidy(f, gone, next + 1)
  <2>1. t = <<Put(key, rec), Put(ThreadKey(rec.id), Thread(rec.kind, key)), Update(plus), Save>>
    BY <1>11, <1>16, <1>17
  <2>2. rec.id # NoFolder /\ rec.id < next + 1 /\ ThreadKey(rec.id) \notin DOMAIN cat
        /\ (key \in DOMAIN cat <=> rec.id \in gone)
    BY <1>5, <1>11, <1>16, <1>19, <1>23
  <2>3. QED
    <3>1. PICK after \in Nat : after = next + 1
      BY <1>5
    <3>2. Tidy(cat, gone, after) /\ rec.id < after
      BY <1>22, <2>2, <3>1
    <3>3. Writes(t, key, rec, plus) /\ TakenBy(cat, key, rec.id, gone)
      BY <2>1, <2>2 DEF Writes, TakenBy
    <3>4. \E e, f : CreatedBy(cat, attrs, t, e, f, key, rec, k, plus, gone, after)
      BY <1>9, <1>11, <1>12, <1>15, <2>2, <3>1, <3>2, <3>3, CreationDone
    <3>5. QED
      BY <3>1, <3>4 DEF CreatedBy
<1>25. k \in RecordKeys(e) /\ e[k] = cat[k] /\ Alike(e, f) /\ RecordKeys(f) = RecordKeys(e)
  <2>1. k \in RecordKeys(e) /\ e[k] = cat[k]
    BY <1>24, RecordKeysOf DEF Placed
  <2>2. QED
    BY <1>15, <1>24, <2>1, RedoneAlike
<1>26. ExactBut(f, drift', next + 1, {})
  <2>1. <<"folders", cat[k].id>> \notin drift' =>
           plus.folders = cat[k].folders + IF rec.kind = "folder" THEN 1 ELSE 0
    <3>1. SUFFICES ASSUME <<"folders", cat[k].id>> \notin drift'
                   PROVE  plus.folders = cat[k].folders + IF kind = "folder" THEN 1 ELSE 0
      BY <1>11
    <3>2. cat[k].folders <= cat[k].valence
      BY <1>2, <1>13, <3>1, FoldersFew
    <3>3. cat[k].folders \in Nat /\ cat[k].valence \in 0 .. MaxValence
      BY <1>13, FineParts
    <3>4. cat[k].folders + 1 < CounterMod
      BY <1>13, <3>2, <3>3, BoundsAssumption
    <3>5. Up(cat[k].folders) = cat[k].folders + 1
      BY <3>3, <3>4, UpIs
    <3>6. cat[k].folders + 0 = cat[k].folders
      BY <3>3
    <3>7. QED
      BY <1>15, <3>5, <3>6
  <2>2. key \in DOMAIN cat => {<<"valence", cat[k].id>>, <<"folders", cat[k].id>>} \subseteq drift'
    BY <1>6, <1>8, <1>12 DEF Found
  <2>3. cat[k].valence \in Nat
    BY <1>13, FineParts
  <2>4. key[1] = cat[k].id
    BY <1>12
  <2>5. ExactBut(cat, drift, next, {}) /\ Tidy(cat, LostIds, next)
    BY <1>1, <1>2, <1>4
  <2>6. PICK off : off = drift'
    OBVIOUS
  <2>7. ExactBut(f, off, next + 1, {})
    BY <1>5, <1>9, <1>11, <1>15, <1>22, <1>24, <2>1, <2>2, <2>3, <2>4, <2>5, <2>6, CreateExact
  <2>8. QED
    BY <2>6, <2>7
<1>27. PICK g : /\ After(State(f, attrs), more) = State(g, attrs)
                /\ Tidy(g, gone, next + 1) /\ ExactBut(g, drift', next + 1, {}) /\ Alike(f, g)
  <2>1. CASE more = <<>>
    <3>1. After(State(f, attrs), more) = State(f, attrs)
      BY <2>1, AfterNone
    <3>2. Alike(f, f)
      BY DEF Alike
    <3>3. QED
      BY <1>24, <1>26, <3>1, <3>2
  <2>2. CASE more = Content(rec) /\ ~Found(cat, path)
    <3>1. key \in RecordKeys(f) /\ f[key] = rec
      <4>1. key \notin DOMAIN cat /\ key # k
        BY <1>6, <2>2, RecordKeysOf DEF Found
      <4>2. key \in DOMAIN e /\ e[key] = rec
        BY <1>24, <4>1 DEF Placed
      <4>3. key \in RecordKeys(e)
        BY <1>9, <4>2, RecordKeysOf
      <4>4. QED
        BY <1>24, <1>25, <4>1, <4>2, <4>3 DEF Redone
    <3>2. QED
      BY <1>11, <1>24, <1>26, <2>2, <3>1, ContentAgain
  <2>3. QED
    BY <1>4, <1>10, <2>1, <2>2
<1>28. AllQuiet(t) /\ t[4] = Save /\ Len(t) = 4
  <2>1. Quiet(Put(key, rec))
    BY <1>9, <1>11, QuietPut DEF FineEntry
  <2>2. Quiet(Put(tk, th))
    <3>1. IsThread(tk) /\ FineThread(th)
      BY <1>9, <1>16, ThreadKeyParts, ThreadFine
    <3>2. QED
      BY <3>1, QuietPut DEF FineEntry
  <2>3. Quiet(Update(plus)) /\ Quiet(Save)
    BY <1>15, QuietUpdate, QuietSave
  <2>4. QED
    BY <1>17, <2>1, <2>2, <2>3, QuietFour, ListedFour
<1>29. AllQuiet(more)
  <2>1. CASE more = <<>>
    BY <2>1, QuietNone
  <2>2. CASE more = Content(rec)
    <3>1. Quiet(Update(rec)) /\ Quiet(Save)
      BY <1>11, QuietUpdate, QuietSave
    <3>2. QED
      BY <2>2, <3>1, QuietTwo DEF Content
  <2>3. QED
    BY <1>4, <1>10, <2>1, <2>2
<1>30. PICK u : u = todo' /\ u = t \o more
  BY <1>18
<1>31. AllQuiet(u) /\ 4 \in 1 .. Len(u) /\ u[4] = Save
  <2>1. Joined(t, more, u) /\ AllQuiet(u)
    BY <1>28, <1>29, <1>30, ListedJoined, QuietJoin DEF AllQuiet
  <2>2. PICK n \in Nat : n = Len(more)
    BY <1>29, ListedLen DEF AllQuiet
  <2>3. Len(u) = 4 + n /\ \A i \in 1 .. 4 : u[i] = t[i]
    BY <1>28, <2>1, <2>2 DEF Joined
  <2>4. QED
    BY <1>28, <2>1, <2>3
<1>32. /\ FineTodo(u) /\ Owing(u) = {} /\ OneOwing(u) /\ Saves(u)
       /\ Owes(u, "file") = 0 /\ Owes(u, "folder") = 0
  BY <1>31, QuietMeans
<1>33. After(State(cat, attrs), u) = State(g, attrs)
  <2>1. After(State(cat, attrs), u) = After(After(State(cat, attrs), t), more)
    BY <1>28, <1>29, <1>30, AfterJoin DEF AllQuiet
  <2>2. QED
    BY <1>24, <1>27, <2>1
<1>34. ASSUME NEW q \in {"file", "folder"}
       PROVE  AllOf(g, lost', q) = AllOf(cat, lost, q) \cup Of(kind, q, next)
  <2>1. OfKind(g, q) = OfKind(e, q)
    BY <1>25, <1>27, AlikeEntries
  <2>2. OfKind(e, q) =
          OfKind(cat, q) \cup IF key \notin DOMAIN cat /\ kind = q THEN {next} ELSE {}
    <3>1. OfKind(e, q) = OfKind(cat, q) \cup
                           IF key \notin DOMAIN cat /\ rec.kind = q THEN {rec.id} ELSE {}
      BY <1>9, <1>24, PlaceKinds
    <3>2. QED
      BY <1>11, <3>1
  <2>3. CASE Found(cat, path)
    <3>1. key \in DOMAIN cat
      BY <1>6, <2>3 DEF Found
    <3>2. lost' = lost \cup {[id |-> next, kind |-> kind]}
      BY <1>4, <2>3
    <3>3. LostOf(lost', q) = LostOf(lost, q) \cup Of(kind, q, next)
      <4>1. LostOf(lost \cup {[id |-> next, kind |-> kind]}, q) =
              LostOf(lost, q) \cup Of(kind, q, next)
        BY LostMore
      <4>2. QED
        BY <3>2, <4>1
    <3>4. QED
      BY <2>1, <2>2, <3>1, <3>3 DEF AllOf
  <2>4. CASE ~Found(cat, path)
    <3>1. key \notin DOMAIN cat
      BY <1>6, <2>4 DEF Found
    <3>2. lost' = lost
      BY <2>4
    <3>3. QED
      BY <2>1, <2>2, <3>1, <3>2 DEF AllOf, Of
  <2>5. QED
    BY <2>3, <2>4
<1>35. /\ FineHead(hdr') /\ hdr'.next = next + 1
       /\ hdr'.files = Cardinality(AllOf(g, lost', "file"))
       /\ hdr'.folders + 1 = Cardinality(AllOf(g, lost', "folder"))
  <2>1. PICK A, B : A = AllOf(cat, lost, "file") /\ B = AllOf(cat, lost, "folder")
    OBVIOUS
  <2>2. IsFiniteSet(A) /\ IsFiniteSet(B)
    BY <1>2, <1>3, <2>1, AllFinite DEF ExactBut
  <2>3. next \notin A /\ next \notin B
    <3>1. LostIds = {l.id : l \in lost}
      BY DEF LostIds
    <3>2. QED
      BY <1>1, <1>4, <1>5, <2>1, <3>1, AllBelow
  <2>4. hdr.files = Cardinality(A) /\ hdr.folders + 1 = Cardinality(B)
    BY <1>2, <2>1
  <2>5. /\ FineHead(hdr') /\ hdr'.next = hdr.next + 1
        /\ hdr'.files = Cardinality(A \cup Of(kind, "file", next))
        /\ hdr'.folders + 1 = Cardinality(B \cup Of(kind, "folder", next))
    <3>1. FineHead(hdr)
      BY <1>3
    <3>2. PICK x \in Nat, y \in Nat : x = hdr.files /\ y = hdr.folders
      BY <3>1 DEF FineHead
    <3>3. Cardinality(A) = x /\ Cardinality(B) = y + 1
      BY <2>4, <3>2
    <3>4. PICK h : h = Counted(kind)
      OBVIOUS
    <3>5. CountsOne(h, next, A, B, kind, next)
      BY <1>4, <2>2, <2>3, <3>1, <3>2, <3>3, <3>4, CountedTallies
    <3>6. QED
      BY <1>4, <3>4, <3>5 DEF CountsOne
  <2>6. /\ AllOf(g, lost', "file") = A \cup Of(kind, "file", next)
        /\ AllOf(g, lost', "folder") = B \cup Of(kind, "folder", next)
    BY <1>34, <2>1
  <2>7. QED
    BY <1>4, <2>5, <2>6
<1>36. IsFiniteSet(lost') /\ \A l \in lost' : l.kind \in {"file", "folder"}
  <2>1. new.kind \in {"file", "folder"}
    OBVIOUS
  <2>2. IsFiniteSet(lost \cup {new})
    BY <1>3, FS_AddElement
  <2>3. QED
    BY <1>3, <2>1, <2>2
<1>37. Stored'
  BY <1>30, <1>32 DEF Stored
<1>38. /\ After(State(cat, attrs), todo') = State(g, attrs)
       /\ FineTodo(todo') /\ OneOwing(todo')
       /\ Tidy(g, LostIds', hdr'.next) /\ ExactBut(g, drift', hdr'.next, {})
  BY <1>21, <1>27, <1>30, <1>32, <1>33, <1>35
<1>39. /\ hdr'.files = Cardinality(AllOf(g, lost', "file")) + Owes(todo', "file")
       /\ hdr'.folders + 1 = Cardinality(AllOf(g, lost', "folder")) + Owes(todo', "folder")
  <2>1. PICK a \in Nat, b \in Nat : hdr'.files = a /\ hdr'.folders = b
    BY <1>35 DEF FineHead
  <2>2. QED
    BY <1>30, <1>32, <1>35, <2>1
<1>40. QED
  BY <1>35, <1>36, <1>37, <1>38, <1>39, OperationCounts

LEMMA CountsNewFolder ==
  ASSUME IInv, CountInv, NEW path \in Paths, NewFolder(path)
  PROVE  CountInv'
<1>1. /\ Idle /\ CanCreate(path) /\ hdr' = Counted("folder")
      /\ todo' = Creation("folder", path)
      /\ cat' = cat /\ attrs' = attrs /\ status' = status /\ disk' = disk
  BY DEF NewFolder
<1>2. Creation("folder", path) \o <<>> = Creation("folder", path)
  <2>1. PICK v, w, x, y : Creation("folder", path) = <<v, w, x, y>>
    BY DEF Creation
  <2>2. <<v, w, x, y>> \o <<>> = <<v, w, x, y>>
    OBVIOUS
  <2>3. QED
    BY <2>1, <2>2
<1>3. PICK new : new = [id |-> hdr.next, kind |-> "folder"]
  OBVIOUS
<1>4. lost' = IF Found(cat, path) THEN lost \cup {new} ELSE lost
  BY <1>3 DEF NewFolder
<1>5. /\ drift \subseteq drift'
      /\ Found(cat, path) =>
           {"valence", "folders"} \X {FolderAt(cat, Front(path))} \subseteq drift'
  BY DEF NewFolder
<1>6. todo' = Creation("folder", path) \o <<>>
  BY <1>1, <1>2
<1>7. PICK none : none = <<>>
  OBVIOUS
<1>8. QED
  BY <1>1, <1>3, <1>4, <1>5, <1>6, <1>7, CreatingCounts

LEMMA CountsAddNewFile ==
  ASSUME IInv, CountInv, NEW path \in Paths, AddNewFile(path)
  PROVE  CountInv'
<1>1. PICK more : more = Content(NewRecord("file", hdr.next))
  OBVIOUS
<1>2. /\ Idle /\ CanCreate(path) /\ ~Found(cat, path) /\ hdr' = Counted("file")
      /\ todo' = Creation("file", path) \o more
      /\ cat' = cat /\ attrs' = attrs /\ status' = status /\ lost' = lost
      /\ disk' = disk /\ drift' = drift
  BY <1>1 DEF AddNewFile, Begin
<1>3. PICK new : new = [id |-> hdr.next, kind |-> "file"]
  OBVIOUS
<1>4. lost' = IF Found(cat, path) THEN lost \cup {new} ELSE lost
  BY <1>2
<1>5. /\ drift \subseteq drift'
      /\ Found(cat, path) =>
           {"valence", "folders"} \X {FolderAt(cat, Front(path))} \subseteq drift'
  BY <1>2
<1>6. QED
  BY <1>1, <1>2, <1>3, <1>4, <1>5, CreatingCounts

(* An operation that makes, moves and removes nothing.                     *)
LEMMA CountsSame ==
  ASSUME IInv, CountInv, Idle, cat' = cat, attrs' = attrs, hdr' = hdr, disk' = disk,
         status' = status, drift' = drift, lost' = lost, AllQuiet(todo'),
         NEW f, NEW ats, After(State(cat, attrs), todo') = State(f, ats),
         Tidy(f, LostIds, hdr.next), ExactBut(f, drift, hdr.next, {}), Alike(cat, f)
  PROVE  CountInv'
<1>1. /\ disk = hdr /\ hdr.files = Cardinality(AllOf(cat, lost, "file"))
      /\ hdr.folders + 1 = Cardinality(AllOf(cat, lost, "folder"))
      /\ hdr.files \in Nat /\ hdr.folders \in Nat
  BY IdleCounts
<1>2. /\ IsFiniteSet(lost) /\ (\A l \in lost : l.kind \in {"file", "folder"})
      /\ FineHead(hdr)
  BY DEF CountInv, Fine
<1>3. LostIds' = LostIds
  BY LostNone
<1>4. PICK u : u = todo'
  OBVIOUS
<1>5. /\ FineTodo(u) /\ Owing(u) = {} /\ OneOwing(u)
      /\ Owes(u, "file") = 0 /\ Owes(u, "folder") = 0
  BY <1>4, QuietMeans
<1>6. Stored'
  BY <1>1, <1>4, <1>5 DEF Stored
<1>7. /\ AllOf(f, lost, "file") = AllOf(cat, lost, "file")
      /\ AllOf(f, lost, "folder") = AllOf(cat, lost, "folder")
  BY AlikeEntries DEF AllOf
<1>8. PICK a \in Nat, b \in Nat : hdr.files = a /\ hdr.folders = b
  BY <1>1
<1>9. /\ hdr'.files = Cardinality(AllOf(f, lost', "file")) + Owes(todo', "file")
      /\ hdr'.folders + 1 = Cardinality(AllOf(f, lost', "folder")) + Owes(todo', "folder")
  BY <1>1, <1>4, <1>5, <1>7, <1>8
<1>10. /\ FineTodo(todo') /\ OneOwing(todo') /\ FineHead(hdr')
       /\ Tidy(f, LostIds', hdr'.next) /\ ExactBut(f, drift', hdr'.next, {})
       /\ IsFiniteSet(lost') /\ \A l \in lost' : l.kind \in {"file", "folder"}
  BY <1>2, <1>3, <1>4, <1>5
<1>11. QED
  BY <1>6, <1>9, <1>10, OperationCounts

(* The process stops, and leaves everything as it is.                      *)
LEMMA CountsStop ==
  ASSUME IInv, CountInv, UNCHANGED <<cat, attrs, hdr, disk, todo, drift, lost>>,
         status' \in {"running", "exited", "panic"}
  PROVE  CountInv'
<1>1. Ahead' = After(State(cat', attrs'), todo')
  BY AheadNext
<1>2. Ahead' = Ahead
  BY <1>1, AheadIs
<1>3. LostIds' = LostIds
  BY LostNone
<1>4. Fine' /\ Stored'
  BY DEF CountInv, Fine, Stored
<1>5. /\ Tidy(Ahead'.cat, LostIds', hdr'.next)
      /\ ExactBut(Ahead'.cat, drift', hdr'.next, {})
  BY <1>2, <1>3 DEF CountInv
<1>6. Tallied(Ahead.cat, todo)'
  BY <1>2 DEF CountInv, Tallied
<1>7. QED
  BY <1>4, <1>5, <1>6 DEF CountInv

LEMMA CountsAddToFile ==
  ASSUME IInv, CountInv, NEW path \in Paths, AddToFile(path)
  PROVE  CountInv'
<1>1. PICK rec : rec = cat[KeyAt(cat, path)]
  OBVIOUS
<1>2. Idle /\ Found(cat, path) /\ Tidy(cat, LostIds, hdr.next) /\ hdr.next \in Nat
  BY IdleTidy DEF AddToFile
<1>3. CASE rec.kind = "file"
  <2>1. /\ todo' = Content(rec) /\ cat' = cat /\ attrs' = attrs /\ hdr' = hdr
        /\ status' = status /\ lost' = lost /\ disk' = disk /\ drift' = drift
    BY <1>1, <1>3 DEF AddToFile, Begin
  <2>2. PICK key : key = KeyAt(cat, path)
    OBVIOUS
  <2>3. key \in RecordKeys(cat) /\ rec \in RecTypes /\ rec = cat[key]
    BY <1>1, <1>2, <2>2, FoundParts
  <2>4. ExactBut(cat, drift, hdr.next, {})
    BY <1>2, IdleCounts
  <2>5. PICK g : /\ After(State(cat, attrs), Content(rec)) = State(g, attrs)
                 /\ Tidy(g, LostIds, hdr.next) /\ ExactBut(g, drift, hdr.next, {})
                 /\ Alike(cat, g)
    BY <1>2, <2>3, <2>4, ContentAgain
  <2>6. AllQuiet(todo')
    <3>1. FineRec(rec)
      BY <2>3, RecordKeysOf DEF CountInv, Fine, FineCat, FineEntry
    <3>2. Quiet(Save) /\ Quiet(Update(rec))
      BY <3>1, QuietUpdate, QuietSave
    <3>3. AllQuiet(Content(rec))
      BY <3>2, QuietTwo DEF Content
    <3>4. QED
      BY <2>1, <3>3
  <2>7. After(State(cat, attrs), todo') = State(g, attrs)
    BY <2>1, <2>5
  <2>8. QED
    BY <1>2, <2>1, <2>5, <2>6, <2>7, CountsSame
<1>4. CASE rec.kind # "file"
  <2>1. status' = "exited" /\ UNCHANGED <<cat, attrs, hdr, disk, todo, drift, lost>>
    BY <1>1, <1>4 DEF AddToFile, Exit
  <2>2. QED
    BY <2>1, CountsStop
<1>5. QED
  BY <1>3, <1>4

LEMMA InfoFine ==
  ASSUME NEW r, FineRec(r), NEW info \in Infos, NEW s, s = [r EXCEPT !.info = info]
  PROVE  /\ FineRec(s) /\ s.valence = r.valence /\ s.folders = r.folders
         /\ s.id = r.id /\ s.kind = r.kind
  BY DEF FineRec

LEMMA CountsChangeInfo ==
  ASSUME IInv, CountInv, NEW path \in Paths, NEW info \in Infos, ChangeInfo(path, info)
  PROVE  CountInv'
<1>1. PICK key : key = KeyAt(cat, path)
  OBVIOUS
<1>2. PICK rec : rec = cat[key]
  OBVIOUS
<1>3. Idle /\ Found(cat, path) /\ Tidy(cat, LostIds, hdr.next) /\ hdr.next \in Nat
  BY IdleTidy DEF ChangeInfo
<1>4. PICK new : new = [rec EXCEPT !.info = info]
  OBVIOUS
<1>5. /\ todo' = <<Update(new)>> /\ cat' = cat /\ attrs' = attrs /\ hdr' = hdr
      /\ status' = status /\ lost' = lost /\ disk' = disk /\ drift' = drift
  BY <1>1, <1>2, <1>4 DEF ChangeInfo, Begin
<1>6. key \in RecordKeys(cat) /\ rec \in RecTypes
  BY <1>1, <1>2, <1>3, FoundParts
<1>7. FineRec(rec)
  BY <1>2, <1>6, RecordKeysOf DEF CountInv, Fine, FineCat, FineEntry
<1>8. new \in RecTypes /\ new.id = rec.id /\ new.kind = rec.kind
  BY <1>4, <1>6 DEF RecTypes
<1>9. FineRec(new) /\ new.valence = rec.valence /\ new.folders = rec.folders
  BY <1>4, <1>7, InfoFine
<1>10. PICK d : /\ Done(State(cat, attrs), Update(new)) = State(d, attrs)
                /\ Tidy(d, LostIds, hdr.next) /\ Redone(cat, d, key, new)
  BY <1>2, <1>3, <1>6, <1>8, UpdateDone
<1>11. ExactBut(d, drift, hdr.next, {})
  <2>1. ExactBut(cat, drift, hdr.next, {})
    BY <1>3, IdleCounts
  <2>2. Right(rec, Cardinality(EntriesIn(cat, rec.id)), Cardinality(FoldersIn(cat, rec.id)),
              drift)
    BY <1>2, <1>6, <2>1 DEF ExactBut, RightIn
  <2>3. Right(new, Cardinality(EntriesIn(cat, new.id)), Cardinality(FoldersIn(cat, new.id)),
              drift)
    BY <1>8, <1>9, <2>2 DEF Right
  <2>4. ExactBut(d, drift, hdr.next, {} \ {key})
    BY <1>2, <1>6, <1>8, <1>10, <2>1, <2>3, RedoneExact
  <2>5. {} \ {key} = {}
    OBVIOUS
  <2>6. QED
    BY <2>4, <2>5
<1>12. Alike(cat, d)
  BY <1>2, <1>6, <1>8, <1>10, RedoneAlike
<1>13. After(State(cat, attrs), todo') = State(d, attrs)
  BY <1>5, <1>10, AfterOne
<1>14. AllQuiet(todo')
  BY <1>5, <1>9, QuietUpdate, QuietOne
<1>15. QED
  BY <1>3, <1>5, <1>10, <1>11, <1>12, <1>13, <1>14, CountsSame

LEMMA CountsSetAttribute ==
  ASSUME IInv, CountInv, NEW path \in Paths, NEW a \in AttrNames, SetAttribute(path, a)
  PROVE  CountInv'
<1>1. PICK key : key = KeyAt(cat, path)
  OBVIOUS
<1>2. PICK attr : attr = <<cat[key].id, a>>
  OBVIOUS
<1>3. Idle /\ Found(cat, path) /\ Tidy(cat, LostIds, hdr.next) /\ hdr.next \in Nat
  BY IdleTidy DEF SetAttribute
<1>4. CASE AttrPanics(attr)
  <2>1. status' = "panic" /\ UNCHANGED <<cat, attrs, hdr, disk, todo, drift, lost>>
    BY <1>1, <1>2, <1>4 DEF SetAttribute
  <2>2. QED
    BY <2>1, CountsStop
<1>5. CASE ~AttrPanics(attr)
  <2>1. PICK s : s = IF attr \in attrs THEN <<Unset(attr)>> ELSE <<>>
    OBVIOUS
  <2>2. PICK t : t = <<Set(attr)>>
    OBVIOUS
  <2>3. /\ todo' = s \o t /\ cat' = cat /\ attrs' = attrs /\ hdr' = hdr
        /\ status' = status /\ lost' = lost /\ disk' = disk /\ drift' = drift
    BY <1>1, <1>2, <1>5, <2>1, <2>2 DEF SetAttribute, Begin
  <2>4. attr \in (FirstId .. MaxId) \X AttrNames
    <3>1. key \in RecordKeys(cat) /\ key # RootKey
      BY <1>1, <1>3, FoundParts
    <3>2. cat[key].id # kHFSRootFolderID
      BY <1>3, <3>1, TidyRoot, TidyOne
    <3>3. FineRec(cat[key])
      BY <3>1, RecordKeysOf DEF CountInv, Fine, FineCat, FineEntry
    <3>4. cat[key].id \in FirstId .. MaxId
      BY <3>2, <3>3, FineParts
    <3>5. QED
      BY <1>2, <3>4
  <2>5. Quiet(Unset(attr)) /\ Quiet(Set(attr))
    BY <2>4 DEF Quiet, FineWrite, Unset, Set
  <2>6. AllQuiet(s) /\ AllQuiet(t)
    BY <2>1, <2>2, <2>5, QuietOne, QuietNone
  <2>7. AllQuiet(todo')
    BY <2>3, <2>6, QuietJoin
  <2>8. PICK ats : After(State(cat, attrs), s) = State(cat, ats)
    <3>1. CASE attr \in attrs
      <4>1. Unset(attr).do = "unset"
        BY DEF Unset
      <4>2. PICK w : w = Unset(attr) /\ w.do = "unset"
        BY <4>1
      <4>3. After(State(cat, attrs), s) = Done(State(cat, attrs), w)
        BY <2>1, <3>1, <4>2, AfterOne
      <4>4. Done(State(cat, attrs), w) = State(cat, attrs \ {w.attr})
        BY <4>2, DoneUnset
      <4>5. QED
        BY <4>3, <4>4
    <3>2. CASE attr \notin attrs
      BY <2>1, <3>2, AfterNone
    <3>3. QED
      BY <3>1, <3>2
  <2>9. \E bs : After(State(cat, ats), t) = State(cat, bs)
    <3>1. Set(attr).do = "set"
      BY DEF Set
    <3>2. PICK w : w = Set(attr) /\ w.do = "set"
      BY <3>1
    <3>3. After(State(cat, ats), t) = Done(State(cat, ats), w)
      BY <2>2, <3>2, AfterOne
    <3>4. Done(State(cat, ats), w) = State(cat, ats \cup {w.attr})
      BY <2>8, <3>2, DoneSet
    <3>5. QED
      BY <3>3, <3>4
  <2>10. PICK bs : After(State(cat, ats), t) = State(cat, bs)
    BY <2>9
  <2>11. After(State(cat, attrs), todo') = State(cat, bs)
    <3>1. After(State(cat, attrs), s \o t) = After(After(State(cat, attrs), s), t)
      BY <2>6, AfterJoin DEF AllQuiet
    <3>2. QED
      BY <2>3, <2>8, <2>10, <3>1
  <2>12. ExactBut(cat, drift, hdr.next, {}) /\ Alike(cat, cat)
    BY <1>3, IdleCounts DEF Alike
  <2>13. QED
    BY <1>3, <2>3, <2>7, <2>11, <2>12, CountsSame
<1>6. QED
  BY <1>4, <1>5

-----------------------------------------------------------------------------
(* Removal.                                                                *)

(* Only an entry of this kind has still to be counted; then the header is  *)
(* saved.                                                                  *)
CountsOff(t, kind) ==
  /\ FineTodo(t) /\ OneOwing(t) /\ Saves(t)
  /\ \A q : Owes(t, q) = IF kind = q THEN 1 ELSE 0

LEMMA CountOne ==
  ASSUME NEW t, NEW l \in Nat, l = Len(t), NEW p \in 1 .. l, p < l,
         NEW kind \in {"file", "folder"}, t[p] = Uncount(kind),
         \A i \in 1 .. l : i # p => Quiet(t[i]), t[l] = Save
  PROVE  CountsOff(t, kind)
<1>1. Uncount(kind).do = "uncount" /\ Uncount(kind).kind = kind
  BY DEF Uncount
<1>2. FineWrite(Uncount(kind))
  BY <1>1 DEF FineWrite
<1>3. FineTodo(t)
  BY <1>2 DEF FineTodo, Quiet
<1>4. \A i \in 1 .. l : t[i].do = "uncount" <=> i = p
  BY <1>1 DEF Quiet
<1>5. Owing(t) = {p}
  BY <1>4 DEF Owing
<1>6. OneOwing(t)
  BY <1>5 DEF OneOwing
<1>7. \A q : Owes(t, q) = IF kind = q THEN 1 ELSE 0
  BY <1>1, <1>5 DEF Owes
<1>8. Saves(t)
  <2>1. l \in 1 .. l /\ \A i \in l .. l : i = l /\ i # p
    OBVIOUS
  <2>2. t[l].do = "save"
    BY QuietSave
  <2>3. QED
    BY <2>1, <2>2 DEF Saves
<1>9. QED
  BY <1>3, <1>6, <1>7, <1>8 DEF CountsOff

LEMMA RemovalWrites ==
  ASSUME NEW rec, FineRec(rec), NEW key, NEW minus, FineRec(minus),
         NEW u, u = Removal(rec, key) \o <<Update(minus), Save>>
  PROVE  CountsOff(u, rec.kind)
<1>1. PICK s : s = IF rec.kind = "file" THEN Content(rec) ELSE <<>>
  OBVIOUS
<1>2. AllQuiet(s)
  <2>1. CASE rec.kind = "file"
    BY <1>1, <2>1, QuietUpdate, QuietSave, QuietTwo DEF Content
  <2>2. CASE rec.kind # "file"
    BY <1>1, <2>2, QuietNone
  <2>3. QED
    BY <2>1, <2>2
<1>3. PICK n \in Nat : n = Len(s)
  BY <1>2, ListedLen DEF AllQuiet
<1>4. PICK w, x, y, z : /\ w = Drop(key) /\ x = Strip(rec.id)
                        /\ y = Drop(ThreadKey(rec.id)) /\ z = Uncount(rec.kind)
  OBVIOUS
<1>5. PICK t : t = <<w, x, y, z>>
  OBVIOUS
<1>6. Listed(t) /\ Len(t) = 4 /\ t[1] = w /\ t[2] = x /\ t[3] = y /\ t[4] = z
  BY <1>5, ListedFour
<1>7. PICK v : v = s \o t
  OBVIOUS
<1>8. Joined(s, t, v)
  BY <1>2, <1>6, <1>7, ListedJoined DEF AllQuiet
<1>9. /\ Listed(v) /\ Len(v) = n + 4 /\ (\A i \in 1 .. n : v[i] = s[i])
      /\ \A i \in 1 .. 4 : v[n + i] = t[i]
  BY <1>3, <1>6, <1>8 DEF Joined
<1>10. PICK r : r = <<Update(minus), Save>>
  OBVIOUS
<1>11. Listed(r) /\ Len(r) = 2 /\ r[1] = Update(minus) /\ r[2] = Save
  BY <1>10, ListedTwo
<1>12. u = v \o r
  BY <1>1, <1>4, <1>5, <1>7, <1>10 DEF Removal
<1>13. Joined(v, r, u)
  BY <1>9, <1>11, <1>12, ListedJoined
<1>14. /\ Len(u) = (n + 4) + 2
       /\ \A i \in 1 .. n + 4 : u[i] = v[i]
       /\ \A i \in 1 .. 2 : u[(n + 4) + i] = r[i]
  BY <1>9, <1>11, <1>13 DEF Joined
<1>15. PICK l \in Nat, p \in Nat : l = n + 6 /\ p = n + 4
  OBVIOUS
<1>16. l = Len(u) /\ p \in 1 .. l /\ p < l
  BY <1>14, <1>15
<1>17. u[l] = Save /\ u[l - 1] = Update(minus)
  <2>1. 1 \in 1 .. 2 /\ 2 \in 1 .. 2 /\ l = (n + 4) + 2 /\ l - 1 = (n + 4) + 1
    BY <1>15
  <2>2. u[(n + 4) + 1] = r[1] /\ u[(n + 4) + 2] = r[2]
    BY <1>14, <2>1
  <2>3. QED
    BY <1>11, <2>1, <2>2
<1>18. ASSUME NEW i \in 1 .. 4 PROVE u[n + i] = t[i]
  <2>1. PICK j \in 1 .. n + 4 : j = n + i
    OBVIOUS
  <2>2. u[j] = v[j]
    BY <1>14
  <2>3. v[n + i] = t[i]
    BY <1>9
  <2>4. QED
    BY <2>1, <2>2, <2>3
<1>19. u[n + 1] = w /\ u[n + 2] = x /\ u[n + 3] = y /\ u[n + 4] = z
  <2>1. 1 \in 1 .. 4 /\ 2 \in 1 .. 4 /\ 3 \in 1 .. 4 /\ 4 \in 1 .. 4
    OBVIOUS
  <2>2. u[n + 1] = t[1] /\ u[n + 2] = t[2] /\ u[n + 3] = t[3] /\ u[n + 4] = t[4]
    BY <1>18, <2>1
  <2>3. QED
    BY <1>6, <2>2
<1>20. Quiet(w) /\ Quiet(x) /\ Quiet(y) /\ Quiet(Update(minus)) /\ Quiet(Save)
  <2>1. Quiet(w) /\ Quiet(y) /\ Quiet(Update(minus)) /\ Quiet(Save)
    BY <1>4, QuietDrop, QuietUpdate, QuietSave
  <2>2. Quiet(Strip(rec.id))
    BY DEF Quiet, FineWrite, Strip
  <2>3. QED
    BY <1>4, <2>1, <2>2
<1>21. ASSUME NEW i \in 1 .. l, i # p PROVE Quiet(u[i])
  <2>1. CASE i \in 1 .. n
    <3>1. i \in 1 .. n + 4
      BY <2>1
    <3>2. u[i] = s[i]
      BY <1>9, <1>14, <2>1, <3>1
    <3>3. QED
      BY <1>2, <1>3, <2>1, <3>2 DEF AllQuiet
  <2>2. CASE i \notin 1 .. n
    <3>1. i = n + 1 \/ i = n + 2 \/ i = n + 3 \/ i = l - 1 \/ i = l
      BY <1>15, <1>21, <2>2
    <3>2. QED
      BY <1>17, <1>19, <1>20, <3>1
  <2>3. QED
    BY <2>1, <2>2
<1>22. u[p] = Uncount(rec.kind)
  BY <1>4, <1>15, <1>19
<1>23. PICK kind \in {"file", "folder"} : kind = rec.kind
  BY FineParts
<1>24. QED
  BY <1>16, <1>17, <1>21, <1>22, <1>23, CountOne

(* r counts the entries of its folder but for the one at key.              *)
RightBut(c, r, key, dr) ==
  Right(r, Cardinality(EntriesIn(c, r.id) \ {key}), Cardinality(FoldersIn(c, r.id) \ {key}), dr)

(* The folder's record that counts the entry at key no longer.             *)
LEMMA MinusRight ==
  ASSUME NEW c, NEW dr, NEW next, ExactBut(c, dr, next, {}),
         NEW key \in RecordKeys(c), NEW i \in RecordKeys(c), c[i].id = key[1],
         FineRec(c[i]), NEW minus, minus = Minus(c[i], c[key].kind)
  PROVE  /\ FineRec(minus) /\ minus.id = c[i].id /\ minus.kind = c[i].kind
         /\ RightBut(c, minus, key, dr)
<1>1. PICK r : r = c[i]
  OBVIOUS
<1>2. RightIn(c, dr, i) /\ IsFiniteSet(DOMAIN c)
  BY DEF ExactBut
<1>3. PICK E, F : E = EntriesIn(c, r.id) /\ F = FoldersIn(c, r.id)
  OBVIOUS
<1>4. PICK n \in Nat, m \in Nat : /\ n = Cardinality(E) /\ m = Cardinality(F) /\ m <= n
                                  /\ IsFiniteSet(E) /\ IsFiniteSet(F)
  BY <1>2, <1>3, EntriesNumber
<1>5. Right(r, n, m, dr)
  BY <1>1, <1>2, <1>3, <1>4 DEF RightIn
<1>6. key \in E /\ (key \in F <=> c[key].kind = "folder")
  BY <1>1, <1>3 DEF EntriesIn, FoldersIn
<1>7. n # 0 /\ Cardinality(E \ {key}) = n - 1
  <2>1. Cardinality(E \ {key}) = n - 1
    BY <1>4, <1>6, CountLess
  <2>2. E # {}
    BY <1>6
  <2>3. n # 0
    BY <1>4, <2>2, FS_EmptySet
  <2>4. QED
    BY <2>1, <2>3
<1>8. /\ r.valence \in 0 .. MaxValence /\ r.folders \in 0 .. CounterMod - 1
      /\ n <= r.valence
      /\ (<<"valence", r.id>> \notin dr => r.valence = n)
      /\ (<<"folders", r.id>> \notin dr => r.folders = m)
  BY <1>1, <1>5, FineParts DEF Right
<1>9. r.valence # 0
  BY <1>7, <1>8
<1>10. /\ FineRec(minus) /\ minus.id = r.id /\ minus.kind = r.kind
       /\ minus.valence = r.valence - 1
       /\ minus.folders = IF c[key].kind = "folder" THEN Down(r.folders) ELSE r.folders
  BY <1>1, <1>9, MinusIs
<1>11. n - 1 <= minus.valence
  BY <1>8, <1>10, BoundsAssumption
<1>12. <<"valence", r.id>> \notin dr => minus.valence = n - 1
  BY <1>8, <1>10
<1>13. ASSUME <<"folders", r.id>> \notin dr PROVE minus.folders = Cardinality(F \ {key})
  <2>1. CASE c[key].kind = "folder"
    <3>1. key \in F
      BY <1>6, <2>1
    <3>2. Cardinality(F \ {key}) = m - 1
      BY <1>4, <3>1, CountLess
    <3>3. m # 0
      BY <1>4, <3>1, FS_EmptySet
    <3>4. m \in 1 .. CounterMod - 1
      BY <1>8, <1>13, <3>3
    <3>5. Down(m) = m - 1
      BY <3>4, DownIs
    <3>6. QED
      BY <1>8, <1>10, <1>13, <2>1, <3>2, <3>5
  <2>2. CASE c[key].kind # "folder"
    <3>1. F \ {key} = F
      BY <1>6, <2>2
    <3>2. QED
      BY <1>4, <1>8, <1>10, <1>13, <2>2, <3>1
  <2>3. QED
    BY <2>1, <2>2
<1>14. RightBut(c, minus, key, dr)
  BY <1>3, <1>7, <1>10, <1>11, <1>12, <1>13 DEF Right, RightBut
<1>15. QED
  BY <1>1, <1>10, <1>14

LEMMA StripDone ==
  ASSUME NEW c, NEW ats, NEW id
  PROVE  \E bs : Done(State(c, ats), Strip(id)) = State(c, bs)
  BY DEF Done, State, Strip

(* The first writes of a removal: those of a file's contents.              *)
Contents(rec) == IF rec.kind = "file" THEN Content(rec) ELSE <<>>

LEMMA ContentsDone ==
  ASSUME NEW c, NEW gone, NEW next, Tidy(c, gone, next),
         NEW dr, ExactBut(c, dr, next, {}),
         NEW key \in RecordKeys(c), NEW rec \in RecTypes, rec = c[key], NEW ats
  PROVE  \E g : /\ After(State(c, ats), Contents(rec)) = State(g, ats)
                /\ Tidy(g, gone, next) /\ ExactBut(g, dr, next, {})
                /\ Redone(c, g, key, rec) /\ Alike(c, g)
<1>1. CASE rec.kind = "file"
  BY <1>1, ContentAgain DEF Contents
<1>2. CASE rec.kind # "file"
  <2>1. After(State(c, ats), Contents(rec)) = State(c, ats)
    BY <1>2, AfterNone DEF Contents
  <2>2. Redone(c, c, key, rec) /\ Alike(c, c)
    BY RecordKeysOf DEF Redone, Alike
  <2>3. QED
    BY <2>1, <2>2
<1>3. QED
  BY <1>1, <1>2

LEMMA ContentsListed ==
  ASSUME NEW rec
  PROVE  Listed(Contents(rec))
<1>1. CASE rec.kind = "file"
  BY <1>1, ContentParts DEF Contents
<1>2. CASE rec.kind # "file"
  BY <1>2, ListedNone DEF Contents
<1>3. QED
  BY <1>1, <1>2

LEMMA AfterParts ==
  ASSUME NEW s, NEW t, Listed(t), NEW v, Listed(v),
         NEW w, Listed(w)
  PROVE  After(s, (t \o v) \o w) = After(After(After(s, t), v), w)
<1>1. PICK x : x = t \o v
  OBVIOUS
<1>2. Listed(x)
  BY <1>1, ListedCat
<1>3. After(s, x \o w) = After(After(s, x), w)
  BY <1>2, AfterJoin
<1>4. After(s, t \o v) = After(After(s, t), v)
  BY AfterJoin
<1>5. QED
  BY <1>1, <1>3, <1>4

(* The catalog f that the removal of what is at key leaves of c.           *)
RemovedFrom(c, f, key, dr, gone, next) ==
  /\ Tidy(f, gone, next) /\ ExactBut(f, dr, next, {})
  /\ \A kind : /\ OfKind(f, kind) = OfKind(c, kind) \ {c[key].id}
               /\ c[key].id \in OfKind(c, kind) <=> c[key].kind = kind

(* The writes of a removal, with the record that the parent then has.      *)
Removes(u, rec, key, minus) == u = Removal(rec, key) \o <<Update(minus), Save>>

LEMMA RemovalDone ==
  ASSUME NEW c, NEW gone, NEW next, Tidy(c, gone, next),
         NEW dr, ExactBut(c, dr, next, {}),
         NEW key \in RecordKeys(c), key # RootKey, FineRec(c[key]), c[key] \in RecTypes,
         NEW i \in RecordKeys(c), i # key, c[i].id = key[1],
         FineRec(c[i]), c[i] \in RecTypes,
         NEW minus \in RecTypes, minus = Minus(c[i], c[key].kind), NEW ats,
         NEW u, Removes(u, c[key], key, minus)
  PROVE  \E f, bs : /\ After(State(c, ats), u) = State(f, bs)
                    /\ RemovedFrom(c, f, key, dr, gone, next)
<1>1. PICK rec : rec = c[key]
  OBVIOUS
<1>2. PICK g : /\ After(State(c, ats), Contents(rec)) = State(g, ats)
               /\ Tidy(g, gone, next) /\ ExactBut(g, dr, next, {})
               /\ Redone(c, g, key, rec) /\ Alike(c, g)
  BY <1>1, ContentsDone
<1>3. /\ RecordKeys(g) = RecordKeys(c) /\ g[key] = rec /\ g[i] = c[i]
      /\ \A id : EntriesIn(g, id) = EntriesIn(c, id) /\ FoldersIn(g, id) = FoldersIn(c, id)
      /\ \A kind : OfKind(g, kind) = OfKind(c, kind)
  BY <1>2, AlikeEntries, RecordKeysOf DEF Redone
<1>4. PICK d : d = Cleared(g, key, rec.id)
  OBVIOUS
<1>5. PICK w, x, y, z : /\ w = Drop(key) /\ x = Strip(rec.id)
                        /\ y = Drop(ThreadKey(rec.id)) /\ z = Uncount(rec.kind)
  OBVIOUS
<1>6. PICK t : t = <<w, x, y, z>>
  OBVIOUS
<1>7. \E bs : After(State(g, ats), t) = State(d, bs)
  <2>1. PICK st : st = State(g, ats)
    OBVIOUS
  <2>2. After(st, <<w, x, y, z>>) = Done(Done(Done(Done(st, w), x), y), z)
    BY AfterFour
  <2>3. PICK g1 : g1 = Without(g, key)
    OBVIOUS
  <2>4. Done(State(g, ats), w) = State(g1, ats)
    BY <1>5, <2>3, DropDone
  <2>5. x.do = "strip" /\ z.do = "uncount"
    BY <1>5 DEF Strip, Uncount
  <2>6. PICK bs : Done(State(g1, ats), x) = State(g1, bs)
    <3>1. PICK id : id = rec.id
      OBVIOUS
    <3>2. \E bs : Done(State(g1, ats), Strip(id)) = State(g1, bs)
      BY StripDone
    <3>3. QED
      BY <1>5, <3>1, <3>2
  <2>7. Done(State(g1, bs), y) = State(d, bs)
    BY <1>4, <1>5, <2>3, DropDone DEF Cleared
  <2>8. Done(State(d, bs), z) = State(d, bs)
    BY <2>5, DoneQuiet
  <2>9. QED
    BY <1>6, <2>1, <2>2, <2>4, <2>6, <2>7, <2>8
<1>8. PICK bs : After(State(g, ats), t) = State(d, bs)
  BY <1>7
<1>9. /\ Tidy(d, gone, next) /\ i \in RecordKeys(d) /\ d[i] = c[i]
  BY <1>2, <1>3, <1>4, TidyClear
<1>10. /\ ExactBut(d, dr, next, {i})
       /\ \A id : /\ EntriesIn(d, id) = EntriesIn(c, id) \ {key}
                  /\ FoldersIn(d, id) = FoldersIn(c, id) \ {key}
  <2>1. /\ key \in RecordKeys(g) /\ i \in RecordKeys(g) /\ g[i].id = key[1]
        /\ d = Cleared(g, key, g[key].id)
    BY <1>3, <1>4
  <2>2. ExactBut(d, dr, next, {i}) /\ Loses(g, d, key)
    BY <1>2, <2>1, ClearExact
  <2>3. QED
    BY <1>3, <2>2 DEF Loses
<1>11. minus.id = c[i].id /\ minus.kind = c[i].kind /\ RightBut(c, minus, key, dr)
  BY MinusRight
<1>12. PICK f : /\ Done(State(d, bs), Update(minus)) = State(f, bs)
                /\ Tidy(f, gone, next) /\ Redone(d, f, i, minus)
  BY <1>9, <1>11, UpdateDone
<1>13. ExactBut(f, dr, next, {})
  <2>1. Right(minus, Cardinality(EntriesIn(d, minus.id)), Cardinality(FoldersIn(d, minus.id)),
              dr)
    BY <1>10, <1>11 DEF RightBut
  <2>2. ExactBut(f, dr, next, {i} \ {i})
    BY <1>9, <1>10, <1>11, <1>12, <2>1, RedoneExact
  <2>3. {i} \ {i} = {}
    OBVIOUS
  <2>4. QED
    BY <2>2, <2>3
<1>14. ASSUME NEW kind
       PROVE  /\ OfKind(f, kind) = OfKind(c, kind) \ {rec.id}
              /\ rec.id \in OfKind(c, kind) <=> rec.kind = kind
  <2>1. Alike(d, f)
    BY <1>9, <1>11, <1>12, RedoneAlike
  <2>2. OfKind(f, kind) = OfKind(d, kind)
    BY <2>1, AlikeEntries
  <2>3. /\ OfKind(d, kind) = OfKind(g, kind) \ {rec.id}
        /\ rec.id \in OfKind(g, kind) <=> rec.kind = kind
    BY <1>2, <1>3, <1>4, ClearKinds
  <2>4. QED
    BY <1>3, <2>2, <2>3
<1>15. RemovedFrom(c, f, key, dr, gone, next)
  BY <1>1, <1>12, <1>13, <1>14 DEF RemovedFrom
<1>16. After(State(c, ats), u) = State(f, bs)
  <2>1. PICK s : s = Contents(rec)
    OBVIOUS
  <2>2. PICK r : r = <<Update(minus), Save>>
    OBVIOUS
  <2>3. u = (s \o t) \o r
    BY <1>1, <1>5, <1>6, <2>1, <2>2 DEF Removal, Contents, Removes
  <2>4. Listed(s) /\ Listed(t) /\ Listed(r)
    BY <1>6, <2>1, <2>2, ContentsListed, ListedFour, ListedTwo
  <2>5. PICK st : st = State(c, ats)
    OBVIOUS
  <2>6. After(st, (s \o t) \o r) = After(After(After(st, s), t), r)
    BY <2>4, AfterParts
  <2>7. After(State(d, bs), r) = State(f, bs)
    <3>1. After(State(d, bs), r) = Done(Done(State(d, bs), Update(minus)), Save)
      BY <2>2, AfterTwo
    <3>2. QED
      BY <1>12, <3>1, SaveDone
  <2>8. QED
    BY <1>2, <1>8, <2>1, <2>3, <2>5, <2>6, <2>7
<1>17. QED
  BY <1>15, <1>16

(* What is taken away is still counted, until it is owed no longer.        *)
LEMMA RemovedKinds ==
  ASSUME NEW c, IsFiniteSet(DOMAIN c), NEW gone, NEW next, NEW ls, gone = {l.id : l \in ls},
         IsFiniteSet(ls), NEW dr, NEW f, NEW key, RemovedFrom(c, f, key, dr, gone, next),
         c[key].id \notin gone, NEW t, CountsOff(t, c[key].kind), NEW kind
  PROVE  Cardinality(AllOf(f, ls, kind)) + Owes(t, kind) = Cardinality(AllOf(c, ls, kind))
<1>1. PICK id : id = c[key].id
  OBVIOUS
<1>2. /\ OfKind(f, kind) = OfKind(c, kind) \ {id}
      /\ id \in OfKind(c, kind) <=> c[key].kind = kind
  BY <1>1 DEF RemovedFrom
<1>3. id \notin LostOf(ls, kind)
  BY <1>1 DEF LostOf
<1>4. PICK A : A = AllOf(c, ls, kind)
  OBVIOUS
<1>5. AllOf(f, ls, kind) = A \ {id} /\ (id \in A <=> c[key].kind = kind)
  BY <1>2, <1>3, <1>4 DEF AllOf
<1>6. PICK n \in Nat : n = Cardinality(A) /\ IsFiniteSet(A)
  BY <1>4, AllFinite
<1>7. Owes(t, kind) = IF c[key].kind = kind THEN 1 ELSE 0
  BY DEF CountsOff
<1>8. CASE c[key].kind = kind
  <2>1. Cardinality(A \ {id}) = n - 1
    BY <1>5, <1>6, <1>8, CountLess
  <2>2. (n - 1) + 1 = n
    OBVIOUS
  <2>3. QED
    BY <1>4, <1>5, <1>6, <1>7, <1>8, <2>1, <2>2
<1>9. CASE c[key].kind # kind
  <2>1. A \ {id} = A
    BY <1>5, <1>9
  <2>2. n + 0 = n
    OBVIOUS
  <2>3. QED
    BY <1>4, <1>5, <1>6, <1>7, <1>9, <2>1, <2>2
<1>10. QED
  BY <1>8, <1>9

LEMMA CountsRemoveEntry ==
  ASSUME IInv, CountInv, NEW path \in Paths, RemoveEntry(path)
  PROVE  CountInv'
<1>1. Idle
  BY DEF RemoveEntry
<1>2. CASE UNCHANGED <<cat, attrs, hdr, disk, todo, drift, lost>> /\ status' = "exited"
  BY <1>2, CountsStop
<1>3. CASE ~(UNCHANGED <<cat, attrs, hdr, disk, todo, drift, lost>> /\ status' = "exited")
  <2>1. PICK key : key = KeyAt(cat, path)
    OBVIOUS
  <2>2. PICK minus : minus = Minus(RecordById(cat, key[1]), cat[key].kind)
    OBVIOUS
  <2>3. Found(cat, path) /\ Begin(Removal(cat[key], key) \o <<Update(minus), Save>>) /\ hdr' = hdr
    BY <1>3, <2>1, <2>2 DEF RemoveEntry, Exit
  <2>4. PICK u : u = Removal(cat[key], key) \o <<Update(minus), Save>>
    OBVIOUS
  <2>5. /\ todo' = u /\ cat' = cat /\ attrs' = attrs /\ status' = status /\ lost' = lost
        /\ disk' = disk /\ drift' = drift
    BY <2>3, <2>4 DEF Begin
  <2>6. Tidy(cat, LostIds, hdr.next) /\ hdr.next \in Nat
    BY <1>1, IdleTidy
  <2>7. key \in RecordKeys(cat) /\ key # RootKey /\ cat[key] \in RecTypes
    BY <2>1, <2>3, <2>6, FoundParts
  <2>8. PICK i \in RecordKeys(cat) :
          RecordById(cat, key[1]) = cat[i] /\ cat[i] \in RecTypes /\ i # key
    BY <2>1, <2>3, <2>6, FoundParts
  <2>9. cat[i].id = key[1]
    <3>1. FolderAt(cat, Front(path)) # NoFolder /\ key[1] = FolderAt(cat, Front(path))
      BY <2>1, <2>3, <2>6, FoundParts
    <3>2. Front(path) \in Seq(Names)
      BY PathSeq, FrontParts
    <3>3. PICK j \in RecordKeys(cat) : RecordById(cat, key[1]) = cat[j] /\ cat[j].id = key[1]
      BY <2>6, <3>1, <3>2, FolderRecord
    <3>4. QED
      BY <2>8, <3>3
  <2>10. FineRec(cat[key]) /\ FineRec(cat[i])
    BY <2>7, <2>8, RecordKeysOf DEF CountInv, Fine, FineCat, FineEntry
  <2>11. minus = Minus(cat[i], cat[key].kind) /\ minus \in RecTypes
    BY <2>2, <2>8, MinusTyped
  <2>12. /\ ExactBut(cat, drift, hdr.next, {}) /\ disk = hdr
         /\ hdr.files = Cardinality(AllOf(cat, lost, "file"))
         /\ hdr.folders + 1 = Cardinality(AllOf(cat, lost, "folder"))
    BY <1>1, IdleCounts
  <2>13. \E f, bs : /\ After(State(cat, attrs), u) = State(f, bs)
                    /\ RemovedFrom(cat, f, key, drift, LostIds, hdr.next)
    <3>1. Removes(u, cat[key], key, minus)
      BY <2>4 DEF Removes
    <3>2. QED
      BY <2>6, <2>7, <2>8, <2>9, <2>10, <2>11, <2>12, <3>1, RemovalDone
  <2>14. PICK f, bs : /\ After(State(cat, attrs), u) = State(f, bs)
                      /\ RemovedFrom(cat, f, key, drift, LostIds, hdr.next)
    BY <2>13
  <2>15. FineRec(minus)
    BY <2>7, <2>8, <2>9, <2>10, <2>11, <2>12, MinusRight
  <2>16. CountsOff(u, cat[key].kind)
    BY <2>4, <2>10, <2>15, RemovalWrites
  <2>17. LostIds' = LostIds /\ LostIds = {l.id : l \in lost}
    BY <2>5, LostNone DEF LostIds
  <2>18. /\ IsFiniteSet(lost) /\ (\A l \in lost : l.kind \in {"file", "folder"})
         /\ FineHead(hdr) /\ IsFiniteSet(DOMAIN cat)
    BY <2>12 DEF CountInv, Fine, ExactBut
  <2>19. cat[key].id \notin LostIds
    BY <2>6, <2>7, TidyNamed
  <2>20. ASSUME NEW kind
         PROVE  Cardinality(AllOf(f, lost, kind)) + Owes(u, kind) =
                  Cardinality(AllOf(cat, lost, kind))
    BY <2>14, <2>16, <2>17, <2>18, <2>19, RemovedKinds
  <2>21. /\ hdr'.files = Cardinality(AllOf(f, lost', "file")) + Owes(todo', "file")
         /\ hdr'.folders + 1 = Cardinality(AllOf(f, lost', "folder")) + Owes(todo', "folder")
    BY <2>3, <2>5, <2>12, <2>20
  <2>22. FineTodo(todo') /\ OneOwing(todo') /\ Saves(todo')
    BY <2>5, <2>16 DEF CountsOff
  <2>23. Stored'
    BY <2>22 DEF Stored
  <2>24. Tidy(f, LostIds', hdr'.next) /\ ExactBut(f, drift', hdr'.next, {})
    BY <2>3, <2>5, <2>14, <2>17 DEF RemovedFrom
  <2>25. /\ FineHead(hdr') /\ IsFiniteSet(lost')
         /\ \A l \in lost' : l.kind \in {"file", "folder"}
    BY <2>3, <2>5, <2>18
  <2>26. After(State(cat, attrs), todo') = State(f, bs)
    BY <2>5, <2>14
  <2>27. QED
    BY <2>5, <2>21, <2>22, <2>23, <2>24, <2>25, <2>26, OperationCounts
<1>4. QED
  BY <1>2, <1>3

-----------------------------------------------------------------------------
(* Moves.                                                                  *)

(* Every folder of e has the entries that it has in c, but for the one at  *)
(* `from`, and to[1] has one at `to`.                                      *)
Moves(c, e, from, to, kind) ==
  \A id : /\ EntriesIn(e, id) = (EntriesIn(c, id) \ {from}) \cup
               IF id = to[1] THEN {to} ELSE {}
          /\ FoldersIn(e, id) = (FoldersIn(c, id) \ {from}) \cup
               IF id = to[1] /\ kind = "folder" THEN {to} ELSE {}

LEMMA ButWider ==
  ASSUME NEW c, NEW dr, NEW next, NEW S, ExactBut(c, dr, next, S), NEW T, S \subseteq T
  PROVE  ExactBut(c, dr, next, T)
  BY DEF ExactBut

Comes(c, e, from, to, i, j, dr, next) ==
  ExactBut(e, dr, next, {i, j}) /\ Moves(c, e, from, to, c[from].kind)

(* The entry at `from` has come at `to`, which was free.                   *)
LEMMA ArriveExact ==
  ASSUME NEW c, NEW gone, NEW next \in Nat, Tidy(c, gone, next),
         NEW dr, ExactBut(c, dr, next, {}),
         NEW from \in RecordKeys(c), from # RootKey,
         NEW to, ~IsThread(to),
         NEW i \in RecordKeys(c), i # from, c[i].id = from[1],
         NEW j \in RecordKeys(c), j # from, c[j].id = to[1],
         NEW d, d = Cleared(c, from, c[from].id), to \notin DOMAIN d,
         NEW e, Placed(d, e, to, c[from])
  PROVE  Comes(c, e, from, to, i, j, dr, next)
<1>1. PICK rec : rec = c[from]
  OBVIOUS
<1>2. ExactBut(d, dr, next, {i}) /\ Loses(c, d, from)
  BY ClearExact
<1>3. /\ Tidy(d, gone, next) /\ j \in RecordKeys(d) /\ d[j] = c[j]
      /\ \A l \in RecordKeys(d) : l # from
  BY TidyClear
<1>4. to[1] < next
  BY TidyIds
<1>5. PICK S, T : S = {i} /\ T = S \cup {j, to}
  OBVIOUS
<1>6. Placed(d, e, to, rec) /\ d[j].id = to[1]
  BY <1>1, <1>3
<1>7. /\ ExactBut(e, dr, next, T) /\ RecordKeys(e) = RecordKeys(d) \cup {to}
      /\ Gains(d, e, to, rec.kind)
  <2>1. ExactBut(d, dr, next, S)
    BY <1>2, <1>5
  <2>2. to \notin DOMAIN d /\ ~IsThread(to) /\ T = S \cup {j, to}
    BY <1>5
  <2>3. Tidy(d, gone, next) /\ j \in RecordKeys(d) /\ d[j].id = to[1] /\ to[1] < next
    BY <1>3, <1>4, <1>6
  <2>4. Came(d, e, to, rec, dr, next, T)
    BY <1>6, <2>1, <2>2, <2>3, PlaceExact
  <2>5. QED
    BY <2>4 DEF Came
<1>8. Moves(c, e, from, to, rec.kind)
  BY <1>2, <1>7 DEF Loses, Gains, Moves
<1>9. e[to] = rec
  BY <1>6 DEF Placed
<1>10. RightIn(e, dr, to)
  <2>1. rec.id # to[1]
    BY <1>1, TidyOne
  <2>2. rec.id # from[1]
    BY <1>1, TidyOne
  <2>3. from \notin EntriesIn(c, rec.id) /\ from \notin FoldersIn(c, rec.id)
    BY <2>2 DEF EntriesIn, FoldersIn
  <2>4. /\ EntriesIn(e, rec.id) = EntriesIn(c, rec.id)
        /\ FoldersIn(e, rec.id) = FoldersIn(c, rec.id)
    BY <1>8, <2>1, <2>3 DEF Moves
  <2>5. RightIn(c, dr, from)
    BY DEF ExactBut
  <2>6. QED
    BY <1>1, <1>9, <2>4, <2>5 DEF RightIn
<1>11. ExactBut(e, dr, next, T \ {to})
  BY <1>7, <1>10, ButLess
<1>12. T \ {to} \subseteq {i, j}
  BY <1>5
<1>13. QED
  BY <1>1, <1>8, <1>11, <1>12, ButWider DEF Comes

(* The entry at `from` has gone, and what is at `to` has stayed.           *)
LEMMA TakenArrives ==
  ASSUME NEW c, NEW gone, NEW next \in Nat, Tidy(c, gone, next),
         NEW dr, ExactBut(c, dr, next, {}),
         NEW from \in RecordKeys(c), from # RootKey,
         NEW to, NEW i \in RecordKeys(c), i # from, c[i].id = from[1], NEW j,
         NEW d, d = Cleared(c, from, c[from].id), to \in DOMAIN d,
         NEW e, Placed(d, e, to, c[from])
  PROVE  ExactBut(e, dr, next, {i, j}) /\ Loses(c, e, from)
<1>1. PICK rec : rec = c[from]
  OBVIOUS
<1>2. ExactBut(d, dr, next, {i}) /\ Loses(c, d, from)
  BY ClearExact
<1>3. Placed(d, e, to, rec)
  BY <1>1
<1>4. /\ ExactBut(e, dr, next, {i})
      /\ \A id : EntriesIn(e, id) = EntriesIn(d, id) /\ FoldersIn(e, id) = FoldersIn(d, id)
  BY <1>2, <1>3, TakenExact
<1>5. {i} \subseteq {i, j}
  OBVIOUS
<1>6. QED
  BY <1>2, <1>4, <1>5, ButWider DEF Loses

(* What counts one entry less, but no folder.                              *)
LEMMA LeaveRight ==
  ASSUME NEW c, NEW dr, NEW next, ExactBut(c, dr, next, {}),
         NEW key \in RecordKeys(c), NEW i \in RecordKeys(c), c[i].id = key[1],
         FineRec(c[i]), NEW off, dr \subseteq off,
         c[key].kind = "folder" => <<"folders", c[i].id>> \in off,
         NEW src, src = [c[i] EXCEPT !.valence = Down(@)]
  PROVE  /\ FineRec(src) /\ src.id = c[i].id /\ src.kind = c[i].kind
         /\ RightBut(c, src, key, off)
<1>1. PICK r : r = c[i]
  OBVIOUS
<1>2. RightIn(c, dr, i) /\ IsFiniteSet(DOMAIN c)
  BY DEF ExactBut
<1>3. PICK E, F : E = EntriesIn(c, r.id) /\ F = FoldersIn(c, r.id)
  OBVIOUS
<1>4. PICK n \in Nat, m \in Nat : /\ n = Cardinality(E) /\ m = Cardinality(F) /\ m <= n
                                  /\ IsFiniteSet(E) /\ IsFiniteSet(F)
  BY <1>2, <1>3, EntriesNumber
<1>5. Right(r, n, m, dr)
  BY <1>1, <1>2, <1>3, <1>4 DEF RightIn
<1>6. key \in E /\ (key \in F <=> c[key].kind = "folder")
  BY <1>1, <1>3 DEF EntriesIn, FoldersIn
<1>7. n # 0 /\ Cardinality(E \ {key}) = n - 1
  <2>1. Cardinality(E \ {key}) = n - 1
    BY <1>4, <1>6, CountLess
  <2>2. n # 0
    BY <1>4, <1>6, FS_EmptySet
  <2>3. QED
    BY <2>1, <2>2
<1>8. /\ r.valence \in 0 .. MaxValence /\ n <= r.valence
      /\ (<<"valence", r.id>> \notin dr => r.valence = n)
      /\ (<<"folders", r.id>> \notin dr => r.folders = m)
  BY <1>1, <1>5, FineParts DEF Right
<1>9. PICK v \in 1 .. CounterMod - 1 : v = r.valence /\ v <= MaxValence
  BY <1>7, <1>8, BoundsAssumption
<1>10. PICK w \in 0 .. MaxValence : w = v - 1 /\ w = Down(r.valence)
  <2>1. Down(v) = v - 1 /\ v - 1 \in 0 .. MaxValence
    <3>1. Down(v) = v - 1
      BY <1>9, DownIs
    <3>2. v - 1 \in 0 .. MaxValence
      BY <1>9, BoundsAssumption
    <3>3. QED
      BY <3>1, <3>2
  <2>2. QED
    BY <1>9, <2>1
<1>11. /\ FineRec(src) /\ src.valence = w /\ src.folders = r.folders
       /\ src.id = r.id /\ src.kind = r.kind
  <2>1. src = [r EXCEPT !.valence = w]
    BY <1>1, <1>10
  <2>2. QED
    BY <1>1, <1>10, <2>1, FineValence
<1>12. n - 1 <= w /\ (<<"valence", r.id>> \notin off => w = n - 1)
  BY <1>8, <1>9, <1>10
<1>13. ASSUME <<"folders", r.id>> \notin off PROVE src.folders = Cardinality(F \ {key})
  <2>1. c[key].kind # "folder"
    BY <1>1, <1>13
  <2>2. F \ {key} = F
    BY <1>6, <2>1
  <2>3. QED
    BY <1>4, <1>8, <1>11, <1>13, <2>2
<1>14. RightBut(c, src, key, off)
  BY <1>3, <1>7, <1>11, <1>12, <1>13 DEF Right, RightBut
<1>15. QED
  BY <1>1, <1>11, <1>14

(* A folder with n entries and m folders has p and q now.                  *)
Grows(r, n, m, p, q, off) ==
  /\ p <= n + 1
  /\ <<"valence", r.id>> \notin off => p = n + 1
  /\ <<"folders", r.id>> \notin off => q = m

Grown(r, dst) == dst = [r EXCEPT !.valence = Up(@)]

(* What counts one entry more, but no folder.                              *)
LEMMA GrowRight ==
  ASSUME NEW r, FineRec(r), r.valence < MaxValence, NEW dr, NEW off, dr \subseteq off,
         NEW n \in Nat, NEW m, Right(r, n, m, dr),
         NEW p \in Nat, NEW q, Grows(r, n, m, p, q, off), NEW dst, Grown(r, dst)
  PROVE  /\ FineRec(dst) /\ dst.id = r.id /\ dst.kind = r.kind
         /\ Right(dst, p, q, off)
<1>1. /\ r.valence \in 0 .. MaxValence /\ n <= r.valence
      /\ (<<"valence", r.id>> \notin dr => r.valence = n)
      /\ (<<"folders", r.id>> \notin dr => r.folders = m)
  BY FineParts DEF Right
<1>2. PICK v \in Nat : v = r.valence /\ v < MaxValence /\ v + 1 < CounterMod
  BY <1>1, BoundsAssumption
<1>3. PICK w \in 0 .. MaxValence : w = v + 1 /\ w = Up(r.valence)
  BY <1>2, UpIs, BoundsAssumption
<1>4. /\ FineRec(dst) /\ dst.valence = w /\ dst.folders = r.folders
      /\ dst.id = r.id /\ dst.kind = r.kind
  <2>1. dst = [r EXCEPT !.valence = w]
    BY <1>3 DEF Grown
  <2>2. QED
    BY <1>3, <2>1, FineValence
<1>5. p <= w /\ (<<"valence", r.id>> \notin off => w = p)
  BY <1>1, <1>2, <1>3 DEF Grows
<1>6. <<"folders", r.id>> \notin off => dst.folders = q
  BY <1>1, <1>4 DEF Grows
<1>7. QED
  BY <1>4, <1>5, <1>6 DEF Right

(* A member that gives way to another.                                     *)
LEMMA CountSwap ==
  ASSUME NEW A, IsFiniteSet(A), NEW x, NEW y, NEW n \in Nat, n = Cardinality(A),
         x \in A => y = x \/ y \notin A, x \notin A => y \notin A
  PROVE  /\ IsFiniteSet((A \ {x}) \cup {y})
         /\ Cardinality((A \ {x}) \cup {y}) = IF x \in A THEN n ELSE n + 1
<1>1. IsFiniteSet(A \ {x})
  BY FS_Subset
<1>2. IsFiniteSet((A \ {x}) \cup {y})
  BY <1>1, FS_AddElement
<1>3. CASE x \in A
  <2>1. Cardinality(A \ {x}) = n - 1
    BY <1>3, CountLess
  <2>2. y \notin A \ {x}
    BY <1>3
  <2>3. Cardinality((A \ {x}) \cup {y}) = Cardinality(A \ {x}) + 1
    BY <1>1, <2>2, CountMore
  <2>4. (n - 1) + 1 = n
    OBVIOUS
  <2>5. QED
    BY <1>2, <1>3, <2>1, <2>3, <2>4
<1>4. CASE x \notin A
  <2>1. A \ {x} = A /\ y \notin A
    BY <1>4
  <2>2. Cardinality(A \cup {y}) = n + 1
    BY <2>1, CountMore
  <2>3. QED
    BY <1>2, <1>4, <2>1, <2>2
<1>5. QED
  BY <1>3, <1>4

LEMMA CountOut ==
  ASSUME NEW A, IsFiniteSet(A), NEW x, NEW n \in Nat, n = Cardinality(A)
  PROVE  Cardinality(A \ {x}) \in Nat /\ Cardinality(A \ {x}) <= n
<1>1. A \ {x} \subseteq A
  OBVIOUS
<1>2. QED
  BY <1>1, FS_Subset, FS_CardinalityType

RightAt(c, r, dr) ==
  Right(r, Cardinality(EntriesIn(c, r.id)), Cardinality(FoldersIn(c, r.id)), dr)

(* The folder that an entry comes to, at a name that is free: `off` has    *)
(* what Miscounted says of it.                                             *)
LEMMA FreeRight ==
  ASSUME NEW c, NEW dr, NEW next, ExactBut(c, dr, next, {}),
         NEW from \in RecordKeys(c), NEW to, ~IsThread(to), to = from \/ to \notin DOMAIN c,
         NEW j \in RecordKeys(c), c[j].id = to[1],
         FineRec(c[j]), c[j].valence < MaxValence,
         NEW off, dr \subseteq off,
         from[1] = to[1] => <<"valence", to[1]>> \in off,
         c[from].kind = "folder" /\ from[1] # to[1] => <<"folders", to[1]>> \in off,
         NEW e, Moves(c, e, from, to, c[from].kind),
         NEW dst, Grown(c[j], dst)
  PROVE  FineRec(dst) /\ dst.id = c[j].id /\ dst.kind = c[j].kind /\ RightAt(e, dst, off)
<1>1. PICK r : r = c[j]
  OBVIOUS
<1>2. RightIn(c, dr, j) /\ IsFiniteSet(DOMAIN c)
  BY DEF ExactBut
<1>3. PICK E, F : E = EntriesIn(c, r.id) /\ F = FoldersIn(c, r.id)
  OBVIOUS
<1>4. PICK n \in Nat, m \in Nat : /\ n = Cardinality(E) /\ m = Cardinality(F)
                                  /\ IsFiniteSet(E) /\ IsFiniteSet(F)
  BY <1>2, <1>3, EntriesNumber
<1>5. Right(r, n, m, dr)
  BY <1>1, <1>2, <1>3, <1>4 DEF RightIn
<1>6. /\ from \in E <=> from[1] = to[1]
      /\ from \in F <=> from[1] = to[1] /\ c[from].kind = "folder"
      /\ (to # from => to \notin E /\ to \notin F)
  BY <1>1, <1>3, RecordKeysOf DEF EntriesIn, FoldersIn
<1>7. PICK p : p = Cardinality(EntriesIn(e, r.id))
  OBVIOUS
<1>8. p = IF from \in E THEN n ELSE n + 1
  <2>1. EntriesIn(e, r.id) = (E \ {from}) \cup {to}
    BY <1>1, <1>3 DEF Moves
  <2>2. Cardinality((E \ {from}) \cup {to}) = IF from \in E THEN n ELSE n + 1
    <3>1. (from \in E => to = from \/ to \notin E) /\ (from \notin E => to \notin E)
      BY <1>6
    <3>2. QED
      BY <1>4, <3>1, CountSwap
  <2>3. QED
    BY <1>7, <2>1, <2>2
<1>9. p \in Nat /\ p <= n + 1
  BY <1>4, <1>8
<1>10. <<"valence", r.id>> \notin off => p = n + 1
  BY <1>1, <1>6, <1>8
<1>11. PICK q : q = Cardinality(FoldersIn(e, r.id))
  OBVIOUS
<1>12. ASSUME <<"folders", r.id>> \notin off PROVE q = m
  <2>1. CASE c[from].kind = "folder"
    <3>1. from \in F /\ (to = from \/ to \notin F)
      BY <1>1, <1>6, <1>12, <2>1
    <3>2. FoldersIn(e, r.id) = (F \ {from}) \cup {to}
      BY <1>1, <1>3, <2>1 DEF Moves
    <3>3. Cardinality((F \ {from}) \cup {to}) = IF from \in F THEN m ELSE m + 1
      <4>1. (from \in F => to = from \/ to \notin F) /\ (from \notin F => to \notin F)
        BY <3>1
      <4>2. QED
        BY <1>4, <4>1, CountSwap
    <3>4. QED
      BY <1>11, <3>1, <3>2, <3>3
  <2>2. CASE c[from].kind # "folder"
    <3>1. FoldersIn(e, r.id) = (F \ {from}) \cup {}
      BY <1>1, <1>3, <2>2 DEF Moves
    <3>2. from \notin F
      BY <1>6, <2>2
    <3>3. FoldersIn(e, r.id) = F
      BY <3>1, <3>2
    <3>4. QED
      BY <1>4, <1>11, <3>3
  <2>3. QED
    BY <2>1, <2>2
<1>13. /\ FineRec(dst) /\ dst.id = r.id /\ dst.kind = r.kind /\ Right(dst, p, q, off)
  <2>1. FineRec(r) /\ r.valence < MaxValence /\ Grown(r, dst)
    BY <1>1 DEF Grown
  <2>2. Grows(r, n, m, p, q, off)
    BY <1>9, <1>10, <1>12 DEF Grows
  <2>3. QED
    BY <1>4, <1>5, <1>9, <2>1, <2>2, GrowRight
<1>14. QED
  BY <1>1, <1>7, <1>11, <1>13 DEF RightAt

(* The same at a name that is taken.                                       *)
LEMMA TakenRight ==
  ASSUME NEW c, NEW dr, NEW next, ExactBut(c, dr, next, {}),
         NEW from \in RecordKeys(c), NEW to,
         NEW j \in RecordKeys(c), c[j].id = to[1],
         FineRec(c[j]), c[j].valence < MaxValence,
         NEW off, dr \subseteq off, <<"valence", to[1]>> \in off,
         c[from].kind = "folder" => <<"folders", to[1]>> \in off,
         NEW e, Loses(c, e, from),
         NEW dst, Grown(c[j], dst)
  PROVE  FineRec(dst) /\ dst.id = c[j].id /\ dst.kind = c[j].kind /\ RightAt(e, dst, off)
<1>1. PICK r : r = c[j]
  OBVIOUS
<1>2. RightIn(c, dr, j) /\ IsFiniteSet(DOMAIN c)
  BY DEF ExactBut
<1>3. PICK E, F : E = EntriesIn(c, r.id) /\ F = FoldersIn(c, r.id)
  OBVIOUS
<1>4. PICK n \in Nat, m \in Nat : /\ n = Cardinality(E) /\ m = Cardinality(F)
                                  /\ IsFiniteSet(E) /\ IsFiniteSet(F)
  BY <1>2, <1>3, EntriesNumber
<1>5. Right(r, n, m, dr)
  BY <1>1, <1>2, <1>3, <1>4 DEF RightIn
<1>6. /\ EntriesIn(e, r.id) = E \ {from} /\ FoldersIn(e, r.id) = F \ {from}
  BY <1>3 DEF Loses
<1>7. PICK p \in Nat : p = Cardinality(EntriesIn(e, r.id)) /\ p <= n
  BY <1>4, <1>6, CountOut
<1>8. PICK q : q = Cardinality(FoldersIn(e, r.id))
  OBVIOUS
<1>9. ASSUME <<"folders", r.id>> \notin off PROVE q = m
  <2>1. c[from].kind # "folder"
    BY <1>1, <1>9
  <2>2. from \notin F
    BY <1>3, <2>1 DEF FoldersIn
  <2>3. F \ {from} = F
    BY <2>2
  <2>4. QED
    BY <1>4, <1>6, <1>8, <2>3
<1>10. /\ FineRec(dst) /\ dst.id = r.id /\ dst.kind = r.kind /\ Right(dst, p, q, off)
  <2>1. FineRec(r) /\ r.valence < MaxValence /\ Grown(r, dst)
    BY <1>1 DEF Grown
  <2>2. p <= n + 1 /\ <<"valence", r.id>> \in off /\ p \in Nat /\ n \in Nat
    BY <1>1, <1>4, <1>7
  <2>3. Grows(r, n, m, p, q, off)
    BY <1>9, <2>2 DEF Grows
  <2>4. QED
    BY <1>5, <2>1, <2>2, <2>3, GrowRight
<1>11. QED
  BY <1>1, <1>7, <1>8, <1>10 DEF RightAt

(* The entry at `from` loses its record to what is at `to`.                *)
TakenAt(c, from, to) == from # to /\ to \in DOMAIN c

Losing(c, gone, more, from, to) ==
  more = IF TakenAt(c, from, to) THEN gone \cup {c[from].id} ELSE gone

(* A record and its thread go and come.                                    *)
Arrived(c, ats, e, from, to, more, next) ==
  /\ After(State(c, ats), Relocation(c[from], from, to)) = State(e, ats)
  /\ Tidy(e, more, next) /\ Placed(Cleared(c, from, c[from].id), e, to, c[from])

LEMMA MoveArrives ==
  ASSUME NEW c, NEW gone, NEW next \in Nat, Tidy(c, gone, next),
         NEW from \in RecordKeys(c), from # RootKey,
         NEW to \in Keys, ~IsThread(to),
         NEW more, Losing(c, gone, more, from, to), NEW ats
  PROVE  \E e : Arrived(c, ats, e, from, to, more, next)
<1>1. PICK rec \in RecTypes : rec = c[from]
  BY TidyNamed
<1>2. rec.id \in Nat \ {NoFolder} /\ rec.id < next /\ rec.id \notin gone
  BY <1>1, TidyIds, TidyNamed
<1>3. PICK d : d = Cleared(c, from, rec.id)
  OBVIOUS
<1>4. /\ Tidy(d, gone, next)
      /\ \A l \in RecordKeys(d) : d[l].id # rec.id
  <2>1. d = Cleared(c, from, c[from].id)
    BY <1>1, <1>3
  <2>2. Tidy(d, gone, next) /\ \A l \in RecordKeys(d) : d[l].id # c[from].id
    BY <2>1, TidyClear
  <2>3. QED
    BY <1>1, <2>2
<1>5. Tidy(d, more, next)
  <2>1. gone \subseteq more
    BY DEF Losing
  <2>2. \A l \in RecordKeys(d) : d[l].id \notin more
    <3>1. \A l \in RecordKeys(d) : d[l].id \notin gone
      BY <1>4, TidyNamed
    <3>2. more \subseteq gone \cup {rec.id}
      BY <1>1 DEF Losing
    <3>3. QED
      BY <1>4, <3>1, <3>2
  <2>3. next <= next
    OBVIOUS
  <2>4. QED
    BY <1>4, <2>1, <2>2, <2>3, TidyWiden
<1>6. DOMAIN d = DOMAIN c \ {from, ThreadKey(rec.id)}
  BY <1>3, ClearedDomain
<1>7. ThreadKey(rec.id) \notin DOMAIN d /\ ThreadKey(rec.id) # to
  BY <1>6, ThreadKeyParts
<1>8. to \in DOMAIN d <=> rec.id \in more
  <2>1. to \in DOMAIN d <=> TakenAt(c, from, to)
    BY <1>6, <1>7 DEF TakenAt
  <2>2. QED
    BY <1>1, <1>2, <2>1 DEF Losing
<1>9. PICK e : /\ Done(Done(State(d, ats), Put(to, rec)),
                       Put(ThreadKey(rec.id), Thread(rec.kind, to))) = State(e, ats)
               /\ Tidy(e, more, next) /\ Placed(d, e, to, rec)
  BY <1>1, <1>2, <1>5, <1>7, <1>8, PlaceDone
<1>10. PICK st, w, x, y, z : /\ st = State(c, ats) /\ w = Drop(from)
                             /\ x = Drop(ThreadKey(rec.id)) /\ y = Put(to, rec)
                             /\ z = Put(ThreadKey(rec.id), Thread(rec.kind, to))
  OBVIOUS
<1>11. After(st, <<w, x, y, z>>) = Done(Done(Done(Done(st, w), x), y), z)
  BY AfterFour
<1>12. Done(Done(st, w), x) = State(d, ats)
  <2>1. PICK g : g = Without(c, from)
    OBVIOUS
  <2>2. Done(st, w) = State(g, ats)
    BY <1>10, <2>1, DropDone
  <2>3. Done(State(g, ats), x) = State(d, ats)
    BY <1>3, <1>10, <2>1, DropDone DEF Cleared
  <2>4. QED
    BY <2>2, <2>3
<1>13. Relocation(rec, from, to) = <<w, x, y, z>>
  BY <1>10 DEF Relocation
<1>14. After(st, Relocation(rec, from, to)) = State(e, ats)
  BY <1>9, <1>10, <1>11, <1>12, <1>13
<1>15. QED
  BY <1>1, <1>3, <1>9, <1>10, <1>14 DEF Arrived

(* More folders that may count wrong.                                      *)
LEMMA OffMore ==
  ASSUME NEW c, NEW dr, NEW next, NEW S, ExactBut(c, dr, next, S), NEW off, dr \subseteq off
  PROVE  ExactBut(c, off, next, S)
<1>1. \A l : RightIn(c, dr, l) => RightIn(c, off, l)
  BY RightMore DEF RightIn
<1>2. QED
  BY <1>1 DEF ExactBut

(* Two records are written again, which may be one.                        *)
LEMMA RedoneTwice ==
  ASSUME NEW e, NEW g, NEW f, NEW k \in RecordKeys(e), NEW r, Redone(e, g, k, r),
         NEW s, Redone(g, f, k, s)
  PROVE  Redone(e, f, k, s)
  BY DEF Redone

Wrote(e, ats, f, src, dst, more, next, off) ==
  /\ Done(Done(State(e, ats), Update(src)), Update(dst)) = State(f, ats)
  /\ Tidy(f, more, next) /\ ExactBut(f, off, next, {}) /\ Alike(e, f)

LEMMA TwoWritten ==
  ASSUME NEW e, NEW more, NEW next, Tidy(e, more, next),
         NEW i \in RecordKeys(e), NEW j \in RecordKeys(e),
         NEW off, ExactBut(e, off, next, {i, j}),
         NEW src \in RecTypes, src.id = e[i].id, src.kind = e[i].kind,
         NEW dst \in RecTypes, dst.id = e[j].id, dst.kind = e[j].kind,
         i # j => RightAt(e, src, off), RightAt(e, dst, off), NEW ats
  PROVE  \E f : Wrote(e, ats, f, src, dst, more, next, off)
<1>1. PICK g : /\ Done(State(e, ats), Update(src)) = State(g, ats)
               /\ Tidy(g, more, next) /\ Redone(e, g, i, src)
  BY UpdateDone
<1>2. Alike(e, g) /\ RecordKeys(g) = RecordKeys(e)
  BY <1>1, RedoneAlike
<1>3. j \in RecordKeys(g) /\ dst.id = g[j].id /\ dst.kind = g[j].kind
  BY <1>2 DEF Alike
<1>4. PICK f : /\ Done(State(g, ats), Update(dst)) = State(f, ats)
               /\ Tidy(f, more, next) /\ Redone(g, f, j, dst)
  BY <1>1, <1>3, UpdateDone
<1>5. Alike(g, f)
  BY <1>3, <1>4, RedoneAlike
<1>6. Alike(e, f)
  BY <1>2, <1>5 DEF Alike
<1>7. Right(dst, Cardinality(EntriesIn(e, dst.id)), Cardinality(FoldersIn(e, dst.id)), off)
  BY DEF RightAt
<1>8. PICK S : S = {i, j}
  OBVIOUS
<1>9. ExactBut(e, off, next, S)
  BY <1>8
<1>10. ExactBut(f, off, next, {})
  <2>1. CASE i = j
    <3>1. Redone(e, f, j, dst)
      BY <1>1, <1>4, <2>1, RedoneTwice
    <3>2. ExactBut(f, off, next, S \ {j})
      BY <1>7, <1>9, <3>1, RedoneExact
    <3>3. S \ {j} = {}
      BY <1>8, <2>1
    <3>4. QED
      BY <3>2, <3>3
  <2>2. CASE i # j
    <3>1. Right(src, Cardinality(EntriesIn(e, src.id)), Cardinality(FoldersIn(e, src.id)), off)
      BY <2>2 DEF RightAt
    <3>2. ExactBut(g, off, next, S \ {i})
      BY <1>1, <1>9, <3>1, RedoneExact
    <3>3. /\ EntriesIn(g, dst.id) = EntriesIn(e, dst.id)
          /\ FoldersIn(g, dst.id) = FoldersIn(e, dst.id)
      BY <1>2, AlikeEntries
    <3>4. PICK T : T = S \ {i}
      OBVIOUS
    <3>5. Right(dst, Cardinality(EntriesIn(g, dst.id)), Cardinality(FoldersIn(g, dst.id)), off)
      BY <1>7, <3>3
    <3>6. ExactBut(f, off, next, T \ {j})
      BY <1>3, <1>4, <3>2, <3>4, <3>5, RedoneExact
    <3>7. T \ {j} = {}
      BY <1>8, <3>4
    <3>8. QED
      BY <3>6, <3>7
  <2>3. QED
    BY <2>1, <2>2
<1>11. QED
  BY <1>1, <1>4, <1>6, <1>10 DEF Wrote

Shrunk(r, src) == src = [r EXCEPT !.valence = Down(@)]

Misses(off, c, from, to) ==
  Miscounted(c[from], from, to, TakenAt(c, from, to)) \subseteq off

(* The two folders of a move, with the records that they will have.        *)
Moving(c, e, i, j, src, dst, next, off) ==
  /\ ExactBut(e, off, next, {i, j}) /\ (i # j => RightAt(e, src, off)) /\ RightAt(e, dst, off)
  /\ FineRec(src) /\ src.id = e[i].id /\ src.kind = e[i].kind /\ i \in RecordKeys(e)
  /\ FineRec(dst) /\ dst.id = e[j].id /\ dst.kind = e[j].kind /\ j \in RecordKeys(e)

LEMMA TakenIs ==
  ASSUME NEW c, NEW from, NEW to, ~IsThread(to), NEW id
  PROVE  to \in DOMAIN Cleared(c, from, id) <=> TakenAt(c, from, to)
<1>1. DOMAIN Cleared(c, from, id) = DOMAIN c \ {from, ThreadKey(id)}
  BY ClearedDomain
<1>2. to # ThreadKey(id)
  BY ThreadKeyParts
<1>3. QED
  BY <1>1, <1>2 DEF TakenAt

LEMMA MoveRight ==
  ASSUME NEW c, NEW gone, NEW next \in Nat, Tidy(c, gone, next),
         NEW dr, ExactBut(c, dr, next, {}),
         NEW from \in RecordKeys(c), from # RootKey, NEW to \in Keys, ~IsThread(to),
         NEW i \in RecordKeys(c), i # from, c[i].id = from[1], FineRec(c[i]),
         NEW j \in RecordKeys(c), j # from, c[j].id = to[1], FineRec(c[j]),
         c[j].valence < MaxValence,
         NEW ats, NEW more, NEW e, Arrived(c, ats, e, from, to, more, next),
         NEW off, dr \subseteq off, Misses(off, c, from, to),
         NEW src, Shrunk(c[i], src), NEW dst, Grown(c[j], dst)
  PROVE  Moving(c, e, i, j, src, dst, next, off)
<1>1. PICK d : d = Cleared(c, from, c[from].id)
  OBVIOUS
<1>2. Placed(d, e, to, c[from])
  BY <1>1 DEF Arrived
<1>3. /\ i \in RecordKeys(d) /\ d[i] = c[i] /\ j \in RecordKeys(d) /\ d[j] = c[j]
  BY <1>1, TidyClear
<1>4. /\ i \in RecordKeys(e) /\ e[i] = c[i] /\ j \in RecordKeys(e) /\ e[j] = c[j]
  BY <1>2, <1>3, RecordKeysOf DEF Placed
<1>5. i = j <=> from[1] = to[1]
  BY TidyOne
<1>6. /\ from[1] = to[1] \/ TakenAt(c, from, to) => <<"valence", to[1]>> \in off
      /\ c[from].kind = "folder" /\ (from[1] # to[1] \/ TakenAt(c, from, to)) =>
           <<"folders", from[1]>> \in off /\ <<"folders", to[1]>> \in off
  BY DEF Misses, Miscounted
<1>7. src = [c[i] EXCEPT !.valence = Down(@)]
  BY DEF Shrunk
<1>8. FineRec(src) /\ src.id = c[i].id /\ src.kind = c[i].kind
  <2>1. PICK any : any = off \cup {<<"folders", c[i].id>>}
    OBVIOUS
  <2>2. dr \subseteq any /\ <<"folders", c[i].id>> \in any
    BY <2>1
  <2>3. QED
    BY <1>7, <2>2, LeaveRight
<1>9. ASSUME i # j PROVE RightBut(c, src, from, off)
  <2>1. c[from].kind = "folder" => <<"folders", c[i].id>> \in off
    BY <1>5, <1>6, <1>9
  <2>2. QED
    BY <1>7, <2>1, LeaveRight
<1>10. to \in DOMAIN d <=> TakenAt(c, from, to)
  BY <1>1, TakenIs
<1>11. CASE TakenAt(c, from, to)
  <2>1. ExactBut(e, dr, next, {i, j}) /\ Loses(c, e, from)
    BY <1>1, <1>2, <1>10, <1>11, TakenArrives
  <2>2. FineRec(dst) /\ dst.id = c[j].id /\ dst.kind = c[j].kind /\ RightAt(e, dst, off)
    <3>1. <<"valence", to[1]>> \in off /\ (c[from].kind = "folder" => <<"folders", to[1]>> \in off)
      BY <1>6, <1>11
    <3>2. QED
      BY <2>1, <3>1, TakenRight
  <2>3. ASSUME i # j PROVE RightAt(e, src, off)
    <3>1. /\ EntriesIn(e, src.id) = EntriesIn(c, src.id) \ {from}
          /\ FoldersIn(e, src.id) = FoldersIn(c, src.id) \ {from}
      BY <2>1 DEF Loses
    <3>2. QED
      BY <1>9, <2>3, <3>1 DEF RightAt, RightBut
  <2>4. ExactBut(e, off, next, {i, j})
    BY <1>2, <2>1, OffMore
  <2>5. QED
    BY <1>4, <1>8, <2>2, <2>3, <2>4 DEF Moving
<1>12. CASE ~TakenAt(c, from, to)
  <2>1. ExactBut(e, dr, next, {i, j}) /\ Moves(c, e, from, to, c[from].kind)
    <3>1. to \notin DOMAIN d /\ d = Cleared(c, from, c[from].id)
      BY <1>1, <1>10, <1>12
    <3>2. Comes(c, e, from, to, i, j, dr, next)
      BY <1>2, <3>1, ArriveExact
    <3>3. QED
      BY <3>2 DEF Comes
  <2>2. FineRec(dst) /\ dst.id = c[j].id /\ dst.kind = c[j].kind /\ RightAt(e, dst, off)
    <3>1. /\ to = from \/ to \notin DOMAIN c
          /\ from[1] = to[1] => <<"valence", to[1]>> \in off
          /\ c[from].kind = "folder" /\ from[1] # to[1] => <<"folders", to[1]>> \in off
      BY <1>6, <1>12 DEF TakenAt
    <3>2. QED
      BY <2>1, <3>1, FreeRight
  <2>3. ASSUME i # j PROVE RightAt(e, src, off)
    <3>1. src.id # to[1]
      BY <1>5, <1>8, <2>3
    <3>2. /\ EntriesIn(e, src.id) = EntriesIn(c, src.id) \ {from}
          /\ FoldersIn(e, src.id) = FoldersIn(c, src.id) \ {from}
      BY <2>1, <3>1 DEF Moves
    <3>3. QED
      BY <1>9, <2>3, <3>2 DEF RightAt, RightBut
  <2>4. ExactBut(e, off, next, {i, j})
    BY <1>2, <2>1, OffMore
  <2>5. QED
    BY <1>4, <1>8, <2>2, <2>3, <2>4 DEF Moving
<1>13. QED
  BY <1>11, <1>12

(* What is moved stays what it is, also where it is lost.                  *)
LEMMA MoveKinds ==
  ASSUME NEW c, NEW gone, NEW next, Tidy(c, gone, next),
         NEW from \in RecordKeys(c), from # RootKey, NEW to, ~IsThread(to),
         NEW ats, NEW more, NEW e, Arrived(c, ats, e, from, to, more, next),
         NEW f, Alike(e, f), NEW kind, NEW ls, NEW ms,
         ms = IF TakenAt(c, from, to)
              THEN ls \cup {[id |-> c[from].id, kind |-> c[from].kind]} ELSE ls
  PROVE  AllOf(f, ms, kind) = AllOf(c, ls, kind)
<1>1. PICK d, id, k : d = Cleared(c, from, c[from].id) /\ id = c[from].id /\ k = c[from].kind
  OBVIOUS
<1>2. PICK rec : rec = c[from]
  OBVIOUS
<1>3. Placed(d, e, to, rec)
  BY <1>1, <1>2 DEF Arrived
<1>4. to \in DOMAIN d <=> TakenAt(c, from, to)
  BY <1>1, TakenIs
<1>5. /\ OfKind(d, kind) = OfKind(c, kind) \ {id}
      /\ id \in OfKind(c, kind) <=> k = kind
  BY <1>1, ClearKinds
<1>6. OfKind(f, kind) = OfKind(e, kind)
  BY AlikeEntries
<1>7. OfKind(e, kind) =
        OfKind(d, kind) \cup IF to \notin DOMAIN d /\ rec.kind = kind THEN {rec.id} ELSE {}
  BY <1>3, PlaceKinds
<1>8. CASE TakenAt(c, from, to)
  <2>1. OfKind(f, kind) = OfKind(c, kind) \ {id}
    BY <1>4, <1>5, <1>6, <1>7, <1>8
  <2>2. ms = ls \cup {[id |-> id, kind |-> k]}
    BY <1>1, <1>8
  <2>3. LostOf(ls \cup {[id |-> id, kind |-> k]}, kind) = LostOf(ls, kind) \cup Of(k, kind, id)
    BY LostMore
  <2>4. QED
    BY <1>5, <2>1, <2>2, <2>3 DEF AllOf, Of
<1>9. CASE ~TakenAt(c, from, to)
  <2>1. OfKind(f, kind) = OfKind(c, kind)
    BY <1>1, <1>2, <1>4, <1>5, <1>6, <1>7, <1>9
  <2>2. ms = ls
    BY <1>9
  <2>3. QED
    BY <2>1, <2>2 DEF AllOf
<1>10. QED
  BY <1>8, <1>9

(* The catalog f that a move leaves of c, with the records src and dst of  *)
(* the two folders.                                                        *)
MovedBy(c, ats, f, from, to, src, dst, more, next, off) ==
  /\ After(State(c, ats), Relocation(c[from], from, to) \o <<Update(src), Update(dst)>>) =
       State(f, ats)
  /\ Tidy(f, more, next) /\ ExactBut(f, off, next, {})
  /\ FineRec(src) /\ FineRec(dst)
  /\ \E e : Arrived(c, ats, e, from, to, more, next) /\ Alike(e, f)

LEMMA MoveDone ==
  ASSUME NEW c, NEW gone, NEW next \in Nat, Tidy(c, gone, next),
         NEW dr, ExactBut(c, dr, next, {}),
         NEW from \in RecordKeys(c), from # RootKey, NEW to \in Keys, ~IsThread(to),
         NEW i \in RecordKeys(c), i # from, c[i].id = from[1], FineRec(c[i]),
         NEW j \in RecordKeys(c), j # from, c[j].id = to[1], FineRec(c[j]),
         c[j].valence < MaxValence,
         NEW ats, NEW more, Losing(c, gone, more, from, to),
         NEW off, dr \subseteq off, Misses(off, c, from, to),
         NEW src \in RecTypes, Shrunk(c[i], src), NEW dst \in RecTypes, Grown(c[j], dst)
  PROVE  \E f : MovedBy(c, ats, f, from, to, src, dst, more, next, off)
<1>1. PICK e : Arrived(c, ats, e, from, to, more, next)
  BY MoveArrives
<1>2. Moving(c, e, i, j, src, dst, next, off)
  BY <1>1, MoveRight
<1>3. /\ ExactBut(e, off, next, {i, j}) /\ (i # j => RightAt(e, src, off)) /\ RightAt(e, dst, off)
      /\ FineRec(src) /\ src.id = e[i].id /\ src.kind = e[i].kind /\ i \in RecordKeys(e)
      /\ FineRec(dst) /\ dst.id = e[j].id /\ dst.kind = e[j].kind /\ j \in RecordKeys(e)
  BY <1>2 DEF Moving
<1>4. Tidy(e, more, next)
  BY <1>1 DEF Arrived
<1>5. PICK f : Wrote(e, ats, f, src, dst, more, next, off)
  BY <1>3, <1>4, TwoWritten
<1>6. PICK st, t, v, w : /\ st = State(c, ats) /\ t = Relocation(c[from], from, to)
                         /\ v = Update(src) /\ w = Update(dst)
  OBVIOUS
<1>7. After(st, t) = State(e, ats)
  BY <1>1, <1>6 DEF Arrived
<1>8. After(st, t \o <<v, w>>) = State(f, ats)
  <2>1. Listed(t) /\ Listed(<<v, w>>)
    BY <1>6, ListedFour, ListedTwo DEF Relocation
  <2>2. PICK u : u = <<v, w>>
    OBVIOUS
  <2>3. After(st, t \o u) = After(After(st, t), u)
    BY <2>1, <2>2, AfterJoin
  <2>4. PICK sv : sv = State(e, ats)
    OBVIOUS
  <2>5. After(sv, <<v, w>>) = Done(Done(sv, v), w)
    BY AfterTwo
  <2>6. QED
    BY <1>5, <1>6, <1>7, <2>2, <2>3, <2>4, <2>5 DEF Wrote
<1>9. QED
  BY <1>1, <1>3, <1>5, <1>6, <1>8 DEF MovedBy, Wrote

LEMMA RelocationQuiet ==
  ASSUME NEW rec, FineRec(rec), NEW from, NEW to \in Keys, ~IsThread(to),
         NEW src, FineRec(src), NEW dst, FineRec(dst)
  PROVE  AllQuiet(Relocation(rec, from, to) \o <<Update(src), Update(dst)>>)
<1>1. Quiet(Drop(from)) /\ Quiet(Drop(ThreadKey(rec.id)))
  BY QuietDrop
<1>2. Quiet(Put(to, rec))
  BY QuietPut DEF FineEntry
<1>3. Quiet(Put(ThreadKey(rec.id), Thread(rec.kind, to)))
  <2>1. PICK tk, th : tk = ThreadKey(rec.id) /\ th = Thread(rec.kind, to)
    OBVIOUS
  <2>2. PICK kind \in {"file", "folder"} : kind = rec.kind
    BY FineParts
  <2>3. IsThread(tk) /\ FineThread(Thread(kind, to))
    BY <2>1, <2>2, ThreadKeyParts, ThreadFine
  <2>4. FineEntry(tk, th)
    BY <2>1, <2>2, <2>3 DEF FineEntry
  <2>5. QED
    BY <2>1, <2>4, QuietPut
<1>4. Quiet(Update(src)) /\ Quiet(Update(dst))
  BY QuietUpdate
<1>5. AllQuiet(Relocation(rec, from, to))
  BY <1>1, <1>2, <1>3, QuietFour DEF Relocation
<1>6. AllQuiet(<<Update(src), Update(dst)>>)
  BY <1>4, QuietTwo
<1>7. QED
  BY <1>5, <1>6, QuietJoin

LEMMA CountsMove ==
  ASSUME IInv, CountInv, NEW source \in Paths, NEW dest \in Paths, Move(source, dest)
  PROVE  CountInv'
<1>1. PICK from, to : from = KeyAt(cat, source) /\ to = KeyAt(cat, dest)
  OBVIOUS
<1>2. PICK rec : rec = cat[from]
  OBVIOUS
<1>3. PICK src : src = [RecordById(cat, from[1]) EXCEPT !.valence = Down(@)]
  OBVIOUS
<1>4. PICK dst : dst = [RecordById(cat, to[1]) EXCEPT !.valence = Up(@)]
  OBVIOUS
<1>5. /\ Idle /\ Found(cat, source) /\ FolderAt(cat, Front(dest)) # NoFolder
      /\ ~IsStrictPrefix(source, dest) /\ RecordById(cat, to[1]).valence < MaxValence
      /\ todo' = Relocation(rec, from, to) \o <<Update(src), Update(dst)>>
      /\ cat' = cat /\ attrs' = attrs /\ hdr' = hdr /\ status' = status /\ disk' = disk
      /\ drift' = drift \cup Miscounted(rec, from, to, from # to /\ Found(cat, dest))
      /\ lost' = lost \cup IF from # to /\ Found(cat, dest)
                           THEN {[id |-> rec.id, kind |-> rec.kind]} ELSE {}
  BY <1>1, <1>2, <1>3, <1>4 DEF Move
<1>6. Tidy(cat, LostIds, hdr.next) /\ hdr.next \in Nat
  BY <1>5, IdleTidy
<1>7. from \in RecordKeys(cat) /\ from # RootKey
  BY <1>1, <1>5, <1>6, FoundParts
<1>8. PICK i \in RecordKeys(cat) :
        RecordById(cat, from[1]) = cat[i] /\ cat[i] \in RecTypes /\ i # from
  BY <1>1, <1>5, <1>6, FoundParts
<1>9. cat[i].id = from[1]
  <2>1. FolderAt(cat, Front(source)) # NoFolder /\ from[1] = FolderAt(cat, Front(source))
    BY <1>1, <1>5, <1>6, FoundParts
  <2>2. Front(source) \in Seq(Names)
    BY PathSeq, FrontParts
  <2>3. PICK k \in RecordKeys(cat) : RecordById(cat, from[1]) = cat[k] /\ cat[k].id = from[1]
    BY <1>6, <2>1, <2>2, FolderRecord
  <2>4. QED
    BY <1>8, <2>3
<1>10. to \in Keys /\ ~IsThread(to)
  BY <1>1, <1>5, <1>6, KeyAtKey
<1>11. to[1] = FolderAt(cat, Front(dest))
  BY <1>1, PathSeq, KeyAtParts
<1>12. PICK j \in RecordKeys(cat) :
         RecordById(cat, to[1]) = cat[j] /\ cat[j] \in RecTypes /\ j # from
  BY <1>1, <1>5, <1>6, <1>11, OutsideItself
<1>13. cat[j].id = to[1] /\ cat[j].valence < MaxValence
  <2>1. Front(dest) \in Seq(Names)
    BY PathSeq, FrontParts
  <2>2. PICK k \in RecordKeys(cat) : RecordById(cat, to[1]) = cat[k] /\ cat[k].id = to[1]
    BY <1>5, <1>6, <1>11, <2>1, FolderRecord
  <2>3. QED
    BY <1>5, <1>12, <2>2
<1>14. /\ FineRec(cat[i]) /\ FineRec(cat[j]) /\ FineRec(rec)
  BY <1>2, <1>7, <1>8, <1>12, RecordKeysOf DEF CountInv, Fine, FineCat, FineEntry
<1>15. src \in RecTypes /\ Shrunk(cat[i], src)
  <2>1. PICK n \in Nat : n = Down(cat[i].valence)
    BY <1>8, RecordParts, CountsTyped
  <2>2. src = [cat[i] EXCEPT !.valence = n]
    BY <1>3, <1>8, <2>1
  <2>3. QED
    BY <1>3, <1>8, <2>1, <2>2, ValenceTyped DEF Shrunk
<1>16. dst \in RecTypes /\ Grown(cat[j], dst)
  <2>1. PICK n \in Nat : n = Up(cat[j].valence)
    BY <1>12, RecordParts, CountsTyped
  <2>2. dst = [cat[j] EXCEPT !.valence = n]
    BY <1>4, <1>12, <2>1
  <2>3. QED
    BY <1>4, <1>12, <2>1, <2>2, ValenceTyped DEF Grown
<1>17. TakenAt(cat, from, to) <=> from # to /\ Found(cat, dest)
  BY <1>1 DEF TakenAt, Found
<1>18. /\ ExactBut(cat, drift, hdr.next, {}) /\ disk = hdr
       /\ hdr.files = Cardinality(AllOf(cat, lost, "file"))
       /\ hdr.folders + 1 = Cardinality(AllOf(cat, lost, "folder"))
       /\ hdr.files \in Nat /\ hdr.folders \in Nat
  BY <1>5, IdleCounts
<1>19. PICK off : off = drift'
  OBVIOUS
<1>20. drift \subseteq off /\ Misses(off, cat, from, to)
  <2>1. CASE TakenAt(cat, from, to)
    <3>1. off = drift \cup Miscounted(rec, from, to, TRUE)
      BY <1>5, <1>17, <1>19, <2>1
    <3>2. QED
      BY <1>2, <2>1, <3>1 DEF Misses, Miscounted
  <2>2. CASE ~TakenAt(cat, from, to)
    <3>1. off = drift \cup Miscounted(rec, from, to, FALSE)
      BY <1>5, <1>17, <1>19, <2>2
    <3>2. QED
      BY <1>2, <2>2, <3>1 DEF Misses, Miscounted
  <2>3. QED
    BY <2>1, <2>2
<1>21. PICK more : more = IF TakenAt(cat, from, to) THEN LostIds \cup {rec.id} ELSE LostIds
  OBVIOUS
<1>22. LostIds' = more /\ Losing(cat, LostIds, more, from, to)
  <2>1. CASE TakenAt(cat, from, to)
    <3>1. lost' = lost \cup {[id |-> rec.id, kind |-> rec.kind]}
      BY <1>5, <1>17, <2>1
    <3>2. LostIds' = LostIds \cup {rec.id}
      BY <3>1, LostOne
    <3>3. QED
      BY <1>2, <1>21, <2>1, <3>2 DEF Losing
  <2>2. CASE ~TakenAt(cat, from, to)
    <3>1. lost' = lost
      BY <1>5, <1>17, <2>2
    <3>2. LostIds' = LostIds
      BY <3>1, LostNone
    <3>3. QED
      BY <1>21, <2>2, <3>2 DEF Losing
  <2>3. QED
    BY <2>1, <2>2
<1>23. \E f : MovedBy(cat, attrs, f, from, to, src, dst, more, hdr.next, off)
  BY <1>6, <1>7, <1>8, <1>9, <1>10, <1>12, <1>13, <1>14, <1>15, <1>16, <1>18, <1>20, <1>22,
     MoveDone
<1>24. PICK f : MovedBy(cat, attrs, f, from, to, src, dst, more, hdr.next, off)
  BY <1>23
<1>25. /\ After(State(cat, attrs), todo') = State(f, attrs)
       /\ Tidy(f, LostIds', hdr'.next) /\ ExactBut(f, drift', hdr'.next, {})
       /\ FineRec(src) /\ FineRec(dst)
  BY <1>2, <1>5, <1>19, <1>22, <1>24 DEF MovedBy
<1>26. PICK e : Arrived(cat, attrs, e, from, to, more, hdr.next) /\ Alike(e, f)
  BY <1>24 DEF MovedBy
<1>27. ASSUME NEW kind PROVE AllOf(f, lost', kind) = AllOf(cat, lost, kind)
  <2>1. PICK ms : ms = IF TakenAt(cat, from, to)
                       THEN lost \cup {[id |-> cat[from].id, kind |-> cat[from].kind]} ELSE lost
    OBVIOUS
  <2>2. lost' = ms
    BY <1>2, <1>5, <1>17, <2>1
  <2>3. AllOf(f, ms, kind) = AllOf(cat, lost, kind)
    BY <1>6, <1>7, <1>10, <1>26, <2>1, MoveKinds
  <2>4. QED
    BY <2>2, <2>3
<1>28. PICK u : u = todo'
  OBVIOUS
<1>29. AllQuiet(u)
  BY <1>5, <1>10, <1>14, <1>25, <1>28, RelocationQuiet
<1>30. /\ FineTodo(u) /\ Owing(u) = {} /\ OneOwing(u)
       /\ Owes(u, "file") = 0 /\ Owes(u, "folder") = 0
  BY <1>29, QuietMeans
<1>31. Stored'
  BY <1>5, <1>18, <1>28, <1>30 DEF Stored
<1>32. PICK a \in Nat, b \in Nat : hdr.files = a /\ hdr.folders = b
  BY <1>18
<1>33. /\ hdr'.files = Cardinality(AllOf(f, lost', "file")) + Owes(todo', "file")
       /\ hdr'.folders + 1 = Cardinality(AllOf(f, lost', "folder")) + Owes(todo', "folder")
  <2>1. /\ AllOf(f, lost', "file") = AllOf(cat, lost, "file")
        /\ AllOf(f, lost', "folder") = AllOf(cat, lost, "folder")
    BY <1>27
  <2>2. hdr' = hdr /\ Owes(todo', "file") = 0 /\ Owes(todo', "folder") = 0
    BY <1>5, <1>28, <1>30
  <2>3. a = a + 0 /\ b + 1 = (b + 1) + 0
    OBVIOUS
  <2>4. QED
    BY <1>18, <1>32, <2>1, <2>2, <2>3
<1>34. /\ IsFiniteSet(lost') /\ \A l \in lost' : l.kind \in {"file", "folder"}
  <2>1. IsFiniteSet(lost) /\ \A l \in lost : l.kind \in {"file", "folder"}
    BY DEF CountInv, Fine
  <2>2. PICK new : new = [id |-> rec.id, kind |-> rec.kind]
    OBVIOUS
  <2>3. new.kind \in {"file", "folder"}
    BY <1>14, <2>2, FineParts
  <2>4. IsFiniteSet(lost \cup {new})
    BY <2>1, FS_AddElement
  <2>5. lost' = lost \/ lost' = lost \cup {new}
    BY <1>5, <2>2
  <2>6. QED
    BY <2>1, <2>3, <2>4, <2>5
<1>35. FineHead(hdr') /\ FineTodo(todo') /\ OneOwing(todo')
  BY <1>5, <1>28, <1>30 DEF CountInv, Fine
<1>36. QED
  BY <1>5, <1>25, <1>31, <1>33, <1>34, <1>35, OperationCounts

-----------------------------------------------------------------------------
(* The counts, whatever the calls.                                         *)

LEMMA CountsOperation ==
  ASSUME IInv, CountInv, Operation
  PROVE  CountInv'
<1>1. PICK path \in Paths :
        \/ NewFolder(path) \/ AddNewFile(path) \/ AddToFile(path) \/ RemoveEntry(path)
        \/ \E info \in Infos : ChangeInfo(path, info)
        \/ \E dest \in Paths : Move(path, dest)
        \/ \E a \in AttrNames : SetAttribute(path, a)
  BY DEF Operation
<1>2. QED
  BY <1>1, CountsNewFolder, CountsAddNewFile, CountsAddToFile, CountsRemoveEntry,
     CountsChangeInfo, CountsMove, CountsSetAttribute

LEMMA CountsStutter ==
  ASSUME IInv, CountInv, UNCHANGED vars
  PROVE  CountInv'
<1>1. UNCHANGED <<cat, attrs, hdr, disk, todo, drift, lost>> /\ status' = status
  BY DEF vars
<1>2. status' \in {"running", "exited", "panic"}
  BY <1>1 DEF CountInv, Fine
<1>3. QED
  BY <1>1, <1>2, CountsStop

LEMMA RootFine ==
  /\ FineRec(RootRecord) /\ RootRecord.valence = 0 /\ RootRecord.folders = 0
  /\ FineThread(Thread("folder", RootKey))
<1>1. PICK i \in Infos : i = CHOOSE j \in Infos : TRUE
  BY BoundsAssumption
<1>2. 0 \in 0 .. MaxValence /\ 0 \in 0 .. CounterMod - 1
  BY BoundsAssumption
<1>3. PICK q : q = [kind |-> "folder", id |-> kHFSRootFolderID, valence |-> 0,
                    folders |-> 0, info |-> i]
  OBVIOUS
<1>4. /\ q \in [kind : {"file", "folder"}, id : Nat, valence : 0 .. MaxValence,
                folders : 0 .. CounterMod - 1, info : Infos]
      /\ q.valence = 0 /\ q.folders = 0 /\ q.id = kHFSRootFolderID
  BY <1>2, <1>3 DEF kHFSRootFolderID
<1>5. RootRecord = q
  BY <1>1, <1>3 DEF RootRecord
<1>6. FineThread(Thread("folder", RootKey))
  BY DEF FineThread, Thread, RootKey, kHFSRootParentID
<1>7. QED
  BY <1>4, <1>5, <1>6 DEF FineRec

LEMMA CountsBegin ==
  ASSUME Init
  PROVE  CountInv
<1>1. IInv /\ Idle
  BY Beginning DEF Init, Idle, Running
<1>2. Tidy(cat, LostIds, hdr.next)
  BY <1>1, IdleTidy
<1>3. PICK tk : tk = ThreadKey(kHFSRootFolderID)
  OBVIOUS
<1>4. IsThread(tk) /\ tk = <<kHFSRootFolderID, NoName>>
  BY <1>3, ThreadKeyParts DEF ThreadKey
<1>5. RootKey = <<kHFSRootParentID, Volume>> /\ ~IsThread(RootKey) /\ RootKey # tk
  BY <1>4, NamesAssumption DEF RootKey, IsThread
<1>6. /\ DOMAIN cat = {RootKey, tk}
      /\ cat[RootKey] = RootRecord /\ cat[tk] = Thread("folder", RootKey)
  BY <1>3, <1>4, <1>5 DEF Init
<1>7. RecordKeys(cat) = {RootKey}
  BY <1>4, <1>5, <1>6, RecordKeysOf
<1>8. /\ hdr = [next |-> FirstId, files |-> 0, folders |-> 0] /\ disk = hdr
      /\ attrs = {} /\ todo = <<>> /\ status = "running" /\ drift = {} /\ lost = {}
  BY DEF Init
<1>9. hdr.next = 16 /\ hdr.files = 0 /\ hdr.folders = 0
  BY <1>8 DEF FirstId
<1>10. FineHead(hdr)
  <2>1. FirstId \in FirstId .. MaxId + 1 /\ 0 <= FirstId - FirstId
    BY BoundsAssumption DEF FirstId
  <2>2. QED
    BY <1>8, <2>1 DEF FineHead
<1>11. FineCat(cat)
  BY <1>4, <1>5, <1>6, RootFine DEF FineCat, FineEntry
<1>12. /\ FineTodo(todo) /\ Owing(todo) = {} /\ OneOwing(todo)
       /\ Owes(todo, "file") = 0 /\ Owes(todo, "folder") = 0
  BY <1>8, QuietNone, QuietMeans
<1>13. Fine
  BY <1>8, <1>10, <1>11, <1>12, FS_EmptySet DEF Fine
<1>14. Stored
  BY <1>8, <1>12 DEF Stored
<1>15. Ahead.cat = cat
  BY <1>8, AheadIs, AfterNone, StateParts
<1>16. ExactBut(cat, drift, hdr.next, {})
  <2>1. IsFiniteSet(DOMAIN cat)
    <3>1. IsFiniteSet({RootKey})
      BY FS_Singleton
    <3>2. IsFiniteSet({RootKey} \cup {tk})
      BY <3>1, FS_AddElement
    <3>3. DOMAIN cat = {RootKey} \cup {tk}
      BY <1>6
    <3>4. QED
      BY <3>2, <3>3
  <2>2. RootKey[1] = 1 /\ RootRecord.id = 2
    BY <1>5, RootTyped DEF kHFSRootParentID, kHFSRootFolderID
  <2>3. EntriesIn(cat, RootRecord.id) = {} /\ FoldersIn(cat, RootRecord.id) = {}
    BY <1>7, <2>2 DEF EntriesIn, FoldersIn
  <2>4. Right(RootRecord, 0, 0, drift)
    BY RootFine DEF Right
  <2>5. RightIn(cat, drift, RootKey)
    BY <1>6, <2>3, <2>4, FS_EmptySet DEF RightIn
  <2>6. QED
    BY <1>7, <1>9, <2>1, <2>2, <2>5 DEF ExactBut
<1>17. Tallied(cat, todo)
  <2>1. LostOf(lost, "file") = {} /\ LostOf(lost, "folder") = {}
    BY <1>8 DEF LostOf
  <2>2. OfKind(cat, "file") = {} /\ OfKind(cat, "folder") = {kHFSRootFolderID}
    BY <1>6, <1>7, RootTyped DEF OfKind
  <2>3. AllOf(cat, lost, "file") = {} /\ AllOf(cat, lost, "folder") = {kHFSRootFolderID}
    BY <2>1, <2>2 DEF AllOf
  <2>4. Cardinality({}) = 0 /\ Cardinality({kHFSRootFolderID}) = 1
    BY FS_EmptySet, FS_Singleton
  <2>5. QED
    BY <1>9, <1>12, <2>3, <2>4 DEF Tallied
<1>18. QED
  BY <1>2, <1>13, <1>14, <1>15, <1>16, <1>17 DEF CountInv

(* Wherever a call stops, the rest of its writes would make every valence, *)
(* folderCount and counter of the header that no call has miscounted what  *)
(* it counts, and the header that is saved last is the one in memory:      *)
(* newFolder, newFile, move, removeFile and updateCatalog of catalog.c.    *)
THEOREM CountsInductive == Spec => []CountInv
<1>1. Init => CountInv
  BY CountsBegin
<1>2. IInv /\ CountInv /\ [Next]_vars => CountInv'
  BY CountsOperation, WriteCounts, CountsStutter DEF Next, Over
<1>3. Spec => []IInv
  BY CatalogInductive
<1>4. QED
  BY <1>1, <1>2, <1>3, PTL DEF Spec

LEMMA HeadTyped ==
  ASSUME NEW h, FineHead(h)
  PROVE  h \in [next : FirstId .. MaxId + 1, files : 0 .. MaxId, folders : 0 .. MaxId]
<1>1. /\ h \in [next : FirstId .. MaxId + 1, files : Nat, folders : Nat]
      /\ h.files <= h.next - FirstId /\ h.folders <= h.next - FirstId
  BY DEF FineHead
<1>2. PICK n \in FirstId .. MaxId + 1, x \in Nat, y \in Nat :
        n = h.next /\ x = h.files /\ y = h.folders
  BY <1>1
<1>3. x <= n - FirstId /\ y <= n - FirstId
  BY <1>1, <1>2
<1>4. x \in 0 .. MaxId /\ y \in 0 .. MaxId
  BY <1>2, <1>3, BoundsAssumption DEF FirstId
<1>5. QED
  BY <1>1, <1>2, <1>4

LEMMA TypesHold ==
  ASSUME CountInv
  PROVE  TypeOK
<1>1. ASSUME NEW k \in RecordKeys(cat)
      PROVE  cat[k] \in [kind : {"file", "folder"}, id : Nat, valence : 0 .. MaxValence,
                         folders : 0 .. CounterMod - 1, info : Infos]
  <2>1. k \in DOMAIN cat /\ ~IsThread(k)
    BY RecordKeysOf
  <2>2. QED
    BY <2>1 DEF CountInv, Fine, FineCat, FineEntry, FineRec
<1>2. ASSUME NEW k \in DOMAIN cat \ RecordKeys(cat)
      PROVE  cat[k] \in [kind : {"thread"}, of : {"file", "folder"}, parent : Nat,
                         name : Names \cup {Volume}]
  <2>1. k \in DOMAIN cat /\ IsThread(k)
    BY RecordKeysOf
  <2>2. QED
    BY <2>1 DEF CountInv, Fine, FineCat, FineEntry, FineThread
<1>3. \A h \in {hdr, disk} : h \in [next : FirstId .. MaxId + 1,
                                    files : 0 .. MaxId, folders : 0 .. MaxId]
  BY HeadTyped DEF CountInv, Fine
<1>4. /\ attrs \subseteq (FirstId .. MaxId) \X AttrNames
      /\ status \in {"running", "exited", "panic"}
      /\ \A l \in lost : l.kind \in {"file", "folder"}
  BY DEF CountInv, Fine
<1>5. QED
  BY <1>1, <1>2, <1>3, <1>4 DEF TypeOK

(* No valence, ID or counter of the header runs over: what removeFile and  *)
(* move take one off is never zero.                                        *)
THEOREM CatalogTypes == Spec => []TypeOK
<1>1. CountInv => TypeOK
  BY TypesHold
<1>2. QED
  BY <1>1, CountsInductive, PTL

LEMMA CountsRight ==
  ASSUME IInv, CountInv, Settled
  PROVE  CountsExact
<1>1. todo = <<>>
  BY DEF Settled, Idle, IInv, Shapes
<1>2. /\ Tidy(cat, LostIds, hdr.next) /\ ExactBut(cat, drift, hdr.next, {}) /\ disk = hdr
      /\ hdr.files = Cardinality(AllOf(cat, lost, "file"))
      /\ hdr.folders + 1 = Cardinality(AllOf(cat, lost, "folder"))
      /\ hdr.files \in Nat /\ hdr.folders \in Nat
  BY <1>1, RestingCounts
<1>3. ASSUME NEW r \in Records
      PROVE  \E n \in Nat, m \in Nat :
               /\ n = Cardinality(Entries(r.id)) /\ Right(r, n, m, drift)
               /\ m = Cardinality({k \in Entries(r.id) : cat[k].kind = "folder"})
  <2>1. PICK k \in RecordKeys(cat) : r = cat[k]
    BY DEF Records
  <2>2. RightIn(cat, drift, k) /\ IsFiniteSet(DOMAIN cat)
    BY <1>2 DEF ExactBut
  <2>3. PICK n \in Nat, m \in Nat :
          n = Cardinality(EntriesIn(cat, r.id)) /\ m = Cardinality(FoldersIn(cat, r.id))
    BY <2>2, EntriesNumber
  <2>4. Right(r, n, m, drift)
    BY <2>1, <2>2, <2>3 DEF RightIn
  <2>5. Entries(r.id) = EntriesIn(cat, r.id)
    BY DEF Entries, EntriesIn
  <2>6. {l \in Entries(r.id) : cat[l].kind = "folder"} = FoldersIn(cat, r.id)
    BY <2>5 DEF FoldersIn
  <2>7. QED
    BY <2>3, <2>4, <2>5, <2>6
<1>4. ValenceExact
  <2>1. ASSUME NEW r \in Records, NEW n, n = Cardinality(Entries(r.id))
        PROVE  n <= r.valence /\ (<<"valence", r.id>> \notin drift => r.valence = n)
    BY <1>3, <2>1 DEF Right
  <2>2. \A r \in Records :
          r.valence \in Nat /\ Cardinality(Entries(r.id)) \in Nat
    <3>1. \A k \in RecordKeys(cat) : cat[k].valence \in Nat
      BY <1>2, TidyNamed, RecordParts
    <3>2. QED
      BY <1>3, <3>1 DEF Records
  <2>3. \A r \in Records : /\ r.valence >= Cardinality(Entries(r.id))
                           /\ <<"valence", r.id>> \notin drift =>
                                r.valence = Cardinality(Entries(r.id))
    BY <2>1, <2>2
  <2>4. QED
    BY <2>3 DEF ValenceExact
<1>5. FolderCountExact
  BY <1>3 DEF FolderCountExact, Right
<1>6. ASSUME NEW kind
      PROVE  {r.id : r \in {s \in Records \cup lost : s.kind = kind}} = AllOf(cat, lost, kind)
  BY DEF Records, AllOf, OfKind, LostOf
<1>7. \A id \in Ids : id < disk.next
  <2>1. PICK next \in Nat : next = hdr.next
    BY DEF IInv, Shapes
  <2>2. Tidy(cat, LostIds, next)
    BY <1>2, <2>1
  <2>3. \A k \in RecordKeys(cat) : cat[k].id < next
    BY <2>2, TidyIds
  <2>4. \A k \in DOMAIN cat : IsThread(k) => k[1] < next
    BY <2>2 DEF Tidy
  <2>5. QED
    BY <1>2, <2>1, <2>3, <2>4 DEF Ids, Records
<1>8. PICK a \in Nat, b \in Nat : hdr.files = a /\ hdr.folders = b
  BY <1>2
<1>9. HeaderExact
  <2>1. Cardinality({r.id : r \in {s \in Records \cup lost : s.kind = "file"}}) = a
    BY <1>2, <1>6, <1>8
  <2>2. Cardinality({r.id : r \in {s \in Records \cup lost : s.kind = "folder"}}) = b + 1
    BY <1>2, <1>6, <1>8
  <2>3. b = (b + 1) - 1
    OBVIOUS
  <2>4. QED
    BY <1>2, <1>7, <1>8, <2>1, <2>2, <2>3 DEF HeaderExact
<1>10. QED
  BY <1>4, <1>5, <1>9 DEF CountsExact

(* After every call of catalog.c, and after one that is refused, each      *)
(* valence and folderCount is the number of entries, unless a move or a    *)
(* name that was taken has miscounted it, no valence is ever less than     *)
(* that, and fileCount, folderCount and nextCatalogID on the disk are      *)
(* right.                                                                  *)
THEOREM CountsAreExact == Spec => []CountsExact
<1>1. IInv /\ CountInv => CountsExact
  <2>1. ~Settled => CountsExact
    BY DEF CountsExact, ValenceExact, FolderCountExact, HeaderExact
  <2>2. QED
    BY <2>1, CountsRight
<1>2. QED
  BY <1>1, CatalogInductive, CountsInductive, PTL

=============================================================================
