------------------------------- MODULE BTree -------------------------------
(***************************************************************************)
(* The B-trees of an HFS+ volume (catalog, extents overflow, attributes):  *)
(* hfs/btree.c.  A node is a list of records in key order; a leaf's record *)
(* stands for a key and its data, an index node's for a key and a child.   *)
(* Records have sizes, and a node has room for NodeRoom units of records   *)
(* and of the two-byte offsets at its end.                                 *)
(*                                                                         *)
(* The tree is a record of the nodes, the header record and the node map;  *)
(* the recursive functions of the code take a tree and return one, with    *)
(* what the C function returns beside it.  One action is one whole call of *)
(* addToBTree, removeFromBTree or search, as its callers make it.          *)
(***************************************************************************)
EXTENDS Integers, Sequences, FiniteSets, SequencesExt

CONSTANTS
  Keys,        \* keys, in the order of COMPARE
  KeySize,     \* units of a key with its length field
  DataSize,    \* units of the data of a leaf record, by key
  PointerSize, \* units of a node number
  OffsetSize,  \* units of an entry of the offset table
  NodeRoom,    \* units of a node without its descriptor
  FirstNodes,  \* totalNodes of the empty tree, node 0 included
  ClumpNodes,  \* nodes that growBTree adds
  MaxNodes,    \* nodes the volume has room for
  Word         \* 2^32: the counts of the header record are 32 bits wide

ASSUME KeysAssumption == /\ Keys \subseteq Nat
                         /\ KeySize \in [Keys -> Nat]
                         /\ DataSize \in [Keys -> Nat]
ASSUME RoomAssumption == /\ {PointerSize, OffsetSize, NodeRoom} \subseteq Nat
                         /\ FirstNodes \in 1 .. MaxNodes
                         /\ ClumpNodes \in 1 .. MaxNodes
                         /\ Word \in Nat /\ Word > MaxNodes

VARIABLES
  tree,    \* [node, hdr, map, file, fault]; file: nodes the file has room for
  dict,    \* the keys that callers have added and not removed
  status   \* running, or how the program stopped

vars == <<tree, dict, status>>

NodeIds == 1 .. MaxNodes - 1
NoNode  == 0     \* no link, no root, no new node

Blank == [kind |-> "blank", height |-> 0, fLink |-> 0, bLink |-> 0,
          recs |-> <<>>]

-----------------------------------------------------------------------------
(* Nodes.                                                                  *)

KeyAt(T, n, i) == T.node[n].recs[i].key
FirstKey(T, n) == KeyAt(T, n, 1)
Count(T, n)    == Len(T.node[n].recs)

RecordSize(kind, key) ==
  KeySize[key] + (IF kind = "leaf" THEN DataSize[key] ELSE PointerSize)

Filled(nd) == LET size(sum, r) == sum + RecordSize(nd.kind, r.key)
              IN  FoldLeft(size, 0, nd.recs)

(* getFreeSpace: between the end of the records and the offset table.      *)
FreeSpace(T, n) ==
  NodeRoom - Filled(T.node[n]) - OffsetSize * (Count(T, n) + 1)

(* Records that no longer fit run into the offset table.                   *)
WithRecs(T, n, recs) ==
  LET U == [T EXCEPT !.node[n].recs = recs]
  IN  IF FreeSpace(U, n) < 0 THEN [U EXCEPT !.fault = "overrun"] ELSE U

(* Every search loop stops at the first key that is not smaller.           *)
Stop(recs, key) == LET reached(r) == r.key >= key
                   IN  SelectInSeq(recs, reached)
Smaller(recs, key) == IF Stop(recs, key) = 0 THEN Len(recs)
                      ELSE Stop(recs, key) - 1
Equal(recs, key) == Stop(recs, key) # 0 /\ recs[Stop(recs, key)].key = key

-----------------------------------------------------------------------------
(* The node map.                                                           *)

(* Variant: growBTree trusts the volume to have room.                      *)
GrowUnchecked(T) ==
  [T EXCEPT !.file = @ + ClumpNodes, !.hdr.total = T.file + ClumpNodes,
            !.hdr.free = @ + T.file + ClumpNodes - T.hdr.total]

(* growBTree: the file gets a clump more, or allocate refuses, which is not*)
(* looked at; the header then counts the nodes that the file has.          *)
Grow(T) ==
  LET file == IF T.file + ClumpNodes <= MaxNodes THEN T.file + ClumpNodes
              ELSE T.file
  IN  [T EXCEPT !.file = file, !.hdr.total = file,
                !.hdr.free = @ + file - T.hdr.total]

(* getNewNode and the writing of the new node.  findFree takes the first   *)
(* clear bit; the map goes on behind the last node.  A node beyond the end *)
(* of the file makes the write allocate room for it alone, and that fails  *)
(* by an ASSERT.                                                           *)
NewNode(T) ==
  LET U == IF T.hdr.free = 0 THEN Grow(T) ELSE T
      n == CHOOSE m \in 0 .. MaxNodes : /\ m \notin U.map
                                       /\ \A k \in 0 .. m - 1 : k \in U.map
  IN  IF n = MaxNodes THEN [T |-> [U EXCEPT !.fault = "exited"], new |-> 1]
      ELSE [T |-> [U EXCEPT !.map = @ \cup {n},
                            !.hdr.free = (@ - 1) % Word,
                            !.file = IF n < @ THEN @ ELSE n + 1],
            new |-> n]

Linked(T, n, link, to) ==
  IF n = NoNode THEN T
  ELSE IF link = "fLink" THEN [T EXCEPT !.node[n].fLink = to]
                         ELSE [T EXCEPT !.node[n].bLink = to]

(* What a free node holds is not looked at.                                *)
Freed(T, n) ==
  LET nd == T.node[n]
  IN  [T EXCEPT
         !.map = @ \ {n},
         !.node[n] = Blank,
         !.hdr = [@ EXCEPT !.free  = (@ + 1) % Word,
                           !.first = IF @ = n THEN nd.fLink ELSE @,
                           !.last  = IF @ = n THEN nd.bLink ELSE @,
                           !.root  = IF @ = n THEN NoNode ELSE @]]

(* Variant: the neighbours keep their links to the node.                   *)
RemoveNodeLinked(T, n) == Freed(T, n)

RemoveNode(T, n) ==
  LET nd == T.node[n]
  IN  Linked(Linked(Freed(T, n), nd.bLink, "fLink", nd.fLink),
             nd.fLink, "bLink", nd.bLink)

(* splitNode: the upper half of the records, by their number, goes to a    *)
(* new right neighbour.                                                    *)
Split(T, n) ==
  LET nd   == T.node[n]
      half == Len(nd.recs) \div 2
      N    == NewNode(T)
      new  == N.new
      U    == [N.T EXCEPT
                 !.node[new] = [nd EXCEPT !.bLink = n,
                                          !.recs = SubSeq(@, half + 1, Len(@))],
                 !.node[n]   = [nd EXCEPT !.fLink = new,
                                          !.recs = SubSeq(@, 1, half)],
                 !.hdr.last  = IF nd.kind = "leaf" /\ @ = n THEN new ELSE @]
  IN  [T |-> Linked(U, nd.fLink, "bLink", new), new |-> new]

-----------------------------------------------------------------------------
(* Adding.                                                                 *)

(* doAddRecord: a key that is there already is left alone.                 *)
DoAdd(T, n, rec) ==
  LET recs == T.node[n].recs
      U    == IF T.node[n].height = 1 THEN [T EXCEPT !.hdr.leafRecords = @ + 1]
              ELSE T
  IN  IF Equal(recs, rec.key) THEN T
      ELSE WithRecs(U, n, InsertAt(recs, Smaller(recs, rec.key) + 1, rec))

Result(T, new, again) == [T |-> T, new |-> new, again |-> again, gone |-> FALSE]

Fits(free, kind, key) == free >= RecordSize(kind, key) + OffsetSize

(* Variant: the record goes to the left half whatever its place.           *)
AddLeft(T, n, rec, free, place) ==
  IF Fits(free, T.node[n].kind, rec.key) THEN Result(DoAdd(T, n, rec), NoNode, FALSE)
  ELSE LET S == Split(T, n) IN Result(DoAdd(S.T, n, rec), S.new, FALSE)

(* A record goes to place `place` of node n; without room for it the node  *)
(* is split first, and the room in the half it then goes to is not looked  *)
(* at again.  `free` may be older than the node's last change.             *)
AddOrSplit(T, n, rec, free, place) ==
  IF Fits(free, T.node[n].kind, rec.key)
  THEN Result(DoAdd(T, n, rec), NoNode, FALSE)
  ELSE LET S    == Split(T, n)
           half == Count(T, n) \div 2
       IN  Result(DoAdd(S.T, IF place < half THEN n ELSE S.new, rec), S.new, FALSE)

PointerTo(T, child) == [key |-> FirstKey(T, child), child |-> child]

(* An index key becomes `key`.  Without room for a longer one the node is  *)
(* split instead, and the caller starts again.                             *)
NoRoomForKey(free, old, key) == KeySize[key] > KeySize[old]
                                /\ free < KeySize[key] - KeySize[old]
WithKey(T, n, i, key) ==
  WithRecs(T, n, [T.node[n].recs EXCEPT ![i].key = key])

(* What addRecord and removeRecord do to node n when the call for its child*)
(* has returned R: the child's new neighbour gets a record.                *)
Joined(R, n, free, place) ==
  IF R.new = NoNode THEN Result(R.T, NoNode, R.again)
  ELSE [AddOrSplit(R.T, n, PointerTo(R.T, R.new), free, place)
          EXCEPT !.again = R.again]

Again(S) == Result(S.T, S.new, TRUE)

(* The descent stops at a key that is there already, in whatever node, and *)
(* lowers the first key of every index node that it passes on the left.    *)
RECURSIVE AddRecord(_, _, _)
AddRecord(T, n, key) ==
  LET recs == T.node[n].recs
      free == FreeSpace(T, n)
      i    == Smaller(recs, key)
  IN  IF Equal(recs, key) THEN Result(T, NoNode, FALSE)
      ELSE IF T.node[n].kind = "leaf"
      THEN AddOrSplit(T, n, [key |-> key, child |-> NoNode], free, i)
      ELSE IF i = 0 /\ NoRoomForKey(free, recs[1].key, key)
      THEN Again(Split(T, n))
      ELSE LET U == IF i = 0 THEN WithKey(T, n, 1, key) ELSE T
           IN  Joined(AddRecord(U, recs[IF i = 0 THEN 1 ELSE i].child, key),
                      n, free, i)

IncreaseHeight(T, new) ==
  LET N    == NewNode(T)
      old  == T.hdr.root
      root == [kind |-> "index", height |-> T.hdr.depth + 1,
               fLink |-> 0, bLink |-> 0,
               recs |-> <<PointerTo(T, old), PointerTo(T, new)>>]
  IN  [N.T EXCEPT !.node[N.new] = root,
                  !.hdr.root = N.new, !.hdr.depth = @ + 1]

FirstLeaf(T, key) ==
  LET N == NewNode(T)
  IN  [N.T EXCEPT
         !.node[N.new] = [kind |-> "leaf", height |-> 1, fLink |-> 0,
                          bLink |-> 0,
                          recs |-> <<[key |-> key, child |-> NoNode]>>],
         !.hdr = [@ EXCEPT !.root = N.new, !.first = N.new, !.last = N.new,
                           !.leafRecords = 1, !.depth = 1]]

Raised(R) == IF R.new = NoNode THEN R.T ELSE IncreaseHeight(R.T, R.new)

RECURSIVE AddToBTree(_, _)
AddToBTree(T, key) ==
  IF T.hdr.root = NoNode THEN FirstLeaf(T, key)
  ELSE LET R == AddRecord(T, T.hdr.root, key)
           U == Raised(R)
       IN  IF R.again THEN AddToBTree(U, key) ELSE U

-----------------------------------------------------------------------------
(* Removing.                                                               *)

Emptied(R, n) ==
  IF Count(R.T, n) = 0 THEN [R EXCEPT !.T = RemoveNode(R.T, n), !.gone = TRUE]
  ELSE R

(* The record that was removed gave index record i its key: the key of the *)
(* child's first record takes its place.                                   *)
Rekeyed(T, n, i, child) == WithKey(T, n, i, FirstKey(T, child))

(* Index record i of node n after the call for `child` has returned R.     *)
Settled(R, n, i, child, key, same, free) ==
  IF ~R.gone /\ same /\ NoRoomForKey(free, key, FirstKey(R.T, child))
  THEN Again(Split(R.T, n))
  ELSE LET U == IF R.gone THEN [R.T EXCEPT !.node[n].recs = RemoveAt(@, i)]
                ELSE IF same THEN Rekeyed(R.T, n, i, child)
                ELSE R.T
       IN  Emptied(Joined([R EXCEPT !.T = U], n, free, i - 1), n)

(* removeRecord for a key that is in the tree.  `i` is where the loop      *)
(* stopped, which is not the child's record unless the keys are equal or   *)
(* the child is the last.                                                  *)
RECURSIVE RemoveRecord(_, _, _)
RemoveRecord(T, n, key) ==
  LET recs  == T.node[n].recs
      same  == Equal(recs, key)
      i     == IF Stop(recs, key) = 0 THEN Len(recs) ELSE Stop(recs, key)
      child == recs[IF same THEN i ELSE Smaller(recs, key)].child
      less  == [T EXCEPT !.node[n].recs = RemoveAt(@, i),
                         !.hdr.leafRecords = @ - 1]
  IN  IF ~same /\ (T.node[n].kind = "leaf" \/ Smaller(recs, key) = 0)
      THEN Result(T, NoNode, FALSE)
      ELSE IF T.node[n].kind = "leaf"
      THEN Emptied(Result(less, NoNode, FALSE), n)
      ELSE Settled(RemoveRecord(T, child, key), n, i, child, key, same,
                   FreeSpace(T, n))

RECURSIVE RemoveFromBTree(_, _)
RemoveFromBTree(T, key) ==
  LET R == RemoveRecord(T, T.hdr.root, key)
      U == Raised(R)
  IN  IF R.again THEN RemoveFromBTree(U, key) ELSE U

-----------------------------------------------------------------------------
(* Searching.                                                              *)

RECURSIVE SearchNode(_, _, _)
SearchNode(T, n, key) ==
  LET recs == T.node[n].recs
      same == Equal(recs, key)
      i    == IF same THEN Stop(recs, key) ELSE Smaller(recs, key)
  IN  IF i = 0 THEN "panic"
      ELSE IF T.node[n].kind = "leaf" THEN IF same THEN "exact" ELSE "near"
      ELSE SearchNode(T, recs[i].child, key)

(* What search of an empty tree makes of the header node, whose records    *)
(* are no keys, depends on what is in them.                                *)
Search(key) == IF tree.hdr.root = NoNode THEN {"panic", "near"}
               ELSE {SearchNode(tree, tree.hdr.root, key)}

-----------------------------------------------------------------------------
Init ==
  /\ tree = [node |-> [n \in NodeIds |-> Blank],
             hdr |-> [root |-> NoNode, depth |-> 0, first |-> NoNode,
                      last |-> NoNode, leafRecords |-> 0,
                      total |-> FirstNodes, free |-> FirstNodes - 1],
             map |-> {0}, file |-> FirstNodes, fault |-> "none"]
  /\ dict = {}
  /\ status = "running"

Becomes(T, keys) ==
  /\ tree' = T
  /\ dict' = keys
  /\ status' = IF T.fault = "none" THEN "running" ELSE T.fault

(* newFolder, newFile, move: a key that may be there already.              *)
AddKey(k) == /\ status = "running"
          /\ Becomes(AddToBTree(tree, k), dict \cup {k})

(* removeFile, move, removeExtents, unsetAttribute: a key that the caller  *)
(* has read from the tree.                                                 *)
RemoveKey(k) == /\ status = "running"
             /\ k \in dict
             /\ Becomes(RemoveFromBTree(tree, k), dict \ {k})

(* updateAttributes: search, remove what was found, add.                   *)
UpdateKey(k) ==
  /\ status = "running"
  /\ \E found \in Search(k) :
       CASE found = "panic" -> /\ status' = "panic"
                               /\ UNCHANGED <<tree, dict>>
         [] found = "exact" -> Becomes(AddToBTree(RemoveFromBTree(tree, k), k), dict)
         [] found = "near"  -> Becomes(AddToBTree(tree, k), dict \cup {k})

Over == status # "running" /\ UNCHANGED vars

Next == (\E k \in Keys : AddKey(k) \/ RemoveKey(k) \/ UpdateKey(k)) \/ Over

Spec == Init /\ [][Next]_vars

-----------------------------------------------------------------------------
(* Properties.                                                             *)

hdr  == tree.hdr
nd(n) == tree.node[n]

RecordType == [key : Keys, child : NodeIds \cup {NoNode}]

(* Every node and every header field has its type; an index record always  *)
(* has a child and a leaf record none.                                     *)
TypeOK ==
  /\ \A n \in NodeIds :
       /\ nd(n).kind \in {"blank", "leaf", "index"}
       /\ \A i \in DOMAIN nd(n).recs :
            /\ nd(n).recs[i] \in RecordType
            /\ nd(n).kind = "leaf" <=> nd(n).recs[i].child = NoNode
  /\ \A x \in {hdr.root, hdr.first, hdr.last} : x \in NodeIds \cup {NoNode}
  /\ FirstNodes <= hdr.total /\ hdr.total <= tree.file /\ tree.file <= MaxNodes
  /\ hdr.free \in 0 .. Word - 1 /\ hdr.leafRecords \in Nat
  /\ tree.map \subseteq 0 .. tree.file - 1
  /\ dict \subseteq Keys
  /\ status \in {"running", "panic", "exited", "overrun"}

Running == status = "running"

(* The nodes below n, n included.                                          *)
RECURSIVE Below(_)
Below(n) == {n} \cup IF nd(n).kind # "index" THEN {}
                     ELSE UNION {Below(r.child) : r \in ToSet(nd(n).recs)}
InTree == IF hdr.root = NoNode THEN {} ELSE Below(hdr.root)

Consistent ==
  /\ nd(hdr.root).height = hdr.depth
  /\ \A n \in InTree :
       /\ nd(n).recs # <<>>
       /\ nd(n).kind = "leaf" <=> nd(n).height = 1
       /\ \A i \in 2 .. Count(tree, n) :
            KeyAt(tree, n, i - 1) < KeyAt(tree, n, i)
       /\ nd(n).kind = "index" =>
            \A i \in 1 .. Count(tree, n) :
              LET c == nd(n).recs[i].child
              IN  /\ nd(c).height = nd(n).height - 1
                  /\ FirstKey(tree, c) = KeyAt(tree, n, i)
                  /\ i < Count(tree, n) =>
                       KeyAt(tree, c, Count(tree, c)) < KeyAt(tree, n, i + 1)

(* traverseNode of debugBTree finds nothing after any calls: heights, order*)
(* within a node, index keys that are the first keys of their children, and*)
(* children that end before the next index key.                            *)
TraversalClean == Running /\ hdr.root # NoNode => Consistent

(* The nodes of a chain of links, in its order.                            *)
RECURSIVE Chain(_, _)
Chain(n, left) == IF n = NoNode \/ left = 0 THEN <<>>
                  ELSE <<n>> \o Chain(nd(n).fLink, left - 1)

KeysOf(chain) ==
  FlattenSeq([i \in DOMAIN chain |->
                [j \in DOMAIN nd(chain[i]).recs |-> nd(chain[i]).recs[j].key]])

(* linearCheck of debugBTree, and what getFolderContents relies on: the    *)
(* leaves from firstLeafNode to lastLeafNode hold exactly the keys that    *)
(* callers have added, in order, doubly linked, as many as leafRecords.    *)
LeavesClean ==
  Running =>
    LET chain == Chain(hdr.first, MaxNodes)
        keys  == KeysOf(chain)
    IN  /\ ToSet(keys) = dict
        /\ \A i \in 2 .. Len(keys) : keys[i - 1] < keys[i]
        /\ hdr.leafRecords = Len(keys)
        /\ chain # <<>> => hdr.last = chain[Len(chain)]
        /\ chain = <<>> => hdr.last = NoNode
        /\ \A i \in DOMAIN chain :
             nd(chain[i]).bLink = IF i = 1 THEN NoNode ELSE chain[i - 1]

(* mapNodes and the last checks of debugBTree: the map marks the nodes of  *)
(* the tree and the header node, and freeNodes counts the others.  It wraps*)
(* only once the file has got nodes beyond totalNodes one at a time, on a  *)
(* volume too full for a clump.                                            *)
MapClean ==
  Running => /\ tree.map = InTree \cup {0}
             /\ hdr.free = (hdr.total - Cardinality(tree.map)) % Word
             /\ hdr.free > hdr.total => tree.file > hdr.total

(* What debugBTree calls "Record data extends past offsets" (btree.c:460)  *)
(* never happens: an insertion leaves the offset table alone.              *)
NodesFit == status # "overrun"

(* debugBTree finds nothing to complain of, whatever was added and removed:*)
(* splits, new first keys and removed nodes leave index, leaves, map and   *)
(* nodes in step.  (It does find freeNodes where that has wrapped.)        *)
TreeClean == TraversalClean /\ LeavesClean /\ MapClean /\ NodesFit

(* A search finds what was added and nothing else.                         *)
SearchFinds ==
  Running => \A k \in Keys : "exact" \in Search(k) <=> k \in dict

(* searchNode panics with "BTree inconsistent!" (btree.c:228) only when the*)
(* tree is.                                                                *)
SearchTrustsTree == status = "panic" /\ hdr.root # NoNode => ~Consistent
=============================================================================
