------------------------------ MODULE Catalog ------------------------------
(***************************************************************************)
(* The catalog of an HFS+ volume: hfs/catalog.c, the callers of newFile in *)
(* hfs/hfslib.c and the attributes of a file in hfs/xattr.c.               *)
(*                                                                         *)
(* The catalog tree maps a parent's ID and a name to a file or folder      *)
(* record, and an ID with no name to a thread, which says where the record *)
(* of that ID is.  An operation reads what it needs and then makes a       *)
(* sequence of writes, `todo`; each is a step, since the process may stop  *)
(* (hfs_panic, ASSERT, a kill) between any two.                            *)
(*                                                                         *)
(* Records are what the operations tell apart: their kind, ID, the two     *)
(* counters of a folder, and `info` for mode, flags and owner; FileStore   *)
(* has the contents of a file.  Symbolic and hard links are not modelled;  *)
(* a path is a sequence of names from the root.  newFolder and move take a *)
(* name that is taken as they take any other; a caller does not move a     *)
(* folder into itself.                                                     *)
(***************************************************************************)
EXTENDS Integers, Sequences, FiniteSets, SequencesExt

CONSTANTS
  Names,       \* names of files and folders
  NoName,      \* the empty name of a thread's key
  Volume,      \* the name of the volume, which is the root's
  MaxDepth,    \* bound: names in a path
  MaxId,       \* bound: IDs given out
  MaxValence,  \* bound: entries counted in a folder
  CounterMod,  \* 2^32 in the code
  Infos,       \* modes
  AttrNames    \* extended attributes, in their order

kHFSRootParentID == 1
kHFSRootFolderID == 2
FirstId          == 16
NoFolder         == 0

ASSUME NamesAssumption == {NoName, Volume} \cap Names = {} /\ NoName # Volume
ASSUME BoundsAssumption == /\ MaxDepth \in Nat \ {0}
                           /\ MaxId \in Nat \ (0 .. FirstId)
                           /\ MaxValence \in Nat
                           /\ CounterMod \in Nat /\ CounterMod > MaxValence
                           /\ CounterMod > MaxId - FirstId + 1
                           /\ AttrNames \subseteq Nat \ {0}
                           /\ Infos # {}

VARIABLES
  cat,     \* the records of the catalog tree
  attrs,   \* <<ID, name>> of the records of the attributes tree
  hdr,     \* nextCatalogID, fileCount and folderCount in memory
  disk,    \* and in the volume header on the disk
  todo,    \* the writes left of the operation
  status,  \* running, or how the program stopped
  drift,   \* <<counter, ID>> of folders that an operation has miscounted
  lost     \* [id, kind] of what was made at, or moved to, a name that was taken

vars == <<cat, attrs, hdr, disk, todo, status, drift, lost>>

Running == status = "running"
Idle    == Running /\ todo = <<>>

Paths == UNION {[1 .. n -> Names] : n \in 1 .. MaxDepth}

-----------------------------------------------------------------------------
(* Keys and lookups.                                                       *)

ThreadKey(id)    == <<id, NoName>>
IsThread(k)      == k[2] = NoName
RecordKeys(c)    == {k \in DOMAIN c : ~IsThread(k)}

(* Where a thread says its record is.                                      *)
Named(c, id) == <<c[ThreadKey(id)].parent, c[ThreadKey(id)].name>>

(* getRecordByCNID: the thread, then the record.                           *)
RecordById(c, id) == c[Named(c, id)]

(* getRecordFromPath3: one record after the other.                         *)
FolderAt(c, path) ==
  LET at[n \in 0 .. Len(path)] ==
        IF n = 0 THEN kHFSRootFolderID
        ELSE LET key == <<at[n - 1], path[n]>>
             IN  IF key \in DOMAIN c /\ c[key].kind = "folder"
                 THEN c[key].id ELSE NoFolder
  IN  at[Len(path)]
KeyAt(c, path) == <<FolderAt(c, Front(path)), Last(path)>>
Found(c, path) == KeyAt(c, path) \in DOMAIN c

Thread(kind, key) ==
  [kind |-> "thread", of |-> kind, parent |-> key[1], name |-> key[2]]

Up(n) == (n + 1) % CounterMod

(* Variant: the counter does not wrap.                                     *)
DownUnwrapped(n) == n - 1

Down(n) == (n + CounterMod - 1) % CounterMod

(* searchNode gives up on a key before the first one, though not in an     *)
(* empty tree, whose header node it takes for one of smaller keys.         *)
Before(k, l)   == k[1] < l[1] \/ (k[1] = l[1] /\ k[2] < l[2])
AttrPanics(k)  == attrs # {} /\ \A l \in attrs : Before(k, l)

(* The n-th of a set of keys.                                              *)
Nth(keys, n) == CHOOSE k \in keys : Cardinality({l \in keys : Before(l, k)}) = n - 1

-----------------------------------------------------------------------------
(* The writes.                                                             *)

Drop(key)      == [do |-> "drop", key |-> key]
Put(key, rec)  == [do |-> "put", key |-> key, rec |-> rec]
Update(rec)    == [do |-> "update", rec |-> rec]
Strip(id)      == [do |-> "strip", id |-> id]
Unset(attr)    == [do |-> "unset", attr |-> attr]
Set(attr)      == [do |-> "set", attr |-> attr]
Uncount(kind)  == [do |-> "uncount", kind |-> kind]
Save           == [do |-> "save"]

Without(c, key) == [k \in DOMAIN c \ {key} |-> c[k]]

(* addToBTree leaves a key alone that is there.                            *)
Added(c, key, rec) ==
  [k \in DOMAIN c \cup {key} |-> IF k \in DOMAIN c THEN c[k] ELSE rec]

Doing(what) == Running /\ todo # <<>> /\ Head(todo).do = what

DropRecord ==
  /\ Doing("drop")
  /\ cat' = Without(cat, Head(todo).key)
  /\ todo' = Tail(todo)
  /\ UNCHANGED <<attrs, hdr, disk, status, drift, lost>>

PutRecord ==
  /\ Doing("put")
  /\ cat' = Added(cat, Head(todo).key, Head(todo).rec)
  /\ todo' = Tail(todo)
  /\ UNCHANGED <<attrs, hdr, disk, status, drift, lost>>

(* updateCatalog: thread, record, removal; then the new record is added.   *)
BeginUpdate ==
  /\ Doing("update")
  /\ LET rec == Head(todo).rec
         key == Named(cat, rec.id)
     IN  /\ cat' = Without(cat, key)
         /\ todo' = <<Put(key, rec)>> \o Tail(todo)
  /\ UNCHANGED <<attrs, hdr, disk, status, drift, lost>>

(* Variant: only the first attribute is unset.                             *)
StripFirst ==
  /\ Doing("strip")
  /\ LET id   == Head(todo).id
         mine == {k \in attrs : k[1] = id}
     IN  IF AttrPanics(<<id, 0>>)
         THEN status' = "panic" /\ UNCHANGED todo
         ELSE /\ todo' = (IF mine = {} THEN <<>>
                          ELSE <<Unset(Nth(mine, 1))>>) \o Tail(todo)
              /\ UNCHANGED status
  /\ UNCHANGED <<cat, attrs, hdr, disk, drift, lost>>

(* getAllExtendedAttributes, for which removeFile then unsets what it has  *)
(* found.                                                                  *)
StripAttributes ==
  /\ Doing("strip")
  /\ LET id   == Head(todo).id
         mine == {k \in attrs : k[1] = id}
     IN  IF AttrPanics(<<id, 0>>)
         THEN status' = "panic" /\ UNCHANGED todo
         ELSE /\ todo' = [i \in 1 .. Cardinality(mine) |-> Unset(Nth(mine, i))]
                        \o Tail(todo)
              /\ UNCHANGED status
  /\ UNCHANGED <<cat, attrs, hdr, disk, drift, lost>>

UnsetAttribute ==
  /\ Doing("unset")
  /\ attrs' = attrs \ {Head(todo).attr}
  /\ todo' = Tail(todo)
  /\ UNCHANGED <<cat, hdr, disk, status, drift, lost>>

AddAttribute ==
  /\ Doing("set")
  /\ attrs' = attrs \cup {Head(todo).attr}
  /\ todo' = Tail(todo)
  /\ UNCHANGED <<cat, hdr, disk, status, drift, lost>>

UncountEntry ==
  /\ Doing("uncount")
  /\ hdr' = IF Head(todo).kind = "file" THEN [hdr EXCEPT !.files = Down(@)]
                                        ELSE [hdr EXCEPT !.folders = Down(@)]
  /\ todo' = Tail(todo)
  /\ UNCHANGED <<cat, attrs, disk, status, drift, lost>>

(* updateVolume.                                                           *)
SaveHeader ==
  /\ Doing("save")
  /\ disk' = hdr
  /\ todo' = Tail(todo)
  /\ UNCHANGED <<cat, attrs, hdr, status, drift, lost>>

Write == \/ DropRecord \/ PutRecord \/ BeginUpdate \/ StripAttributes
         \/ UnsetAttribute \/ AddAttribute \/ UncountEntry \/ SaveHeader

-----------------------------------------------------------------------------
(* The operations.                                                         *)

RootRecord == [kind |-> "folder", id |-> kHFSRootFolderID, valence |-> 0,
               folders |-> 0, info |-> CHOOSE i \in Infos : TRUE]
RootKey    == <<kHFSRootParentID, Volume>>

Init ==
  /\ cat = [k \in {RootKey, ThreadKey(kHFSRootFolderID)} |->
              IF IsThread(k) THEN Thread("folder", RootKey) ELSE RootRecord]
  /\ attrs = {}
  /\ hdr = [next |-> FirstId, files |-> 0, folders |-> 0]
  /\ disk = hdr
  /\ todo = <<>> /\ status = "running" /\ drift = {} /\ lost = {}

Begin(writes) == /\ todo' = writes
                 /\ UNCHANGED <<cat, attrs, disk, status, drift, lost>>

(* A call that finds nothing to do, or what it must not touch: the process *)
(* exits.                                                                  *)
Exit == /\ status' = "exited"
        /\ UNCHANGED <<cat, attrs, hdr, disk, todo, drift, lost>>

NewRecord(kind, id) == [RootRecord EXCEPT !.kind = kind, !.id = id]

(* Variant: only folders are counted.                                      *)
PlusFolder(folder, kind) ==
  [folder EXCEPT !.folders = IF kind = "folder" THEN Up(@) ELSE @]

(* A folder that has one entry more, or one less.                          *)
Plus(folder, kind) ==
  [folder EXCEPT !.valence = Up(@),
                 !.folders = IF kind = "folder" THEN Up(@) ELSE @]

Minus(folder, kind) ==
  [folder EXCEPT !.valence = Down(@),
                 !.folders = IF kind = "folder" THEN Down(@) ELSE @]

(* The record, its thread, the parent's record, the header.                *)
Creation(kind, path) ==
  LET id     == hdr.next
      key    == KeyAt(cat, path)
      parent == RecordById(cat, key[1])
  IN  <<Put(key, NewRecord(kind, id)), Put(ThreadKey(id), Thread(kind, key)),
        Update(Plus(parent, kind)), Save>>

Counted(kind) ==
  [next    |-> hdr.next + 1,
   files   |-> IF kind = "file" THEN Up(hdr.files) ELSE hdr.files,
   folders |-> IF kind = "folder" THEN Up(hdr.folders) ELSE hdr.folders]

(* The parent is a folder with room (a bound).                             *)
CanCreate(path) ==
  LET parent == FolderAt(cat, Front(path))
  IN  /\ hdr.next <= MaxId
      /\ parent # NoFolder
      /\ RecordById(cat, parent).valence < MaxValence

(* A name that is taken keeps its record, as addToBTree leaves that alone  *)
(* and returns TRUE; the ID, its thread and the counters are as if the     *)
(* folder were there.                                                      *)
NewFolder(path) ==
  LET parent == FolderAt(cat, Front(path))
      taken  == Found(cat, path)
  IN  /\ Idle /\ CanCreate(path)
      /\ hdr' = Counted("folder")
      /\ todo' = Creation("folder", path)
      /\ drift' = drift \cup IF taken THEN {"valence", "folders"} \X {parent} ELSE {}
      /\ lost' = lost \cup
           IF taken THEN {[id |-> hdr.next, kind |-> "folder"]} ELSE {}
      /\ UNCHANGED <<cat, attrs, disk, status>>

(* writeToHFSFile, whose allocate saves the header and the file's record.  *)
Content(rec) == <<Save, Update(rec)>>

(* add_hfs: a new file is created, then written; one that exists is only   *)
(* written.                                                                *)
AddNewFile(path) ==
  /\ Idle /\ CanCreate(path) /\ ~Found(cat, path)
  /\ hdr' = Counted("file")
  /\ Begin(Creation("file", path) \o Content(NewRecord("file", hdr.next)))

AddToFile(path) ==
  /\ Idle /\ Found(cat, path)
  /\ LET rec == cat[KeyAt(cat, path)]
     IN  IF rec.kind = "file" THEN Begin(Content(rec)) /\ UNCHANGED hdr ELSE Exit

(* chmodFile, attrFile and chownFile.                                      *)
ChangeInfo(path, info) ==
  /\ Idle /\ Found(cat, path)
  /\ Begin(<<Update([cat[KeyAt(cat, path)] EXCEPT !.info = info])>>)
  /\ UNCHANGED hdr

Relocation(rec, from, to) ==
  <<Drop(from), Drop(ThreadKey(rec.id)), Put(to, rec),
    Put(ThreadKey(rec.id), Thread(rec.kind, to))>>

(* What a move leaves behind: valences are taken from two copies of the    *)
(* record of one folder, folderCount is not changed, and a name that is    *)
(* taken gains nothing.                                                    *)
Miscounted(rec, from, to, taken) ==
  (IF from[1] = to[1] \/ taken THEN {<<"valence", to[1]>>} ELSE {}) \cup
  (IF rec.kind = "folder" /\ (from[1] # to[1] \/ taken)
   THEN {<<"folders", from[1]>>, <<"folders", to[1]>>} ELSE {})

(* move: record and thread go and come again, unless there is a record at  *)
(* the destination, which addToBTree leaves alone; then the valences of    *)
(* the two folders, of each of which there is a copy from before, even if  *)
(* they are one.                                                           *)
Move(source, dest) ==
  LET from    == KeyAt(cat, source)
      to      == KeyAt(cat, dest)
      rec     == cat[from]
      srcRec  == RecordById(cat, from[1])
      destRec == RecordById(cat, to[1])
      taken   == from # to /\ Found(cat, dest)
  IN  /\ Idle /\ Found(cat, source)
      /\ FolderAt(cat, Front(dest)) # NoFolder
      /\ ~IsStrictPrefix(source, dest)
      /\ \A p \in Paths : IsPrefix(source, p) /\ Found(cat, p) =>
           Len(p) - Len(source) + Len(dest) <= MaxDepth
      /\ destRec.valence < MaxValence
      /\ todo' = Relocation(rec, from, to) \o
                 <<Update([srcRec EXCEPT !.valence = Down(@)]),
                   Update([destRec EXCEPT !.valence = Up(@)])>>
      /\ drift' = drift \cup Miscounted(rec, from, to, taken)
      /\ lost' = lost \cup IF taken THEN {[id |-> rec.id, kind |-> rec.kind]} ELSE {}
      /\ UNCHANGED <<cat, attrs, hdr, disk, status>>

(* Variant: the thread stays.                                              *)
RemovalNoThread(rec, key) ==
  (IF rec.kind = "file" THEN Content(rec) ELSE <<>>)
    \o <<Drop(key), Strip(rec.id), Uncount(rec.kind)>>

(* removeFile frees the blocks of a file, which saves the header and the   *)
(* file's record once more.                                                *)
Removal(rec, key) ==
  (IF rec.kind = "file" THEN Content(rec) ELSE <<>>)
    \o <<Drop(key), Strip(rec.id), Drop(ThreadKey(rec.id)), Uncount(rec.kind)>>

(* Variant: files do not count.                                            *)
OccupiedByFolders(rec) == rec.kind = "folder" /\ rec.folders > 0

Occupied(rec) == rec.kind = "folder" /\ rec.valence > 0

RemoveEntry(path) ==
  /\ Idle
  /\ IF ~Found(cat, path) THEN Exit
     ELSE LET key    == KeyAt(cat, path)
              rec    == cat[key]
              parent == RecordById(cat, key[1])
          IN  IF Occupied(rec) THEN Exit
              ELSE /\ Begin(Removal(rec, key) \o
                            <<Update(Minus(parent, rec.kind)), Save>>)
                   /\ UNCHANGED hdr

(* setAttribute with updateAttributes: search, remove what is there, add.  *)
SetAttribute(path, a) ==
  /\ Idle /\ Found(cat, path)
  /\ LET attr == <<cat[KeyAt(cat, path)].id, a>>
     IN  IF AttrPanics(attr)
         THEN /\ status' = "panic"
              /\ UNCHANGED <<cat, attrs, hdr, disk, todo, drift, lost>>
         ELSE /\ Begin((IF attr \in attrs THEN <<Unset(attr)>> ELSE <<>>) \o
                       <<Set(attr)>>)
              /\ UNCHANGED hdr

Operation ==
  \E path \in Paths :
    \/ NewFolder(path) \/ AddNewFile(path) \/ AddToFile(path) \/ RemoveEntry(path)
    \/ \E info \in Infos : ChangeInfo(path, info)
    \/ \E dest \in Paths : Move(path, dest)
    \/ \E a \in AttrNames : SetAttribute(path, a)

(* The process is gone.                                                    *)
Over == ~Running /\ UNCHANGED vars

Next == Write \/ Operation \/ Over

Spec == Init /\ [][Next]_vars

-----------------------------------------------------------------------------
(* Properties.                                                             *)

Records  == {cat[k] : k \in RecordKeys(cat)}
Entries(id) == {k \in RecordKeys(cat) : k[1] = id}

(* Every variable has its type; counters stay below the bound, so that no  *)
(* counter has wrapped, except folderCount.                                *)
TypeOK ==
  /\ \A k \in RecordKeys(cat) :
       cat[k] \in [kind : {"file", "folder"}, id : Nat, valence : 0 .. MaxValence,
                   folders : 0 .. CounterMod - 1, info : Infos]
  /\ \A k \in DOMAIN cat \ RecordKeys(cat) :
       cat[k] \in [kind : {"thread"}, of : {"file", "folder"}, parent : Nat,
                   name : Names \cup {Volume}]
  /\ attrs \subseteq (FirstId .. MaxId) \X AttrNames
  /\ \A h \in {hdr, disk} : h \in [next : FirstId .. MaxId + 1,
                                   files : 0 .. MaxId, folders : 0 .. MaxId]
  /\ status \in {"running", "exited", "panic"}
  /\ \A l \in lost : l.kind \in {"file", "folder"}

(* The one record of an ID is where its thread says.                       *)
Whole(id) ==
  \E k \in RecordKeys(cat) :
    /\ \A l \in RecordKeys(cat) : cat[l].id = id <=> l = k
    /\ ThreadKey(id) \in DOMAIN cat
    /\ cat[ThreadKey(id)] = Thread(cat[k].kind, k)

Ids == {r.id : r \in Records} \cup {k[1] : k \in {l \in DOMAIN cat : IsThread(l)}}

LostIds == {l.id : l \in lost}

(* A call that refuses what it was asked for ends the process as it would  *)
(* stand between two operations.                                           *)
Settled == Idle \/ status = "exited"

(* Every file and folder has exactly one record and one thread, and they   *)
(* name each other; wherever an operation stops, at most one has not.  A   *)
(* name that is taken costs what is made there or moved there its record,  *)
(* and costs no other anything.                                            *)
OneTornEntry ==
  Cardinality({id \in Ids \ LostIds : ~Whole(id)}) <= IF Settled THEN 0 ELSE 1

(* A folder's valence is the number of its entries, unless one has been    *)
(* renamed inside it, or lost at a name of its; it is never less, so that  *)
(* removeFile does not take a folder away from under its entries.          *)
ValenceExact ==
  Settled => \A r \in Records :
            LET n == Cardinality(Entries(r.id))
            IN  /\ r.valence >= n
                /\ <<"valence", r.id>> \notin drift => r.valence = n

(* A folder's folderCount is the number of its folders, unless one has     *)
(* been moved in or out, or lost at a name of its.                         *)
FolderCountExact ==
  Settled => \A r \in Records :
               <<"folders", r.id>> \notin drift =>
                 r.folders = Cardinality({k \in Entries(r.id) : cat[k].kind = "folder"})

(* Between operations, and after a refusal, the header on the disk counts  *)
(* the files and folders, those that were lost included, and every ID in   *)
(* use has been given out.                                                 *)
HeaderExact ==
  LET counted(kind) ==
        Cardinality({r.id : r \in {s \in Records \cup lost : s.kind = kind}})
  IN  Settled => /\ disk = hdr
                 /\ disk.files = counted("file")
                 /\ disk.folders = counted("folder") - 1
                 /\ \A id \in Ids : id < disk.next

(* Between operations every counter that an entry has is right.            *)
CountsExact == ValenceExact /\ FolderCountExact /\ HeaderExact

(* Between operations every attribute belongs to a file or folder.         *)
AttributesOwned == Settled => \A k \in attrs : k[1] \in Ids

(* What a write does to the catalog and the attributes s.                  *)
Done(s, w) ==
  CASE w.do = "drop"   -> [s EXCEPT !.cat = Without(@, w.key)]
    [] w.do = "put"    -> [s EXCEPT !.cat = Added(@, w.key, w.rec)]
    [] w.do = "update" -> [s EXCEPT !.cat[Named(s.cat, w.rec.id)] = w.rec]
    [] w.do = "strip"  -> [s EXCEPT !.attrs = {k \in @ : k[1] # w.id}]
    [] w.do = "unset"  -> [s EXCEPT !.attrs = @ \ {w.attr}]
    [] w.do = "set"    -> [s EXCEPT !.attrs = @ \cup {w.attr}]
    [] OTHER           -> s

(* The catalog and the attributes as the writes of todo will leave them.   *)
Ahead ==
  LET after[n \in 0 .. Len(todo)] ==
        IF n = 0 THEN [cat |-> cat, attrs |-> attrs]
        ELSE Done(after[n - 1], todo[n])
  IN  after[Len(todo)]

(* The entries by path.                                                    *)
Tree(c, as) ==
  LET folder == [p \in {<<>>} \cup Paths |-> FolderAt(c, p)]
      key(p) == <<folder[Front(p)], Last(p)>>
  IN  [p \in {q \in Paths : key(q) \in DOMAIN c} |->
         LET r == c[key(p)]
         IN  [id |-> r.id, kind |-> r.kind, info |-> r.info,
              attrs |-> {k[2] : k \in {l \in as : l[1] = r.id}}]]

(* The tree of names once the operation has ended (the member of a         *)
(* singleton, so that TLC applies todo only once).                         *)
View == CHOOSE t \in {Tree(s.cat, s.attrs) : s \in {Ahead}} : t = t

(* Every operation does to the tree of names what it says, in one step.    *)
NS == INSTANCE Namespace WITH entries <- View, lost <- LostIds,
                              stopped <- ~Running

ImplementsNamespace == NS!NameSpec

(* catalog.c:856: what removeFile refuses as "folder not empty" has        *)
(* something in it.                                                        *)
EmptyIsRemovable ==
  Idle => \A r \in Records :
            r.id # kHFSRootFolderID /\ Entries(r.id) = {} => ~Occupied(r)
=============================================================================
