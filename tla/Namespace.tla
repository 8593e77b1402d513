----------------------------- MODULE Namespace -----------------------------
(***************************************************************************)
(* What the catalog of a volume promises its callers: a tree of names.     *)
(* Every entry keeps its identity for as long as it exists, wherever it is *)
(* moved, and an operation changes the entry it names and no other.        *)
(***************************************************************************)
EXTENDS Integers, Sequences

VARIABLES
  entries,  \* by path: [id, kind, ...] with what else is known of an entry
  lost,     \* the IDs of what was made at, or moved to, a name that was taken
  stopped   \* has the program given up?

nameVars == <<entries, lost, stopped>>

Parent(p)    == SubSeq(p, 1, Len(p) - 1)
Under(p, q)  == Len(p) <= Len(q) /\ SubSeq(q, 1, Len(p)) = p
Below(es, p) == {q \in DOMAIN es : Under(p, q)}

(* Path p with its beginning, from, replaced by to.                        *)
Rebase(p, from, to) == to \o SubSeq(p, Len(from) + 1, Len(p))

IsFolder(es, p) == p = <<>> \/ (p \in DOMAIN es /\ es[p].kind = "folder")

(* es becomes fs in a step; a path is free in es if it is only in fs.      *)
Created(es, fs) ==
  \E p \in DOMAIN fs \ DOMAIN es :
    /\ DOMAIN fs = DOMAIN es \cup {p}
    /\ IsFolder(es, Parent(p))
    /\ \A q \in DOMAIN es : es[q].id # fs[p].id /\ fs[q] = es[q]

(* Only what has nothing under it can be removed.                          *)
Deleted(es, fs) ==
  \E p \in DOMAIN es :
    /\ Below(es, p) = {p}
    /\ fs = [q \in DOMAIN es \ {p} |-> es[q]]

(* An entry takes everything under it along.                               *)
Renamed(es, fs) ==
  \E p \in DOMAIN es, q \in DOMAIN fs \ DOMAIN es :
    /\ IsFolder(es, Parent(q)) /\ ~Under(p, q)
    /\ fs = [r \in (DOMAIN es \ Below(es, p)) \cup {Rebase(s, p, q) : s \in Below(es, p)} |->
               es[IF Under(q, r) THEN Rebase(r, q, p) ELSE r]]

Changed(es, fs) ==
  \E p \in DOMAIN es :
    /\ DOMAIN fs = DOMAIN es
    /\ fs[p].id = es[p].id /\ fs[p].kind = es[p].kind
    /\ \A q \in DOMAIN es \ {p} : fs[q] = es[q]

(* An entry that is moved to a name that is taken is gone, with everything *)
(* under it; what has the name keeps it.                                   *)
Vanished(es, fs, ids) ==
  \E p \in DOMAIN es :
    /\ fs = [q \in DOMAIN es \ Below(es, p) |-> es[q]]
    /\ ids = {es[p].id}

(* A folder that is made at a name that is taken never was there.          *)
NeverThere(es, fs, ids) ==
  fs = es /\ \E id \in ids : ids = {id} /\ \A p \in DOMAIN es : es[p].id # id

NameInit == entries = <<>> /\ lost = {} /\ ~stopped

Operate ==
  /\ ~stopped /\ UNCHANGED stopped
  /\ \E es \in {entries}, fs \in {entries'} :
       \/ /\ Created(es, fs) \/ Deleted(es, fs) \/ Renamed(es, fs) \/ Changed(es, fs)
          /\ UNCHANGED lost
       \/ /\ Vanished(es, fs, lost' \ lost) \/ NeverThere(es, fs, lost' \ lost)
          /\ lost \subseteq lost'

Stop == ~stopped /\ stopped' /\ UNCHANGED <<entries, lost>>

NameSpec == NameInit /\ [][Operate \/ Stop]_nameVars
=============================================================================
