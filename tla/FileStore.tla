----------------------------- MODULE FileStore -----------------------------
(***************************************************************************)
(* What the files of a volume promise their callers: each is a sequence of *)
(* units of its own, whatever blocks hold it.  Growing a file keeps what   *)
(* it has and adds units that were never another file's; shrinking it      *)
(* keeps the rest; a write changes the units written and nothing else.     *)
(***************************************************************************)
EXTENDS Integers, Sequences

CONSTANTS
  Files,
  Zero      \* a unit that was never written

VARIABLES
  data,     \* the units of every file
  stopped   \* has the program given up?

storeVars == <<data, stopped>>

Written(f, u) == <<f, u>>

StoreInit == data = [f \in Files |-> <<>>] /\ ~stopped

(* A unit that comes back after a shrink may still show what this file had *)
(* there.                                                                  *)
Resize(f) ==
  /\ ~stopped
  /\ Len(data'[f]) # Len(data[f])
  /\ \A i \in DOMAIN data'[f] :
       data'[f][i] \in IF i \in DOMAIN data[f] THEN {data[f][i]}
                       ELSE {Zero, Written(f, i - 1)}
  /\ \A g \in Files \ {f} : data'[g] = data[g]
  /\ UNCHANGED stopped

Write(f) ==
  /\ ~stopped
  /\ \E first \in DOMAIN data[f] : \E last \in first .. Len(data[f]) :
       data' = [data EXCEPT ![f] =
                  [i \in DOMAIN data[f] |->
                     IF i \in first .. last THEN Written(f, i - 1) ELSE @[i]]]
  /\ UNCHANGED stopped

Stop == ~stopped /\ stopped' /\ UNCHANGED data

StoreNext == Stop \/ \E f \in Files : Resize(f) \/ Write(f)

StoreSpec == StoreInit /\ [][StoreNext]_storeVars
=============================================================================
