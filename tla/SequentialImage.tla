-------------------------- MODULE SequentialImage --------------------------
(***************************************************************************)
(* What insertBLKX promises, whatever its threads do: the runs of the      *)
(* image are the consecutive slices of the input, appended one after the   *)
(* other, and which of them are kept raw for the attribution depends on    *)
(* the input alone.                                                        *)
(***************************************************************************)
EXTENDS Integers, Sequences

CONSTANTS
  RunUnits,     \* size of a run
  SentinelLen   \* size of the sentinel

VARIABLES
  input,   \* [total: units to convert, avail: units that can be read,
           \*  marks: where the sentinel starts]
  image,   \* the runs so far: [lo, have, keep]
  status   \* open, closed or failed

imageVars == <<input, image, status>>

Least(a, b) == IF a <= b THEN a ELSE b

(* The sentinel lies within n runs, the first of which is run i.           *)
Within(i, n) == \E m \in input.marks :
                   /\ i * RunUnits <= m
                   /\ m + SentinelLen <= Least((i + n) * RunUnits, input.avail)

(* Raw are the first run from which the sentinel is visible, and its       *)
(* successor unless that run holds it entirely.                            *)
FirstSight(i) == Within(i, 2) /\ \A j \in 0 .. i - 1 : ~Within(j, 2)
Raw(i) == \/ FirstSight(i)
          \/ i > 0 /\ FirstSight(i - 1) /\ ~Within(i - 1, 1)

Covered == IF image = <<>> THEN 0
           ELSE image[Len(image)].lo + image[Len(image)].have

ImageInit == image = <<>> /\ status = "open"

AppendRun ==
  /\ status = "open"
  /\ Covered < input.total
  /\ image' = Append(image, [lo |-> Covered,
                             have |-> Least(RunUnits, input.total - Covered),
                             keep |-> Raw(Len(image))])
  /\ UNCHANGED <<input, status>>

Close ==
  /\ status = "open"
  /\ Covered = input.total
  /\ status' = "closed"
  /\ UNCHANGED <<input, image>>

Fail ==
  /\ status = "open"
  /\ status' = "failed"
  /\ UNCHANGED <<input, image>>

ImageNext == AppendRun \/ Close \/ Fail

ImageSpec == ImageInit /\ [][ImageNext]_imageVars
=============================================================================
