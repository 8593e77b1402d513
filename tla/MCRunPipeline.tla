--------------------------- MODULE MCRunPipeline ---------------------------
(* Instances of RunPipeline for TLC.                                       *)
EXTENDS RunPipeline, TLC

Symmetry == Permutations(Threads)

(* Two units per sector, three sectors per run: a run is six units, and    *)
(* the sentinel is two.                                                    *)
Call(len, bytes, marks) ==
  [len |-> len, eof |-> TRUE, bytes |-> bytes, attribution |-> marks # {},
   marks |-> marks]

(* Nothing to read; a partial last sector, with the length given and       *)
(* without; whole runs until EOF; less input than promised; a read error.  *)
PlainJobs == {Call(0, 0, {}), Call(19, 19, {}), Call(15, READ_UNTIL_EOF, {}),
              Call(12, READ_UNTIL_EOF, {}), Call(15, 18, {}),
              [Call(9, READ_UNTIL_EOF, {}) EXCEPT !.eof = FALSE]}

(* The sentinel inside run 0; across runs 0 and 1; inside run 1 and again  *)
(* in run 3; across the last two runs; in runs 0 and 1; absent.            *)
SentinelJobs == {Call(18, 18, {0}), Call(15, READ_UNTIL_EOF, {5}),
                 Call(21, 21, {8, 19}), Call(15, 15, {11}),
                 Call(18, 18, {1, 6}),
                 [Call(13, 13, {}) EXCEPT !.attribution = TRUE]}

AllJobs == PlainJobs \cup SentinelJobs
=============================================================================
