---------------------------- MODULE MCDiskImage ----------------------------
(* Instances of DiskImage for TLC.                                         *)
EXTENDS DiskImage

Nul   == <<"0">>
Code  == <<"atapi">>
Hash  == <<"noise">>
Bad   == <<"garbage">>
A     == <<"a">>
S     == <<"s">>
T     == <<"t">>
U     == <<"u">>

OneNoise   == {Hash}
TwoSectors == <<S, T>>

(* n sectors, zero but for those that are given.                           *)
VolumeWith(n, at) == [i \in 1 .. n |-> IF i \in DOMAIN at THEN at[i] ELSE Nul]

(* A run is 16 sectors.  The sentinel inside the first run of three; over  *)
(* two runs, and shorter than what is there; twice, with the second after  *)
(* the raw run, after a run of noise; twice in one run; up to the end of   *)
(* the raw run; no sentinel; more sectors than 2^32 bytes.                 *)
SomeVolumes ==
  {VolumeWith(40, [i \in {3, 4, 20} |-> CASE i = 3 -> S [] i = 4 -> T [] OTHER -> A]),
   VolumeWith(36, [i \in {16, 17, 18} |-> CASE i = 16 -> S [] i = 17 -> T [] OTHER -> U]),
   VolumeWith(52, [i \in 1 .. 52 |->
     CASE i \in {18, 50} -> S [] i \in {19, 51} -> T [] i <= 16 -> Hash
       [] i = 40 -> A [] OTHER -> Nul]),
   VolumeWith(16, [i \in {2, 3, 9, 10} |-> IF i \in {2, 9} THEN S ELSE T]),
   VolumeWith(20, [i \in {15, 16} |-> IF i = 15 THEN S ELSE T]),
   VolumeWith(8, [i \in {5} |-> A]),
   VolumeWith(72, [i \in {1, 70} |-> A])}

Change(anchor, data) == [anchor |-> anchor, data |-> data]

(* The sentinel for text of its length, which begins with it or not, for   *)
(* less and for more; a prefix of it; more than the raw region has room    *)
(* for.                                                                    *)
SomePatches == {Change(<<S, T>>, <<U, A>>), Change(<<S, T>>, <<S, T, A>>),
                Change(<<S, T>>, <<A>>), Change(<<S>>, <<S, T, U, A>>),
                Change(<<S, T>>, [i \in 1 .. 15 |-> A])}
=============================================================================
