-------------------------- MODULE MCEncryptedImage --------------------------
(* Instances of EncryptedImage for TLC.  Sectors have two bytes, chunks    *)
(* three, so that runs begin and end within chunks.                        *)
EXTENDS EncryptedImage, TLC

CONSTANTS
  a, b, o, d2, d4, eMap, eHFS, eWide, eVol, eNone, zMap, zHead, zBody, zBad

CUnpacked == (zMap  :> <<eMap, o, eHFS, o>>) @@ (zHead :> <<a, b, b, a>>)
             @@ (zBody :> <<b, b>>) @@ (zBad :> <<a>>)

CDDM   == (d2 :> 2) @@ (d4 :> 4)
CEntry == (eMap  :> [hfs |-> FALSE, start |-> 1, entries |-> 2])
          @@ (eHFS  :> [hfs |-> TRUE,  start |-> 3, entries |-> 2])
          @@ (eWide :> [hfs |-> FALSE, start |-> 1, entries |-> 2])
          @@ (eVol  :> [hfs |-> TRUE,  start |-> 3, entries |-> 2])
          @@ (eNone :> [hfs |-> FALSE, start |-> 1, entries |-> 1])

R(type, start, count, off, len) ==
  [type |-> type, start |-> start, count |-> count, off |-> off, len |-> len]
T(first, sectors, runs) == [first |-> first, sectors |-> sectors, runs |-> runs]
End(start) == R("terminator", start, 0, 0, 0)

(* Compressed and raw runs, one of zeros; a map of two sectors.            *)
Plain == [bytes |-> <<d2, o, zMap, zHead, a, b, zBody>>,
          tables |-> <<T(0, 1, <<R("raw", 0, 1, 0, 2), End(1)>>),
                       T(1, 2, <<R(Compressed, 0, 2, 2, 1), End(2)>>),
                       T(3, 5, <<R(Compressed, 0, 2, 3, 1), R("raw", 2, 1, 4, 2),
                                 R(Compressed, 3, 1, 6, 1), R("zeroes", 4, 1, 7, 0),
                                 End(5)>>)>>]

(* Blocks of two sectors, as of dmg build2048; between the runs of the     *)
(* volume a sector that no run has; the last run cannot be decompressed.   *)
Gaps == [bytes |-> <<d4, o, o, o, eWide, a, a, a, eVol, zHead, a, zBad>>,
         tables |-> <<T(0, 6, <<R("raw", 0, 2, 0, 4), R("raw", 2, 4, 4, 5)>>),
                      T(6, 6, <<R(Compressed, 0, 2, 9, 1), R("raw", 3, 2, 10, 1),
                                R(Compressed, 5, 1, 11, 1)>>)>>]

(* No HFS+ volume, and more bytes than the word reaches.                   *)
Long == [bytes |-> <<d2, o, eNone, b, a, b, a, b, b, a, b, a, b, b>>,
         tables |-> <<T(0, 7, <<R("raw", 0, 7, 0, 14)>>)>>]

(* The map says nothing that can be read.                                  *)
NoMap == [bytes |-> <<d2, o, a, b>>,
          tables |-> <<T(0, 2, <<R("raw", 0, 2, 0, 4), R("unknown", 2, 1, 0, 0)>>)>>]

CImages == {Plain, Gaps, Long, NoMap}
=============================================================================
