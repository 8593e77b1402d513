--------------------------- MODULE CompressedFile ---------------------------
(***************************************************************************)
(* A compressed file of an HFS+ volume: the io_func of hfs/hfscompress.c.  *)
(* Its contents are in an extended attribute, if they are one block that   *)
(* compresses well, or block by block in the resource fork, with a table   *)
(* in front.  A read keeps one block in memory; a write first gets the     *)
(* whole file there, and the file is compressed again when it is closed.   *)
(*                                                                         *)
(* The fork is a sequence of cells: its head, the number of blocks, one    *)
(* cell for every entry of the table, then the blocks.  A block that was   *)
(* compressed has as many cells as PackedLen says.  The raw file that the  *)
(* fork is, and the attributes tree, are taken at their word (Allocator,   *)
(* Catalog); a volume may have no such tree.                               *)
(***************************************************************************)
EXTENDS Integers, Sequences, FiniteSets

CONSTANTS
  Block,       \* the 0x10000 bytes of a block
  InlineRoom,  \* cells of an attribute
  Byte,        \* the bytes
  Noise,       \* those that do not compress
  Junk,        \* what memory holds that nothing was written to
  Files,       \* the contents considered, of files that are there
  Data,        \* what is written at once
  MaxSize,     \* bound: size of the file
  MaxWrites    \* bound: writes

ASSUME BlockAssumption == /\ Block \in Nat \ {0}
                          /\ InlineRoom \in Nat
                          /\ MaxSize \in Nat /\ MaxWrites \in Nat
                          /\ Noise \subseteq Byte /\ Junk \notin Byte
                          /\ <<>> \notin Files \cup Data
ASSUME ContentAssumption == /\ \A s \in Files \cup Data : s \in Seq(Byte)
                            /\ \A s \in Files : Len(s) <= MaxSize

VARIABLES
  attr,     \* com.apple.decmpfs: [kind, size, data]
  fork,     \* the resource fork
  handle,   \* what openHFSPlusCompressed gave
  call,     \* the operation under way, or the last one
  saving,   \* how far the closing has come
  status,   \* "closed", "open", "saving", "wild" or "exited"
  writes,   \* writes so far
  saved,    \* history: the contents when the file was last closed
  stop      \* history: "never", or what the last stop or saving has done to
            \*   the contents: "harmless", "torn" or "lost"

vars == <<attr, fork, handle, call, saving, status, writes, saved, stop>>

Smaller(x, y) == IF x <= y THEN x ELSE y

Slice(s, from, to) == SubSeq(s, from + 1, Smaller(to, Len(s)))

-----------------------------------------------------------------------------
(* Compression, and the way the blocks lie in the fork.                    *)

BlocksOf(size) == (size + Block - 1) \div Block

NthBlock(s, i) == Slice(s, i * Block, (i + 1) * Block)

PackedLen(b) == 1 + Cardinality({k \in 1 .. Len(b) : b[k] \in Noise})

Packed(b) == [k \in 1 .. PackedLen(b) |-> <<"z", b, k>>]

(* A block of another program, which begins with 0xff and is not           *)
(* compressed.                                                             *)
Plain(b) == <<<<"ff">>>> \o [k \in 1 .. Len(b) |-> <<"byte", b[k]>>]

IsPacked(cells) == /\ cells # <<>> /\ cells[1][1] = "z"
                   /\ cells = Packed(cells[1][2])
IsPlain(cells)  == /\ cells # <<>> /\ cells[1][1] = "ff"
                   /\ \A k \in 2 .. Len(cells) : cells[k][1] = "byte"

Unpacked(cells) == IF IsPlain(cells)
                   THEN [k \in 1 .. Len(cells) - 1 |-> cells[k + 1][2]]
                   ELSE cells[1][2]

(* Where the blocks begin, behind the head and a table of n entries.       *)
BlockArea(n) == 2 + n

Put(at, cells) ==
  [k \in 1 .. (IF at + Len(cells) > Len(fork) THEN at + Len(cells)
               ELSE Len(fork)) |->
     IF k > at /\ k <= at + Len(cells) THEN cells[k - at]
     ELSE IF k <= Len(fork) THEN fork[k] ELSE <<"0">>]

IsTable(f) == /\ Len(f) >= 2 /\ f[2][1] = "n" /\ Len(f) >= 2 + f[2][2]
              /\ \A k \in 3 .. 2 + f[2][2] : f[k][1] = "entry"

(* The table that is read at opening: places and sizes of the blocks.      *)
Table(f) == [k \in 1 .. f[2][2] |-> [at |-> f[k + 2][2], len |-> f[k + 2][3]]]

Entries(table) == [k \in DOMAIN table |-> <<"entry", table[k].at, table[k].len>>]

Stored(f, k) == Slice(f, Table(f)[k].at, Table(f)[k].at + Table(f)[k].len)

(* Every block that `size` bytes need is there, as long as it should be.   *)
Sound(f, size) ==
  /\ IsTable(f) /\ Len(Table(f)) = BlocksOf(size)
  /\ \A k \in DOMAIN Table(f) :
       /\ IsPacked(Stored(f, k)) \/ IsPlain(Stored(f, k))
       /\ Len(Unpacked(Stored(f, k))) = Smaller(Block, size - (k - 1) * Block)

(* Byte i, which is in the block of its place.                             *)
StoredByte(f, i) ==
  Unpacked(Stored(f, (i - 1) \div Block + 1))[((i - 1) % Block) + 1]

(* The contents on disk.                                                   *)
Contents == CASE attr.kind \in {"none", "absent"} -> <<>>
              [] attr.kind = "inline" -> Unpacked(attr.data)
              [] attr.kind = "fork"   -> IF Sound(fork, attr.size)
                                         THEN [i \in 1 .. attr.size |-> StoredByte(fork, i)]
                                         ELSE <<Junk>>

-----------------------------------------------------------------------------
NoAttribute == [kind |-> "none", size |-> 0, data |-> <<>>]

(* A volume without an attributes tree.                                    *)
NoTree == [NoAttribute EXCEPT !.kind = "absent"]

NoHandle == [size |-> 0, room |-> 0, blocks |-> <<>>, cached |-> <<>>,
             start |-> 0, end |-> 0, dirty |-> FALSE]

NoCall == [op |-> "done", at |-> 0, want |-> 0, got |-> <<>>, data |-> <<>>]

NotSaving == [phase |-> "none", table |-> <<>>, place |-> 0]

(* Files of this program and of others, which may not compress a block.    *)
ForkOf(s, plain) ==
  LET n     == BlocksOf(Len(s))
      cells == [k \in 1 .. n |-> IF k \in plain THEN Plain(NthBlock(s, k - 1))
                                 ELSE Packed(NthBlock(s, k - 1))]
      upto[k \in 0 .. n] == IF k = 0 THEN <<>> ELSE upto[k - 1] \o cells[k]
  IN  <<<<"head">>, <<"n", n>>>>
      \o [k \in 1 .. n |-> <<"entry", BlockArea(n) + Len(upto[k - 1]), Len(cells[k])>>]
      \o upto[n] \o <<<<"end">>>>

Init ==
  /\ \/ attr \in {NoAttribute, NoTree} /\ fork = <<>>
     \/ \E s \in Files :
          /\ Len(s) <= Block
          /\ \E cells \in {Packed(s), Plain(s)} :
               attr = [kind |-> "inline", size |-> Len(s), data |-> cells]
          /\ fork = <<>>
     \/ \E s \in Files : \E plain \in SUBSET {1} :
          /\ attr = [kind |-> "fork", size |-> Len(s), data |-> <<>>]
          /\ fork = ForkOf(s, plain)
  /\ handle = NoHandle /\ call = NoCall /\ saving = NotSaving
  /\ status = "closed" /\ saved = Contents /\ stop = "never"
  /\ writes = 0

-----------------------------------------------------------------------------
(* openHFSPlusCompressed.  The buffer of a new file has room for a whole   *)
(* attribute, that of an old one for the attribute that is there.          *)
Opened == [NoHandle EXCEPT !.size = attr.size, !.room = Len(attr.data)]

Open ==
  /\ status = "closed"
  /\ CASE attr.kind \in {"none", "absent"} ->
            /\ handle' = [Opened EXCEPT !.room = InlineRoom]
            /\ status' = "open"
       [] attr.kind = "inline" ->
            /\ handle' = [Opened EXCEPT !.cached = Unpacked(attr.data),
                                        !.end = Len(Unpacked(attr.data))]
            /\ status' = "open"
       [] attr.kind = "fork" /\ IsTable(fork) ->
            /\ handle' = [Opened EXCEPT !.blocks = Table(fork)]
            /\ status' = "open"
       [] attr.kind = "fork" /\ ~IsTable(fork) ->
            status' = "wild" /\ UNCHANGED handle
  /\ call' = NoCall
  /\ UNCHANGED <<attr, fork, saving, writes, saved, stop>>

Quiet == status = "open" /\ call.op = "done"

Calls(c) == /\ call' = c
            /\ UNCHANGED <<attr, fork, handle, saving, status, saved, stop>>

(* Callers read what the file has.                                         *)
Read(at, n) ==
  /\ Quiet
  /\ at + n <= handle.size
  /\ Calls([NoCall EXCEPT !.op = "read", !.at = at, !.want = n])
  /\ UNCHANGED writes

(* The whole file is read first unless it is in memory.                    *)
Whole == handle.start = 0 /\ handle.end = handle.size

Write(at, s) ==
  /\ Quiet
  /\ writes < MaxWrites /\ writes' = writes + 1
  /\ at + Len(s) <= MaxSize
  /\ Calls([NoCall EXCEPT !.op = IF Whole THEN "change" ELSE "gather",
                          !.at = at, !.data = s,
                          !.want = IF Whole THEN 0 ELSE handle.size])

(* The place in the file a read, or the gathering for a write, is at.      *)
Here == (IF call.op = "read" THEN call.at ELSE 0) + Len(call.got)

Missing(c) == c.want - Len(c.got)

(* Variant: up to the end of the block, wanted or not.                     *)
TakenAll(c) == [c EXCEPT !.got = @ \o SubSeq(handle.cached, Here - handle.start + 1,
                                             Len(handle.cached))]

Taken(c) ==
  [c EXCEPT !.got = @ \o SubSeq(handle.cached, Here - handle.start + 1,
                      Smaller(Here - handle.start + Missing(c), Len(handle.cached)))]

Hit == handle.start <= Here /\ Here < handle.end

After == IF Hit THEN Taken(call) ELSE call

(* Of a block that cannot be decompressed some or none may come out.       *)
Outcomes(cells) ==
  IF IsPacked(cells) \/ IsPlain(cells) THEN {Unpacked(cells)}
  ELSE {<<>>, [k \in 1 .. Block |-> Junk]}

(* Variant: rounded up.                                                    *)
BlockAbove(at) == (at + Block - 1) \div Block

(* Variant: the block in which the call began.                             *)
BlockOfCall(at) == call.at \div Block

BlockAt(at) == at \div Block

(* One turn of the loop of compressedRead: take what is in memory, and     *)
(* load the block for the rest.  The table is not looked at for whether it *)
(* has that block, nor whether there is one.                               *)
LoadBlock(at) ==
  LET i == BlockAt(at)
  IN  IF i >= Len(handle.blocks)
      THEN status' = "wild" /\ UNCHANGED handle
      ELSE LET e == handle.blocks[i + 1]
           IN  IF e.at + e.len > Len(fork)
               THEN status' = "exited" /\ UNCHANGED handle
               ELSE /\ \E out \in Outcomes(Slice(fork, e.at, e.at + e.len)) :
                         handle' = [handle EXCEPT !.cached = out,
                                                  !.start = i * Block,
                                                  !.end = i * Block + Len(out)]
                    /\ UNCHANGED status

Turn ==
  /\ status = "open"
  /\ call.op \in {"read", "gather"}
  /\ IF Missing(After) = 0
     THEN /\ call' = [After EXCEPT !.op = IF @ = "read" THEN "done" ELSE "change"]
          /\ UNCHANGED <<handle, status>>
     ELSE /\ call' = After
          /\ LoadBlock(Here + Len(After.got) - Len(call.got))
  /\ UNCHANGED <<attr, fork, saving, writes, saved, stop>>

(* What is between the old end and the place of the write is not set.      *)
Changed(bytes, at, s) ==
  [k \in 1 .. (IF at + Len(s) > Len(bytes) THEN at + Len(s) ELSE Len(bytes)) |->
     IF k > at /\ k <= at + Len(s) THEN s[k - at]
     ELSE IF k <= Len(bytes) THEN bytes[k] ELSE Junk]

(* Variant: the size is that of the data.                                  *)
ChangeSize ==
  LET bytes == Changed(IF call.want > 0 THEN call.got ELSE handle.cached,
                       call.at, call.data)
  IN  /\ status = "open" /\ call.op = "change"
      /\ handle' = [handle EXCEPT !.cached = bytes, !.start = 0,
                                  !.end = Len(bytes),
                                  !.size = call.at + Len(call.data),
                                  !.dirty = TRUE]
      /\ call' = [call EXCEPT !.op = "done"]
      /\ UNCHANGED <<attr, fork, saving, status, writes, saved, stop>>

Change ==
  LET bytes == Changed(IF call.want > 0 THEN call.got ELSE handle.cached,
                       call.at, call.data)
  IN  /\ status = "open" /\ call.op = "change"
      /\ handle' = [handle EXCEPT !.cached = bytes, !.start = 0,
                                  !.end = Len(bytes), !.size = Len(bytes),
                                  !.dirty = TRUE]
      /\ call' = [call EXCEPT !.op = "done"]
      /\ UNCHANGED <<attr, fork, saving, status, writes, saved, stop>>

-----------------------------------------------------------------------------
(* closeHFSPlusCompressed.                                                 *)

Close ==
  /\ Quiet
  /\ call' = NoCall
  /\ IF handle.dirty
     THEN /\ status' = "saving"
          /\ saving' = [phase |-> "blocks", table |-> <<>>,
                        place |-> BlockArea(BlocksOf(handle.size))]
          /\ UNCHANGED handle
     ELSE /\ status' = "closed"
          /\ handle' = NoHandle
          /\ UNCHANGED saving
  /\ UNCHANGED <<attr, fork, writes, saved, stop>>

Saves(next) == /\ status = "saving" /\ saving' = next
               /\ UNCHANGED <<attr, handle, call, writes, saved, stop>>

BlockNow == NthBlock(handle.cached, Len(saving.table))

MoreBlocks == saving.phase = "blocks" /\ Len(saving.table) < BlocksOf(handle.size)

Fits == BlocksOf(handle.size) <= 1 /\ PackedLen(BlockNow) <= InlineRoom

(* The attribute's buffer may be too small for what goes inline.           *)
SaveInline ==
  /\ MoreBlocks /\ Fits
  /\ Saves([saving EXCEPT !.phase = "inline"])
  /\ status' \in IF PackedLen(BlockNow) > handle.room
                 THEN {"saving", "wild"} ELSE {"saving"}
  /\ UNCHANGED fork

SaveBlock ==
  LET cells == Packed(BlockNow)
  IN  /\ MoreBlocks /\ ~Fits
      /\ fork' = Put(saving.place, cells)
      /\ Saves([saving EXCEPT
                  !.table = Append(@, [at |-> saving.place, len |-> Len(cells)]),
                  !.place = @ + Len(cells)])
      /\ UNCHANGED status

SavePart(from, to, at, cells) ==
  /\ saving.phase = from
  /\ fork' = Put(at, cells)
  /\ Saves([saving EXCEPT !.phase = to])
  /\ UNCHANGED status

(* Variant: the attribute is set before the table is written.            *)
SaveEarly ==
  /\ Len(saving.table) = BlocksOf(handle.size)
  /\ SavePart("blocks", "fork", 0, <<<<"head">>>>)

SaveHead == /\ Len(saving.table) = BlocksOf(handle.size)
            /\ SavePart("blocks", "table", 0, <<<<"head">>>>)

SaveTable == SavePart("table", "end", 1,
                      <<<<"n", Len(saving.table)>>>> \o Entries(saving.table))

SaveEnd == SavePart("end", "fork", saving.place, <<<<"end">>>>)

Attribute(kind) ==
  [kind |-> kind, size |-> handle.size,
   data |-> IF kind = "inline" THEN Packed(BlockNow) ELSE <<>>]

(* updateAttributes of setAttribute: the attribute that is there is removed*)
(* from the tree before the new one is added.                              *)
ClearAttribute ==
  /\ saving.phase \in {"inline", "fork"} /\ status = "saving"
  /\ attr.kind \in {"inline", "fork"}
  /\ attr' = NoAttribute
  /\ UNCHANGED <<fork, handle, call, saving, status, writes, saved, stop>>

(* Without an attributes tree setAttribute gives FALSE, which nobody looks *)
(* at: what was written is lost.                                           *)
SetAttribute ==
  /\ saving.phase \in {"inline", "fork"} /\ status = "saving"
  /\ attr.kind \in {"none", "absent"}
  /\ attr' = IF attr.kind = "none" THEN Attribute(saving.phase) ELSE attr
  /\ stop' = IF attr.kind = "none" THEN stop ELSE "lost"
  /\ handle' = NoHandle /\ saving' = NotSaving /\ status' = "closed"
  /\ saved' = handle.cached
  /\ UNCHANGED <<fork, call, writes>>

(* The attribute of a file that was there is removed, the new one not added*)
(* yet.                                                                    *)
Between == attr.kind = "none" /\ saved # <<>>

(* The program ends, as hfs_panic does or without being asked, and the     *)
(* file is opened again later.  What is torn is a file that was in the     *)
(* fork already, or whose attribute is not there at the moment.            *)
Stop ==
  /\ status \in {"open", "saving"} /\ stop = "never"
  /\ handle' = NoHandle /\ call' = NoCall /\ saving' = NotSaving
  /\ status' = "closed"
  /\ stop' = IF (saving.table # <<>> /\ attr.kind = "fork") \/ Between
             THEN "torn" ELSE "harmless"
  /\ UNCHANGED <<attr, fork, writes, saved>>

Save == \/ SaveInline \/ SaveBlock \/ SaveHead \/ SaveTable \/ SaveEnd
        \/ ClearAttribute \/ SetAttribute

Next == \/ Open
        \/ \E at \in 0 .. MaxSize : \E n \in 1 .. MaxSize : Read(at, n)
        \/ \E at \in 0 .. MaxSize : \E s \in Data : Write(at, s)
        \/ Turn \/ Change
        \/ Close \/ Save
        \/ Stop

Spec == Init /\ [][Next]_vars /\ WF_vars(Turn \/ Change)

-----------------------------------------------------------------------------
(* What is in memory is one block of the file, or all of it if it was      *)
(* changed; a call has no more than it asked for.                          *)
TypeOK ==
  /\ attr.kind \in {"absent", "none", "inline", "fork"}
  /\ status \in {"closed", "open", "saving", "wild", "exited"}
  /\ stop \in {"never", "harmless", "torn", "lost"}
  /\ saving.phase \in {"none", "blocks", "inline", "table", "end", "fork"}
  /\ status = "saving" <=> saving.phase # "none" /\ status # "wild"
  /\ handle.end = handle.start + Len(handle.cached)
  /\ handle.dirty => Whole /\ handle.size \in 1 .. MaxSize
  /\ stop # "torn" => handle.end <= handle.size
  /\ Len(call.got) <= call.want
  /\ call.op \in {"done", "read", "gather", "change"}

(* hfscompress.c:119-221: what was closed is what is opened again, in the  *)
(* attribute or in the fork; a program that ends anywhere, while it saves  *)
(* or before, leaves the old contents or the new ones, unless it had begun *)
(* to write over a file that was in the resource fork already, or ends     *)
(* between the removal of the attribute and its return (xattr.c:183-196).  *)
(* Nothing is kept where there is no attributes tree (xattr.c:263).        *)
SavedIsReadBack ==
  status = "closed" /\ stop \notin {"torn", "lost"} => Contents = saved

(* A file that is not torn is read in bounds, and saving leaves the        *)
(* buffer of the attribute only if a file that was there before has come   *)
(* to need more room in it.                                                *)
WildOnlyOutgrown ==
  stop # "torn" =>
    /\ status # "exited"
    /\ status = "wild" => /\ saving.phase = "inline"
                          /\ attr.kind \in {"inline", "fork"}
                          /\ PackedLen(handle.cached) > Len(attr.data)

(* The file is a file, until the program stops: what is read is what was   *)
(* written, whatever block is in memory and wherever the file was kept.    *)
Live == IF handle.dirty THEN handle.cached ELSE Contents

Ended == stop # "never" \/ status \in {"wild", "exited"}

Bytes == INSTANCE ByteFile WITH
           content <- IF Ended THEN <<>> ELSE Live,
           pos     <- 0,
           answer  <- IF Ended \/ call.op # "done"
                      THEN [at |-> 0, want |-> 0, bytes |-> <<>>]
                      ELSE [at |-> call.at, want |-> call.want,
                            bytes |-> IF call.data # <<>> THEN call.data
                                      ELSE call.got],
           status  <- IF Ended THEN "failed" ELSE "open"

ImplementsByteFile == Bytes!FileSpec

(* A read, and the gathering for a write, come to an end: the loop has no  *)
(* other end than the last byte that was wanted.                           *)
CallReturns ==
  (status = "open" /\ call.op # "done" /\ stop # "torn") ~>
    (status # "open" \/ call.op = "done")
=============================================================================
