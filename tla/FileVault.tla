----------------------------- MODULE FileVault -----------------------------
(***************************************************************************)
(* The encrypted file of dmg/filevault.c: chunks, each encrypted with a    *)
(* vector made of its number, of which one is kept decrypted.              *)
(*                                                                         *)
(* A chunk in the file is [iv, text]; decrypted with another number it is  *)
(* garbage.  Every operation ends with the chunk of the position in        *)
(* memory, and a read begins with what is there; reads and writes call     *)
(* themselves for what is in the next chunk.                               *)
(***************************************************************************)
EXTENDS Integers, Sequences

CONSTANTS
  ChunkSize,   \* blockSize
  WordBytes,   \* 2^32: curChunk * blockSize is a product of 32-bit numbers
  Garbage      \* a byte that no caller writes

ASSUME ChunkAssumption == /\ ChunkSize \in Nat \ {0}
                          /\ WordBytes \in Nat \ {0}
                          /\ WordBytes % ChunkSize = 0

VARIABLES
  store,    \* the chunks of the file, from number 0
  dataSize, \* what the header says, and getLength answers
  vault,    \* [offset, curChunk, chunk, dirty, headerDirty]
  vcall,    \* the operation that is under way
  vstatus   \* "closed", "open", or how the program ended

vaultVars == <<store, dataSize, vault, vcall, vstatus>>

Chunks == DOMAIN store

(* chunk * blockSize + dataOffset, as the file that is there has it.       *)
Place(n) == ((n * ChunkSize) % WordBytes) \div ChunkSize

Junk == [i \in 1 .. ChunkSize |-> Garbage]

Decrypt(cell, n) == IF cell.iv = n THEN cell.text ELSE Junk

Text(n) == IF Place(n) \in Chunks THEN Decrypt(store[Place(n)], n) ELSE Junk

(* Variant: with the number of the chunk that is wanted next.              *)
NewNumber(v, n) == n

(* The number a chunk is written back under.                               *)
Number(v, n) == v.curChunk

(* cacheChunk, and writeChunk in it.                                       *)
Stored(v, n) ==
  IF n # v.curChunk /\ v.dirty /\ Place(v.curChunk) \in Chunks
  THEN [store EXCEPT ![Place(v.curChunk)] =
          [iv |-> Number(v, n), text |-> v.chunk]]
  ELSE store

Cached(v, n) ==
  IF n = v.curChunk THEN v
  ELSE [v EXCEPT !.curChunk = n, !.chunk = Text(n), !.dirty = FALSE]

(* Variant: the position moves, the chunk stays.                           *)
MoveOnly(v) == vault' = v /\ UNCHANGED store

(* The position is where v has it; its chunk is cached.                    *)
Move(v) == LET n == v.offset \div ChunkSize
           IN  vault' = Cached(v, n) /\ store' = Stored(v, n)

-----------------------------------------------------------------------------
Idle == [op |-> "none", from |-> 0, size |-> 0, want |-> 0, left |-> <<>>,
         got |-> <<>>]

Ready == vstatus = "open" /\ vcall.op \in {"none", "done"}

(* createAbstractFileFromFileVault: the number 1 is only there to be       *)
(* another than 0.                                                         *)
OpenVault ==
  /\ vstatus = "closed"
  /\ vstatus' = "open"
  /\ vault' = [offset |-> 0, curChunk |-> 0, chunk |-> Text(0),
               dirty |-> FALSE, headerDirty |-> FALSE]
  /\ vcall' = Idle
  /\ UNCHANGED <<store, dataSize>>

VaultSeek(o) ==
  /\ Ready
  /\ Move([vault EXCEPT !.offset = o])
  /\ vcall' = Idle
  /\ UNCHANGED <<dataSize, vstatus>>

VaultRead(n) ==
  /\ Ready
  /\ vcall' = [Idle EXCEPT !.op = "read", !.want = n, !.size = n,
                           !.from = vault.offset]
  /\ UNCHANGED <<store, dataSize, vault, vstatus>>

VaultWrite(s) ==
  /\ Ready
  /\ vcall' = [Idle EXCEPT !.op = "write", !.left = s, !.from = vault.offset]
  /\ UNCHANGED <<store, dataSize, vault, vstatus>>

(* CHUNKOFFSET, and what of n bytes is in this chunk.                      *)
ChunkOffset == vault.offset % ChunkSize
Here(n)     == IF ChunkOffset + n > ChunkSize THEN ChunkSize - ChunkOffset ELSE n

ReadTurn ==
  LET n == Here(vcall.want)
  IN  /\ vstatus = "open" /\ vcall.op = "read"
      /\ vcall' = [vcall EXCEPT
                     !.got  = @ \o SubSeq(vault.chunk, ChunkOffset + 1,
                                          ChunkOffset + n),
                     !.want = @ - n,
                     !.op   = IF n = vcall.want THEN "done" ELSE "read"]
      /\ Move([vault EXCEPT !.offset = @ + n])
      /\ UNCHANGED <<dataSize, vstatus>>

(* The assertion "blah": only what is there already can be written.  What  *)
(* was written in the turns before this one is `got`.                      *)
WriteTurn ==
  LET n    == Here(Len(vcall.left))
      part == SubSeq(vcall.left, 1, n)
      last == n = Len(vcall.left)
  IN  /\ vstatus = "open" /\ vcall.op = "write"
      /\ IF part = SubSeq(vault.chunk, ChunkOffset + 1, ChunkOffset + n)
         THEN /\ Move([vault EXCEPT
                         !.offset = @ + n, !.dirty = TRUE,
                         !.headerDirty = @ \/ dataSize < vault.offset + Len(vcall.left)])
              /\ vcall' = [vcall EXCEPT
                             !.got  = @ \o part,
                             !.left = SubSeq(@, n + 1, Len(@)),
                             !.op   = IF last THEN "done" ELSE "write"]
              /\ UNCHANGED vstatus
         ELSE vstatus' = "exited" /\ UNCHANGED <<store, vault, vcall>>
      /\ UNCHANGED dataSize

VaultTurn == ReadTurn \/ WriteTurn

(* fvClose caches another chunk to have this one written, gives the HMAC   *)
(* context back, and would then write the header, through the vault.       *)
VaultClose ==
  LET other == IF vault.curChunk = 0 THEN 1 ELSE 0
  IN  /\ Ready
      /\ store' = Stored(vault, other)
      /\ vault' = Cached(vault, other)
      /\ vcall' = Idle
      /\ vstatus' = IF vault.headerDirty THEN "undefined" ELSE "closed"
      /\ UNCHANGED dataSize
=============================================================================
